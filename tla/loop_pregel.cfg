\* A loop in the AnyPredecessor mode with every kind of interrupt at once:
\* before a node, after a node, by nodes, by a nested graph and by the caller.
SPECIFICATION FairSpec
CONSTANTS
  Node <- AllNodes
  START = "start"
  END = "end"
  WriteTo <- LoopWriteTo
  Controls <- LoopWriteTo
  Branches <- LoopBranches
  Dag = FALSE
  NeedAll = TRUE
  InterruptBefore <- NodesD
  InterruptAfter <- NodesC
  SubGraph <- NodesB
  MayInterrupt <- NodesAB
  MayFail <- None
  MayCancel = TRUE
  MayAbort = FALSE
  RetryAfterError = FALSE
  MaxSteps = 4
  MaxRuns = 4
  MaxFaults = 2
INVARIANTS
  NoTaskLost
  HitsHonoured
PROPERTIES
  ImplementsSupersteps
