\* A workflow with data edges that do not order and a branch that only
\* orders, interrupted by nodes and by the caller, with a node that fails, a
\* context that is cancelled, and a client that calls again.
SPECIFICATION FairSpec
CONSTANTS
  Node <- AllNodes
  START = "start"
  END = "end"
  WriteTo <- FlowWriteTo
  Controls <- FlowControls
  Branches <- FlowBranches
  Dag = TRUE
  NeedAll = FALSE
  InterruptBefore <- None
  InterruptAfter <- None
  SubGraph <- NodesB
  MayInterrupt <- NodesAB
  MayFail <- NodesA
  MayCancel = TRUE
  MayAbort = TRUE
  RetryAfterError = TRUE
  MaxSteps = 1
  MaxRuns = 4
  MaxFaults = 2
INVARIANTS
  IInv
  StuckOnlyIfEndSkipped
PROPERTIES
  ImplementsDataflow
  Returns
