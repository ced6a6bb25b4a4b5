\* Eager execution where a node interrupts while the run is about to stop
\* before another one: the checkpoint loses a task.
SPECIFICATION Spec
CONSTANTS
  Node <- AllNodes
  START = "start"
  END = "end"
  WriteTo <- ForkWriteTo
  Controls <- ForkWriteTo
  Branches <- ForkBranches
  Dag = TRUE
  NeedAll = FALSE
  InterruptBefore <- NodesD
  InterruptAfter <- None
  SubGraph <- None
  MayInterrupt <- NodesC
  MayFail <- None
  MayCancel = FALSE
  MayAbort = FALSE
  RetryAfterError = FALSE
  MaxSteps = 1
  MaxRuns = 3
  MaxFaults = 1
INVARIANTS
  NoTaskLost
