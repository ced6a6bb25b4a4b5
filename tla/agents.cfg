\* Every kind of agent; two rounds of a loop; each run is resumed up to twice.
SPECIFICATION Spec
CONSTANTS
  a1 = a1
  a2 = a2
  Modes <- AllModes
  Agents <- Three
  Agent <- Both
  MaxIterations = 2
  MaxRounds = 2
  MaxEvents = 3
  MaxRecords = 2
  Tool = {"search", "exit"}
  ActionTool = {"exit"}
  MaxTurns = 2
  MaxSteps = 4
  MaxCalls = 2
  Root = "boss"
  ParentOf <- Team
  ToAgents <- HandBack
  Turns <- MCTurns
  MaxPath = 3
  MaxUp = 2
  MaxFlowRuns = 2
  MaxPlanRounds = 3
  MaxRuns = 3
  FileCalls <- MCFileCalls
  TokenLimit = 2
  Threshold = 4
  KeepRecent = 3
  ExcludeTools = {"exempt"}
  NoticeSize = 2
  PlaceholderSize = 1
  CallSize = 1
  MaxFileRounds = 3
  Original = {"p", "q"}
  Source = {"r", "s"}
  Named = {"r", "s", "gone"}
  MaxQueriesNum = 2
  MaxParts = 3
  MaxChosen = 2
  MaxFound = 2
INVARIANTS
  EventsInOrder
  NoLaneLost
  ActionsKept
  DirectReturns
  CheckpointServes
  StepsOwnResult
  ResultsInReach
  FoundIsAnswered
PROPERTIES
  TurnsInOrder
  InputWhole
  RunsEnd
CHECK_DEADLOCK FALSE
