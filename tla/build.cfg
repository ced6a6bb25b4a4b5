SPECIFICATION Spec
CONSTANTS
  Keys <- MCKeys
  OwnKey = "mine"
  Parts <- MCParts
  Conditions = {"a", "b"}
  MaxSteps = 3
  Steps = {"s"}
  Mappings <- MCMappings
  Statics <- MCStatics
  MaxInputs = 3
  StepParts <- MCStepParts
  StepConditions = {"map"}
  Starts <- MCStarts
  GraphNodes = {"m", "n"}
  GraphTypes <- MCGraphTypes
  MaxEdges = 3
  Types <- MCTypes
  Feeds <- MCFeeds
  Streams <- MCStreams
INVARIANTS
  DagIsAcyclic
  EdgesFit
  ChainWhole
  InputsAssignedOnce
  NothingLostInChunks
CHECK_DEADLOCK FALSE
