\* Two tools at once, of which one loads a checkpoint, resumed twice; nested
\* graphs; and checkpoints in the store.
SPECIFICATION ResumeSpec
CONSTANTS
  root = root
  agent = agent
  graph = graph
  tools = tools
  a = a
  b = b
  inner = inner
  innerA = innerA
  innerB = innerB
  Component <- TeamOf
  Root = root
  Parent <- TeamParent
  Loader <- TeamLoader
  Graph <- TeamGraph
  Parallel <- TeamParallel
  Repeats <- TeamRepeats
  Rank <- TeamRank
  MaxRuns = 3
  Sub = {subA, subB}
  Plain = {plain}
  MayInterrupt = {subA}
  Steps = 2
  MaxRounds = 2
  MaxFaults = 3
  Checkpoints <- MCCheckpoints
  Registrations <- MCRegistrations
INVARIANTS
  StatesComeHome
  NamedGoOn
  SavedComesBack
PROPERTIES
  NestedGraphsResume
CHECK_DEADLOCK FALSE
