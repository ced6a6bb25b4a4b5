\* Two agent tools of one node.
SPECIFICATION Spec
CONSTANTS
  root = root
  agent = agent
  graph = graph
  tools = tools
  a = a
  b = b
  inner = inner
  innerA = innerA
  innerB = innerB
  Component <- PairOf
  Root = root
  Parent <- PairParent
  Loader <- PairLoader
  Graph <- None
  Parallel <- None
  Repeats <- None
  Rank <- PairRank
  MaxRuns = 3
INVARIANTS
  StateFound
CHECK_DEADLOCK FALSE
