\* Both nested graphs interrupt in the same round.
SPECIFICATION NestedSpec
CONSTANTS
  Sub = {a, b}
  Plain = {p}
  MayInterrupt = {a, b}
  Steps = 2
  MaxRounds = 1
  MaxFaults = 2
INVARIANTS
  ContinuesWhereItWas
CHECK_DEADLOCK FALSE
