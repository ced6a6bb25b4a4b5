\* Three calls with streamed results, at once or in sequence, in three
\* attempts.
SPECIFICATION Spec
CONSTANTS
  Calls = 3
  Streaming = TRUE
  MaxAttempts = 3
INVARIANTS
  EachRunCounts
  EveryCallSettled
PROPERTIES
  SavedKept
CHECK_DEADLOCK FALSE
