\* Three steps of two parallel calls, with a fallback model.
CONSTANTS
  MaxSteps = 3
  MaxCalls = 2
  Fallback = TRUE
SPECIFICATION FairSpec
CHECK_DEADLOCK FALSE
INVARIANTS LoopIsBounded HistoryIsTrue
PROPERTY LoopEnds
