\* Headless daemon with the opportunity poller: every cycle overlaps every other as far as the locks let it.
CONSTANTS
  Runs = {r1, r2, r3, r4}
  Intervals = {5, 10}
  NoTimers = NoTimers
  Tty = FALSE
  OpportunityPolling = TRUE
SYMMETRY RunSymmetry
SPECIFICATION Spec
CHECK_DEADLOCK FALSE
INVARIANTS RunningCyclesHoldTheirFlag CyclesDoNotOverlap PollerRestoresFreeLock
PROPERTIES NoPolledScreeningWhileStarved SingleFlightPromise
