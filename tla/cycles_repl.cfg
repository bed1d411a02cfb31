\* REPL daemon without the opportunity poller: liveness, and timers that follow the configuration.
CONSTANTS
  Runs = {r1, r2, r3}
  Intervals = {5, 10}
  NoTimers = NoTimers
  Tty = TRUE
  OpportunityPolling = FALSE
SPECIFICATION FairSpec
CHECK_DEADLOCK FALSE
INVARIANTS BusyMeansRunning TimersFollowConfig
PROPERTY CyclesGoOn
