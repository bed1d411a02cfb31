\* Four overlapping runExclusive calls.
CONSTANTS
  Calls = {c1, c2, c3, c4}
  NoCall = NoCall
SPECIFICATION MutexFairSpec
CHECK_DEADLOCK FALSE
INVARIANT MutualExclusion
PROPERTIES ImplementsFifoLock EveryCallRuns
