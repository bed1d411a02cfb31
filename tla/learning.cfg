\* Three trades of one token of one pool, three kinds of trade, one note, one edit or crash.
CONSTANTS
  t1 = t1
  t2 = t2
  t3 = t3
  q = q
  stop = stop
  low = low
  out = out
  Traded = {t1, t2, t3}
  Pools = {q}
  PoolOf <- MCPoolOf
  Notes = {n1}
  Evolution = Evolution
  Kinds = {stop, low, out}
  Fee <- MCFee
  Organic <- MCOrganic
  Fees <- MCFees
  Why <- MCWhy
  Results <- MCResults
  EvolveEvery = 3
  MinSamples = 3
  Fee0 = 5
  Organic0 = 60
  OorCount = 2
  FeeCount = 2
  LowHours = 1
  StopHours = 2
  OorHours = 2
  Edits = 1
SYMMETRY Symmetric
SPECIFICATION LearnSpec
CHECK_DEADLOCK FALSE
INVARIANT MemoryIsTrue
PROPERTY LearningIsMild
