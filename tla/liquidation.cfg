\* Two trades of one mint; incomplete wallet scans, crashes, claims and price moves.
CONSTANTS
  Trades = 2
  Mints = {m1}
  NoMint = NoMint
  MaxAttempts = 2
  BadReads = {"partial"}
  Budget = 1
SPECIFICATION FairSpec
INVARIANTS
  TypeOK
  RealizedMeansGone
PROPERTIES
  TombstonesHold
  SettledIsFinal
  EveryCloseSettles
