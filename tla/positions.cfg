\* A position of the agent and one of its owner, closes through the relay, failing reads, one crash or move of the owner.
CONSTANTS
  Positions = {p1, p2}
  Foreign = {p2}
  NoPosition = NoPosition
  Relay = TRUE
  Looks = 2
  BadReads = {"fails"}
  Budget = 1
SPECIFICATION FairSpec
INVARIANT BookIsRight
PROPERTIES RecordsNotClobbered OpenGetsTracked GoneGetsClosed
