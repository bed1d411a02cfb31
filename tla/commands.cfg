\* Three updates, a queue of two, one crash or stop and a restart, guarded chats.
CONSTANTS
  MaxUpdate = 3
  MaxQueue = 2
  MaxLives = 2
  Chats = {101}
  Desktop = FALSE
  Scripts <- MCScripts
SPECIFICATION FairSpec
CHECK_DEADLOCK FALSE
INVARIANTS QueueIsKept RestartIsSafe
PROPERTIES OldestFirst QueueIsServed
