\* Two agents, two starts, one client, two lives of the console.
CONSTANTS
  Agents = {a1, a2}
  Spawns = 2
  Clients = {c1}
  TokenNeeded = TRUE
  Restarts = 2
SPECIFICATION Spec
CHECK_DEADLOCK FALSE
INVARIANT NoneGoesAstray
PROPERTY ServersSettle
