\* Two dies of one rank each, one call.
SPECIFICATION WeakSpec
CONSTANTS
  Worlds <- MCWorlds
  Threads = 1
  MaxCalls = 1
INVARIANT WholeSum
CHECK_DEADLOCK FALSE
