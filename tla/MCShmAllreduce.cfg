SPECIFICATION FairSpec
CONSTANTS
  Worlds <- MCWorlds
  Threads = 1
  MaxCalls = 3
INVARIANTS TypeOK WholeSum RaceFree NoLostFlag
PROPERTIES CallsReturn
CHECK_DEADLOCK FALSE
