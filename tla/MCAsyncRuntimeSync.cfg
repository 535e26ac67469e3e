\* Two threads, one task: a blocked sync() must go on; it does not.
SPECIFICATION FairSyncSpec
CONSTANTS
  Clients = {c1, c2}
  Weights = {w1}
  MaxTasks = 1
  None = None
PROPERTY SyncWakes
CHECK_DEADLOCK FALSE
