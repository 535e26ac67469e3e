\* Two threads, two tasks, one weight: safety, spurious wake-ups included.
\* The program may stop: shutdown() joins with the GIL that the worker waits for.
SPECIFICATION Spec
CONSTANTS
  Clients = {c1, c2}
  Weights = {w1}
  MaxTasks = 2
  None = None
SYMMETRY Symmetry
INVARIANTS
  TypeOK PendingCounts SyncOkMeansDone HandleAfterPredecessors
  WorkerSleepsOnlyWhenIdle NoLostHandle DrainBeforeExit
PROPERTY ImplementsContract
CHECK_DEADLOCK FALSE
