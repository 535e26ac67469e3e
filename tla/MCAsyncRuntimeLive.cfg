\* Two threads, one of them submits two tasks: what must eventually happen.
\* The program may stop in the deadlock that the properties name (Stuck).
SPECIFICATION LiveSpec
CONSTANTS
  Clients = {c1, c2}
  Weights = {}
  MaxTasks = 2
  None = None
PROPERTIES AcceptedTaskRuns ShutdownReturns HandleWaitReturns
CHECK_DEADLOCK FALSE
