\* The main thread makes one more group and goes on.
SPECIFICATION Spec
CONSTANTS
  Total = 2
  MainThreads = 1
  GroupSizes = {1}
  Wrap = 4
  MaxBarriers = 0
  MaxRuns = 1
  None = None
INVARIANT GroupFuncInScope
