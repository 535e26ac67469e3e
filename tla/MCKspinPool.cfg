\* The main thread alone and a group of three; counters of two bits.  The threads
\* spin and never block, so that one which waits for ever is no deadlock of the
\* program: RunReturns and PoolEnds say that it does not happen.
SPECIFICATION FairSpec
CONSTANTS
  Total = 4
  MainThreads = 1
  GroupSizes = {3}
  Wrap = 4
  MaxBarriers = 1
  MaxRuns = 1
  None = None
INVARIANTS TypeOK PartsSeparated TaskInScope RunWaitsForAll
PROPERTIES RunReturns PoolEnds
CHECK_DEADLOCK FALSE
