SPECIFICATION Spec
CONSTANTS
  Threads = {p1, p2, t1}
  PyThreads = {p1, p2}
  Requests = {3, 4}
  Blocks = {b1, b2}
  Quota <- MCQuota
  NumShards = 2
  Header = 1
  HugePage = 2
  HbmMin = 3
  HbmNode = FALSE
  OsMayFail = FALSE
  None = None
SYMMETRY Symmetry
CHECK_DEADLOCK FALSE
INVARIANT NoGilCycle
