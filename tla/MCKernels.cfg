SPECIFICATION Spec
CONSTANTS
  Threads = 3
  Lanes = 2
  MaxCalls = 3
  Calls <- MCCalls
  Keys <- MCKeys
CONSTRAINT OtherCallsFirst
INVARIANTS TypeOK RaceFree ResultRight EveryRowOnce OffsetsFit
CHECK_DEADLOCK FALSE
