CONSTANTS
  Fd = {1, 2, 3}
  InitDelay = 2
  MaxDelay = 5
  MaxTimers = 3
  MaxCalls = 4
  Careful = TRUE
SPECIFICATION FairSpec
INVARIANTS NothingDangles NoDescriptorLeak 
PROPERTIES KeepsTrying ConnectionIsFreed
CHECK_DEADLOCK FALSE
