SPECIFICATION MCSpec
CONSTANTS
  BufferRecords = 2
  Scenarios <- Scenarios_ReuseReboot
INVARIANT NothingLost
CHECK_DEADLOCK FALSE
