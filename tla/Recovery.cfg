SPECIFICATION MCSpec
CONSTANTS
  BufferRecords = 2
  Scenarios <- Scenarios_All
INVARIANTS FilesHeld NothingLost SequencesFresh NothingDestroyed OpenSucceeds
PROPERTY LeftoversRemoved
CHECK_DEADLOCK FALSE
