SPECIFICATION MCSpec
CONSTANTS
  w1 = w1  w2 = w2  w3 = w3
  NoThread = NoThread  BG = BG
  Writers = {w1, w2, w3}
  Iters = {"r1"}
  Requests <- AllRequests
  SmallBatch = 1  MaxGroup = 3  WriteBufferSize = 0
  L0Trigger = 1  L0Slowdown = 1  L0Stop = 2
  IOErrors = TRUE  MaxLogs = 4
SYMMETRY WriterSymmetry
INVARIANTS
  ExclusiveLogger
  StoreComplete
  Recoverable
  StatusTruthful
  SnapshotConsistency
  RealTimeOrder
