SPECIFICATION Spec
CONSTANTS
  BlockSize = 3
  RestartInterval = 2
  FilterBase = 8
  ValueSize <- MCValueSize
  MaxByte = 5
  MaxTag = 9999
  BloomHash <- MCBloomHash
  Probes = 2
  MinBits = 8
  BitsPerKey = 2
  Scenarios <- MCScenarios
  SeekKeys <- MCSeekKeys
  LaterWrites <- MCLaterWrites
INVARIANTS TableGetExact
PROPERTIES IsCursor
