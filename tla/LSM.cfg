SPECIFICATION FairSpec
CONSTANTS
  MaxKey = 2
  NumLevels = 4
  MaxMemCompactLevel = 1
  L0Trigger = 2
  L0Stop = 3
  MaxBytes <- MaxBytes_Small
  MaxGrandparent = 1
  ExpandedLimit = 4
  MaxWrites = 4
  Scenarios <- Scenarios_All
INVARIANTS LevelsDisjoint NewerAbove GetMatchesIterator InputsInVersion
PROPERTIES KVSpec CompactionSettles ManualEnds
CHECK_DEADLOCK FALSE
