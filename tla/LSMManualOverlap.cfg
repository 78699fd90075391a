SPECIFICATION Spec
CONSTANTS
  MaxKey = 3
  NumLevels = 3
  MaxMemCompactLevel = 1
  L0Trigger = 4
  L0Stop = 4
  MaxBytes <- MaxBytes_Large
  MaxGrandparent = 1
  ExpandedLimit = 4
  MaxWrites = 5
  Scenarios <- Scenarios_Gap
INVARIANT LevelsDisjoint
CHECK_DEADLOCK FALSE
