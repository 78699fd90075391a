SPECIFICATION FairSpec
CONSTANTS
  BlockSize = 7
  HeaderSize = 3
  Sizes = {0, 1, 6}
  Scenarios <- Scenarios_All
INVARIANTS NothingForged DamageIsConfined TornTailSilent
PROPERTY ReadEnds
