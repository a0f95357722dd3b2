SPECIFICATION Spec
CONSTANTS
  Parent <- MCParent
  Work <- MCWork
  MaxOrphans = 2
  MinStakeNodes = 1
  MinMemoryNodes = 2
  CacheSize = 2
  StakeEnabledHeight = 2
  StakeHeight = 3
  Scenarios <- MCScenarios
INVARIANTS  ReorgRestores StateIsSound
PROPERTY CallsReturn
CHECK_DEADLOCK FALSE
