SPECIFICATION Spec
CONSTANTS
  Workers = {1, 2}
  Positions = {0, 1, 2}
  Border = 1
  MaxDistance = 1
  MaxAge = 1
  MaxFrames = 3
  MaxTime = 1
CONSTANTS
  Configs <- MCConfigs
  Frames <- MCFrames
INVARIANTS TypeOK WorkerCooldown OnlyActiveListens OneLastEvent StableAssignment
CHECK_DEADLOCK FALSE
