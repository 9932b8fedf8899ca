SPECIFICATION Spec
CONSTANTS
  Workers = {1}
  Positions = {0, 1, 2}
  Border = 1
  MaxDistance = 1
  MaxAge = 1
  MaxFrames = 3
  MaxTime = 1
CONSTANTS
  Configs <- MCConfigs
  Frames <- MCFrames
CHECK_DEADLOCK FALSE
INVARIANT SeenWhenTriggered
