SPECIFICATION Spec
CONSTANTS
  w1 = w1
  w2 = w2
  v1 = v1
  Workers = {w1, w2}
  Viewers = {v1}
  Keep = 2
  QueueCap = 2
  MaxSessions = 2
  MaxPackets = 3
  MaxGen = 1
CONSTRAINT OneWatches
SYMMETRY WorkerSymmetry
INVARIANTS WindowShape LiveSegments ServedAsListed CodecsFit MissesOnlyWhenFull
CHECK_DEADLOCK FALSE
