SPECIFICATION Spec
CONSTANTS
  s1 = s1
  s2 = s2
  v1 = v1
  v2 = v2
  v3 = v3
  Shares = {s1}
  ViewerIds = {v1, v2}
  IdleLimit = 1
  SweepPeriod = 1
  Minutes = {0, 4}
  Limits = {1}
  DefaultMinutes = 6
  DefaultLimit = 1
SYMMETRY ViewerSymmetry
INVARIANTS MaxViewConnections
