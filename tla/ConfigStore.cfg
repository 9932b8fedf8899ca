SPECIFICATION Spec
CONSTANTS
  c1 = c1
  c2 = c2
  k1 = k1
  p1 = p1
  p2 = p2
  k2 = k2
  Callers = {c1, c2}
  Appenders = {a1}
  Streams = {s1}
  Secrets = {k1, k2}
  GoodPaths = {p1, p2}
  BadPaths = {p3}
  Blank = Blank
  Unsure = Unsure
SYMMETRY ConfigSymmetry
INVARIANTS TypeOK PromisesHold StartsAgain OneOpenDatabase
CHECK_DEADLOCK FALSE
