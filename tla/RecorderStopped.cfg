SPECIFICATION SlowCodecs
CONSTANTS
  r1 = r1
  r2 = r2
  r3 = r3
  c1 = c1
  c2 = c2
  Keys = {"a:0"}
  Recordings = {r1}
  Callers = {c1}
  StopTimeout = 3
  MaxTime = 2
INVARIANTS RecordingStopped
