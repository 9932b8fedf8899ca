SPECIFICATION PageCallSpec
CONSTANTS
  r1 = r1
  r2 = r2
  c1 = c1
  c2 = c2
  p1 = p1
  p2 = p2
  Keys = {"a:0"}
  Recordings = {r1, r2}
  Callers = {c1, c2}
  Pages = {p1}
  KeyOf <- SameChannel
  StopTimeout = 1
  MaxTime = 1
INVARIANTS PageTypeOK TableIsLive WritesOwnFile StrayTrailerIsShort RestingPageIsRight
PROPERTIES StopAnswered StopObeyed
