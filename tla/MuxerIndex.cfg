SPECIFICATION Spec
CONSTANTS
  q1 = q1
  Requests = {q1}
  Retention = 2
  FragmentPackets = 2
  SegmentPackets = 3
  MaxMSN = 4
  MaxPart = 2
INVARIANTS HeaderFitsBody IndexIsCurrent AnswerIsInTime WakeIsEnough
PROPERTIES PlaylistGrows
