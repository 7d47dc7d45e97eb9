CONSTANTS
  c1 = c1
  s1 = s1
  s2 = s2
  None = None
  Cancellers = {c1}
  Streams = {s1, s2}
  NumSteps = 2
SPECIFICATION Spec
INVARIANTS
  TypeOK
  NoWorkAfterEnd
PROPERTIES
  SnapshotTellsEnd
  StreamsEnd
CHECK_DEADLOCK FALSE
