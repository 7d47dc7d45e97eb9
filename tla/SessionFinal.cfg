CONSTANTS
  c1 = c1
  s1 = s1
  s2 = s2
  None = None
  Cancellers = {c1}
  Streams = {s1}
  NumSteps = 1
SPECIFICATION Spec
PROPERTY FinalStatusStays
CHECK_DEADLOCK FALSE
