CONSTANTS
  r1 = r1
  r2 = r2
  r3 = r3
  s1 = s1
  s2 = s2
  c1 = c1
  c2 = c2
  Reserved = Reserved
  None = None
  Requests = {r1, r2, r3}
  Sessions = {s1, s2}
  SessionOf <- MCSessionOf
  Cancellers = {c1, c2}
  MaxConcurrent = 1
SPECIFICATION Spec
INVARIANT
  CleanupSurvivesCancel
CHECK_DEADLOCK FALSE
