CONSTANTS
  a = a
  b = b
  r1 = r1
  r2 = r2
  p1 = p1
  p2 = p2
  d1 = d1
  d2 = d2
  None = None
  Items = {a, b}
  Required = {a}
  DependsOn <- MCDependsOn
  Results = {r1, r2}
  Evidence = {"e"}
  Plans = {p1, p2}
  Digests = {d1, d2}
  MaxRevision = 2
  MaxAttempts = 2
  MaxCrashes = 2
SPECIFICATION Spec
PROPERTY FailLeavesRetryable
