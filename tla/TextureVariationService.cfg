CONSTANTS
  c1 = c1
  c2 = c2
  j1 = j1
  j2 = j2
  u1 = u1
  None = None
  Jobs = {j1, j2}
  Uploads = {u1}
  Callers = {c1, c2}
  MaxWorkers = 1
  MaxQueueSize = 0
SPECIFICATION Spec
INVARIANTS
  TypeOK
  InputsKept
  NothingOrphaned
PROPERTIES
  ResultStays
  EveryJobEnds
  LifecycleSpec
CHECK_DEADLOCK FALSE
