CONSTANTS
  j1 = j1
  j2 = j2
  f1 = f1
  None = None
  Jobs = {j1, j2}
  Followers = {f1}
  Outcomes = {"succeeded"}
  RunnerEvents = {"completed"}
  MaxLoadedJobs = 1
  MaxEvents <- EventsBound
  MaxFaults = 1
SPECIFICATION Spec
INVARIANTS
  TypeOK
  ReportedIsDurable
  LogEndsOnce
  CancelIsKept
  ReadersMissNothing
PROPERTIES
  EveryJobEnds
  LifecycleWhileWritesSucceed
