CONSTANTS
  c1 = c1
  c2 = c2
  h1 = h1
  h2 = h2
  h3 = h3
  None = None
  NumGpus = 1
  Clients = {c1, c2}
  Handles = {h1, h2, h3}
  MaxSpawnFailures = 1
  MaxSurvivors = 1
SYMMETRY Symmetry
SPECIFICATION Spec
INVARIANTS
  TypeOK
  SingleFlight
  MonitorKeepsOne
  RestartSparesRenders
CHECK_DEADLOCK FALSE
