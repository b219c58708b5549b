SPECIFICATION Spec
CONSTANTS
  c1 = c1
  c2 = c2
  s1 = s1
  w1 = w1
  w2 = w2
  p1 = p1
  p2 = p2
  Null = Null
  MaxJobs = 2
  Contents = {c1, c2}
  Streams = {s1}
  Inputs <- PushInputs
  Processes = {p1, p2}
  Workers = {w1, w2}
  ProcessOf <- TwoProcesses
  Clients = {r1}
  MaxQueued = 2
  LlmConfigured = TRUE
  IndexWindow = FALSE
  MaxCrashes = 0
  MaxQuota = 0
CHECK_DEADLOCK FALSE
SYMMETRY Symmetry
INVARIANTS
  RetiredHasReplacement
