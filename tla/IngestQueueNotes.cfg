SPECIFICATION Spec
CONSTANTS
  c1 = c1
  c2 = c2
  s1 = s1
  w1 = w1
  w2 = w2
  p1 = p1
  p2 = p2
  Null = Null
  MaxJobs = 2
  Contents = {c1}
  Streams = {s1}
  Inputs <- NoteInputs
  Processes = {p1, p2}
  Workers = {w1}
  ProcessOf <- OneProcess
  Clients = {r1}
  MaxQueued = 1
  LlmConfigured = TRUE
  IndexWindow = TRUE
  MaxCrashes = 1
  MaxQuota = 1
CHECK_DEADLOCK FALSE
INVARIANTS
  QueueInv
PROPERTIES
  EndedIsFinal
