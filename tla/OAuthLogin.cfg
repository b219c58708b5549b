SPECIFICATION Spec
CHECK_DEADLOCK FALSE
CONSTANTS
  Workers = {w1, w2}
  Identities = {i1, i2}
  Keys = {k1}
  Allowed = {i1}
  Signup = TRUE
  StateTtl = 1
  IdleTtl = 1
  AbsoluteTtl = 2
  Retention = 0
  MaxStates = 2
  MaxSessions = 2
  MaxRequests = 5
  MaxTime = 3
INVARIANTS
  LoginInv
PROPERTIES
  NothingRevived
