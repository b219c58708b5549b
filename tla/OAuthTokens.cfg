SPECIFICATION Spec
CHECK_DEADLOCK FALSE
CONSTANTS
  w1 = w1
  w2 = w2
  i1 = i1
  k1 = k1
  Workers = {w1, w2}
  MaxCodes = 1
  MaxTokens = 3
  MaxTime = 2
  MaxRequests = 5
  Principals = {i1, k1}
  Identities = {i1}
  KeysOf <- MCKeysOf
  CodeTtl = 1
  AccessTtl = 0
  RefreshTtl = 1
  Retention = 0
INVARIANTS
  TokenInv
  RevocationHolds
PROPERTIES
  DeadFamilyStaysDead
SYMMETRY Symmetry
