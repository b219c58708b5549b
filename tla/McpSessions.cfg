SPECIFICATION FairSpec
CHECK_DEADLOCK FALSE
CONSTANTS
  Sids = {1, 2}
  Reqs = {1, 2}
  Proposals = {p1}
  MaxSessions = 1
  MaxPending = 1
  MaxRequests = 3
  NoSession = 0
INVARIANTS
  SessionInv
  DecisionAnnounced
PROPERTIES
  VictimsAreIdle
  EveryLeaseEnds
