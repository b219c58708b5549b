SPECIFICATION Spec
CONSTANTS
  Null = Null
  a = a
  b = b
  h1 = h1
  h2 = h2
  h3 = h3
  s1 = s1
  s2 = s2
  d1 = d1
  d2 = d2
  Proposals = {p1, p2, p3, p4}
  Concepts <- TwoPages
  Entries <- TwoPageEntries
  Claims <- None
  DecisionSlugs <- MCDecisionSlugs
  Hashes <- MCHashes
  Sources <- MCSources
  Predecessor <- MCPredecessor
  Drafts <- StructureDrafts
  FunctionalPredicates <- None
SYMMETRY Symmetry
CHECK_DEADLOCK FALSE
INVARIANTS
  OnlyApprovedIsReadable
  StagedRowsOwned
  DecisionsAnnouncedOnce
PROPERTIES
  EpochValidates
