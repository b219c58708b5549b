SPECIFICATION Spec
CONSTANTS
  Null = Null
  a = a
  b = b
  h1 = h1
  h2 = h2
  h3 = h3
  s1 = s1
  s2 = s2
  d1 = d1
  d2 = d2
  Proposals = {p1, p2, p3}
  Concepts <- TwoPages
  Entries <- DoubleEntries
  Claims <- MCClaims
  DecisionSlugs <- MCDecisionSlugs
  Hashes <- MCHashes
  Sources <- MCSources
  Predecessor <- MCPredecessor
  Drafts <- PageDrafts
  FunctionalPredicates <- MCFunctional
SYMMETRY Symmetry
CHECK_DEADLOCK FALSE
INVARIANTS
  OneCurrentRevision
  LinearHistory
  ReadableByApproval
  CollisionsAreDisputed
PROPERTIES
  TerminalIsFinal
  ImplementsPublishedPages
  ApprovalKeepsItsWord
