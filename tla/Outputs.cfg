SPECIFICATION Spec
CHECK_DEADLOCK FALSE
CONSTANTS
  MaxOutputs = 3
  Kinds = {"answer", "health"}
  Promoters = {w1, w2}
  PageLimit = 1
  Retention = 1
  MaxJobs = 2
  MaxTime = 2
SYMMETRY Symmetry
INVARIANTS
  PromotionInv
  WalkIsComplete
