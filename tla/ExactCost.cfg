\* Sizes by the workers that have a share (violation)
SPECIFICATION SparseSpec
CONSTANTS
  Problems <- MCActualCosts
  Moving = {}
  SizeBits = 16
  TypeFactor = 2
  GrainZ = 2
  MetaInfoBits = 16
  WordBits = 2
  UnsignedBits = 8
INVARIANT ExactCost
CHECK_DEADLOCK FALSE
