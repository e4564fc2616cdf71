\* Partial sums when all of a matrix has spilled to another x (violation)
SPECIFICATION SparseSpec
CONSTANTS
  Problems = {}
  Moving <- MCMoving
  SizeBits = 16
  TypeFactor = 2
  GrainZ = 2
  MetaInfoBits = 16
  WordBits = 2
  UnsignedBits = 8
INVARIANT PartialsAlwaysBack
CHECK_DEADLOCK FALSE
