SPECIFICATION BothSpec
CONSTANTS
  Convolutions <- MCConvolutions
  FieldSplits <- MCFieldSplits
  GrainSizes <- MCGrainSizes
  KernelSplits <- MCKernelSplits
  Levels = 1
  RangeConvolutions <- MCRangeConvolutions
INVARIANTS RangesRight CanonicalFormRight PassesAreTransposed PartsMakeTheWhole
CHECK_DEADLOCK FALSE
