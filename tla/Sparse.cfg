\* Six matrices, split in twelve ways and spilled in up to seven rounds; and buckets
\* on up to 3 x 2 x 2 tiles, spilled by three sizes or by force, in each pass
SPECIFICATION SparseSpec
CONSTANTS
  Problems <- MCProblems
  Moving <- MCMoving
  SizeBits = 16
  TypeFactor = 2
  GrainZ = 2
  MetaInfoBits = 16
  WordBits = 2
  UnsignedBits = 8
INVARIANTS BucketsHoldAll StreamsRight EachMeetsOnce PartialsBack
PROPERTIES NeverGoesBack ComesToAnEnd
