\* A circular buffer of three entries; sequences of up to five steps; rings of up to
\* eight ranks, and sixteen; three classes and three beams for three steps of time;
\* the other operations on what MCOperations gives them.
SPECIFICATION AnySpec
CONSTANTS
  Size = 3
  Tensors <- MCTensors
  Bits = 3
  MaxSteps = 5
  UnsignedBits = 4
  RingCalls <- MCRingCalls
  RankCalls <- MCRankCalls
  Thresholds <- MCThresholds
  WordBits = 16
  SizeBits = 16
  Workers = 1
  SingleStageClassLimit = 20
  NumClasses = 3
  MaxT = 3
  Rows <- MCRows
  Plans <- MCPlans
  Widths = {1, 2, 3}
  Tiles = {1, 4}
  Options <- MCOptions
  Methods = {"RANK", "SIMPLE_SORT"}
INVARIANTS SliceIsOfAge RecurrenceRight KBestInOrder WorkersDoTheSweep PartsRight RingInOrder RanksInOrder LabelsAreTheBest
PROPERTIES ImplementsHistory ComesToBeSorted RingTerminates ImplementsPrefixSearch
\* Programs but that of the circular buffer end.
CHECK_DEADLOCK FALSE
