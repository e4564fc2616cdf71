\* A selection sort of fewer sequences than beams (violation).
SPECIFICATION Spec
CONSTANTS
  Workers = 1
  SingleStageClassLimit = 20
  NumClasses = 2
  MaxT = 3
  Rows <- MCRows
  Plans <- AutoPlans
  Widths = {3}
  Tiles = {1}
  Options <- AutoOnly
  Methods = {"SIMPLE_SORT"}
INVARIANT MergedAreNulled
CHECK_DEADLOCK FALSE
