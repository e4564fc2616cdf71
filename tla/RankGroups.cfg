\* Twenty-one classes and seven beams on thirty-eight tiles (violation).
SPECIFICATION Spec
CONSTANTS
  Workers = 6
  SingleStageClassLimit = 20
  NumClasses = 21
  MaxT = 1
  Rows <- MCRows
  Plans <- AutoPlans
  Widths = {7}
  Tiles = {38}
  Options <- AutoOnly
  Methods = {"RANK"}
INVARIANT ReducesWhatIsRanked
CHECK_DEADLOCK FALSE
