\* Every constraint, with distinct operands (and x * x), over 3-bit domains, and two
\* calls in a row of every method of Model.
SPECIFICATION BothSpec
CONSTANTS
  Variable <- Vars
  Bits = 3
  Apply <- BothApply
  Calls <- Distinct
  Inputs <- Intervals
  InputDomains <- MCInputDomains
  OperandLists <- MCOperandLists
  Function = "sum if different"
  MaxMethods = 2
  MinDividend = 1
  Small = 2
INVARIANTS NarrowsSoundly DecidesAssignment BuildsWhatWasAsked
PROPERTY FixedPoint
\* The caller stops after its last call.
CHECK_DEADLOCK FALSE
