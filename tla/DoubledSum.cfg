\* A sum with a repeated operand (violation).
SPECIFICATION BothSpec
CONSTANTS
  Variable <- Vars
  Bits = 3
  Apply <- BothApply
  Calls <- DoubledSum
  Inputs <- Intervals
  InputDomains = {}
  OperandLists = {}
  Function = "none"
  MaxMethods = 0
  MinDividend = 1
  Small = 2
INVARIANT NoSolutionLost
CHECK_DEADLOCK FALSE
