\* Branch and bound on five systems, from 27 domains, for four objectives.
SPECIFICATION MinimizeSpec
CONSTANTS
  NumVariables = 3
  MaxValue = 3
  Constraint <- MCConstraint
  Scope <- MCScope
  Propagate <- MCPropagate
  Holds <- MCHolds
  Systems <- MCSystems
  InitialDomains <- MCInitialDomains
  MaxDepth = 3
  Bits = 3
  ObjectiveVectors <- MCObjectiveVectors
  CallOperands <- MCCallOperands
INVARIANTS AssertsHold NothingMissed SearchInv
PROPERTIES ImplementsOptimizer Terminates
