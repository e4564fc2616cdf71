\* Any client of the scheduler, on four systems of three constraints.
SPECIFICATION FairSpec
CONSTANTS
  NumVariables = 3
  MaxValue = 3
  Constraint <- MCConstraint
  Scope <- MCScope
  Propagate <- MCPropagate
  Holds <- MCHolds
  Systems <- MCSystems
  InitialDomains <- MCInitialDomains
  MaxDepth = 2
INVARIANT IInv
PROPERTIES ImplementsContract PropagateReturns
\* A client with nothing to put back stops when propagate() fails.
CHECK_DEADLOCK FALSE
