---------------------------- MODULE MCScheduler ----------------------------
(* Constants of the runs of Scheduler: small systems of popsolver's own     *)
(* constraints over three variables.                                        *)
EXTENDS Scheduler

MCApply(f, values) ==
  CASE f = "gap" -> {IF values[1] > values[2] THEN values[1] - values[2]
                     ELSE values[2] - values[1]}

P == INSTANCE Constraints WITH Bits <- 3, Apply <- MCApply

MCScope(c) == P!GetVariables(c)
MCHolds(c, a) == P!Meaning(c, a)

C(kind, variables) == [kind |-> kind, vars |-> variables]
Gap == [kind |-> "Call", vars |-> <<2, 0, 1>>, f |-> "gap", limit |-> 7]

\* A product under an order, two sums that narrow each other, a call whose
\* result feeds back into its operands, and a cycle of orders nothing meets.
MCSystems ==
  { <<C("Product", <<2, 0, 1>>), C("Less", <<0, 1>>), C("Max", <<2, 0, 1>>)>>,
    <<C("Sum", <<2, 0, 1>>), C("LessOrEqual", <<1, 0>>), C("Min", <<1, 0, 2>>)>>,
    <<Gap, C("Less", <<2, 0>>), C("LessOrEqual", <<1, 2>>)>>,
    <<C("Less", <<0, 1>>), C("Less", <<1, 2>>), C("Less", <<2, 0>>)>> }

MCConstraint == UNION {{s[i] : i \in DOMAIN s} : s \in Systems}

\* Tabulated once (@@ makes TLC do so): a temporal property evaluates each call
\* many times over.
Outcomes ==
  [call \in MCConstraint \X Domains |-> P!Dispatch(call[1], call[2])] @@ <<>>
MCPropagate(c, dom) == Outcomes[<<c, dom>>]

MCInitialDomains ==
  LET full == [min |-> 0, max |-> 3]
      low == [min |-> 0, max |-> 1]
      high == [min |-> 2, max |-> 3]
  IN [0 .. 2 -> {full, low, high}]
=============================================================================
