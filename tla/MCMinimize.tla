----------------------------- MODULE MCMinimize -----------------------------
(* Constants of the runs of Minimize. *)
EXTENDS Minimize

MCApply(f, values) ==
  CASE f = "gap" -> {IF values[1] > values[2] THEN values[1] - values[2]
                     ELSE values[2] - values[1]}

P == INSTANCE Constraints WITH Apply <- MCApply

MCScope(c) == P!GetVariables(c)
MCHolds(c, a) == P!Meaning(c, a)
MCCallOperands(c) == IF c.kind = "Call" THEN ToSet(Tail(c.vars)) ELSE {}

C(kind, variables) == [kind |-> kind, vars |-> variables]
Gap == [kind |-> "Call", vars |-> <<2, 0, 1>>, f |-> "gap", limit |-> 7]

\* Objectives that fall as an operand grows (2 = 0 - 1), that grow with it, that
\* only a call gives, and models with no solution.
MCSystems ==
  { <<C("Product", <<2, 0, 1>>), C("Less", <<0, 1>>)>>,
    <<C("Sum", <<0, 2, 1>>)>>,
    <<Gap, C("LessOrEqual", <<2, 0>>)>>,
    <<Gap, C("Less", <<2, 0>>), C("LessOrEqual", <<1, 2>>)>>,
    <<C("Max", <<2, 0, 1>>), C("Less", <<0, 1>>), C("Less", <<1, 2>>)>> }

MCConstraint == UNION {{s[i] : i \in DOMAIN s} : s \in Systems}

\* Tabulated once (@@ makes TLC do so): a temporal property evaluates each call
\* many times over.
Outcomes ==
  [call \in MCConstraint \X Domains |-> P!Dispatch(call[1], call[2])] @@ <<>>
MCPropagate(c, dom) == Outcomes[<<c, dom>>]

MCInitialDomains ==
  LET full == [min |-> 0, max |-> 3]
      low == [min |-> 0, max |-> 1]
      high == [min |-> 1, max |-> 3]
  IN [0 .. 2 -> {full, low, high}]

MCObjectiveVectors == {<<0>>, <<2>>, <<0, 2>>, <<1, 2>>}
=============================================================================
