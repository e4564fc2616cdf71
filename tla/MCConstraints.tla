--------------------------- MODULE MCConstraints ---------------------------
(***************************************************************************)
(* The constraints of popsolver, from both ends: calls of single ones      *)
(* (ConstraintCalls), and models that are built from them (ModelBuilder).  *)
(* A behaviour is of one or of the other, as they have no state in common. *)
(***************************************************************************)
EXTENDS ConstraintCalls

CONSTANTS InputDomains, OperandLists, Function, MaxMethods, MinDividend, Small

ASSUME BuilderAssumption ==
  /\ InputDomains \subseteq Domain
  /\ OperandLists \subseteq Seq(Nat \ {0})
  /\ MaxMethods \in Nat /\ MinDividend \in Nat /\ Small \in Nat

VARIABLES model, handles, asked, checked

builderVars == <<model, handles, asked>>

Builder == INSTANCE ModelBuilder WITH Variable <- 1 .. 16, MaxCalls <- MaxMethods

-----------------------------------------------------------------------------
(* Constants *)

Vars == {"x", "y", "z"}

C(kind, variables) == [kind |-> kind, vars |-> variables]
F(name, variables, limit) ==
  [kind |-> "Call", vars |-> variables, f |-> name, limit |-> limit]

\* The functions given to Model::call; {} is boost::none.
MCApply(f, values) ==
  CASE f = "half" -> IF values[1] % 2 = 0 THEN {values[1] \div 2} ELSE {}
    [] f = "gap"  -> {IF values[1] > values[2] THEN values[1] - values[2]
                      ELSE values[2] - values[1]}

Distinct ==
  { C("Product", <<"z", "x", "y">>), C("Product", <<"z", "x", "x">>),
    C("Sum", <<"z", "x", "y">>), C("Sum", <<"z", "x">>),
    C("Max", <<"z", "x", "y">>), C("Min", <<"z", "x", "y">>),
    C("Less", <<"x", "y">>), C("LessOrEqual", <<"x", "y">>),
    F("half", <<"z", "x">>, 7), F("gap", <<"z", "x", "y">>, 3) }

ASSUME CallsAssumption == Calls = Distinct => CallsFit

DoubledSum == {C("Sum", <<"z", "x", "x">>)}

\* With Bits = 3 a variable has at most the default domain 0 .. 2^3 - 2.
Bounds == {0, 1, 2, 3, 6}
Intervals == {d \in [min : Bounds, max : Bounds] : d.min <= d.max}

BothApply(f, values) ==
  IF f = "sum if different"
    THEN IF values[1] = values[2] THEN {} ELSE {values[1] + values[2]}
    ELSE MCApply(f, values)

D(min, max) == [min |-> min, max |-> max]
MCInputDomains == {D(0, 2), D(1, 3), D(2, 2)}

\* Operands among the caller's two variables and the first result.
MCOperandLists == {<<>>, <<1>>, <<1, 2>>, <<3, 1>>, <<2, 3>>, <<1, 2, 3>>}

-----------------------------------------------------------------------------
AnyConstraint == CHOOSE c \in Calls : TRUE

BothInit ==
  \/ /\ checked = "calls"
     /\ Init
     /\ model = Builder!Empty /\ handles = <<>> /\ asked = <<>>
  \/ /\ checked = "builder"
     /\ Builder!Init
     /\ constraint = AnyConstraint
     /\ entry = [v \in Variable |-> Free] /\ outcome = Call(entry) /\ calls = 0

CallsNext == checked = "calls" /\ Next /\ UNCHANGED <<builderVars, checked>>
BuilderNext == checked = "builder" /\ Builder!Next /\ UNCHANGED <<vars, checked>>

BothSpec == BothInit /\ [][CallsNext \/ BuilderNext]_<<vars, builderVars, checked>>

-----------------------------------------------------------------------------
\* The solutions of what is built are what was asked for (ModelBuilder).
BuildsWhatWasAsked == Builder!BuildsWhatWasAsked
=============================================================================
