-------------------------- MODULE ConstraintCalls --------------------------
(***************************************************************************)
(* One constraint called as Scheduler::propagate calls it: a first         *)
(* propagate() from the domains the scheduler holds, then a second one     *)
(* "immediately after" (Scheduler.cpp:57-60).  The properties are what     *)
(* Scheduler and Model::minimize rely on: module Scheduler assumes them of *)
(* its Propagate, and this module checks them of the real constraints.     *)
(***************************************************************************)
EXTENDS Constraints

CONSTANTS
  Calls,        \* the constraints to call
  Inputs        \* the domains a variable of a constraint may have

\* What the methods of Model make constraints of.  A domain stops short of the
\* whole of DataType, whose size would wrap to 0: the widest that Model gives a
\* variable of its own accord is 0 .. DataType::max() - 1.  A product has two
\* operands, an extremum at least one, a sum no more than its 128 bits hold, and a
\* function returns one value or none.  An operand may be given twice to a product
\* only.
CallsFit ==
  /\ Inputs \subseteq {d \in Domain : d.min <= d.max /\ Size(d) > 0}
  /\ \A c \in Calls :
       /\ c.vars \in Seq(Variable)
       /\ c.kind = "Product" \/ IsInjective(c.vars)
       /\ \/ c.kind = "Product" /\ Len(c.vars) = 3
          \/ c.kind = "Sum" /\ Len(c.vars) \in 1 .. 2^Bits
          \/ c.kind \in {"Max", "Min"} /\ Len(c.vars) >= 2
          \/ c.kind \in {"Less", "LessOrEqual"} /\ Len(c.vars) = 2
          \/ /\ c.kind = "Call" /\ Len(c.vars) >= 1
             /\ c.limit \in Word
             /\ \A values \in [1 .. Len(c.vars) - 1 -> Word] :
                  Apply(c.f, values) = {} \/ \E n \in Word : Apply(c.f, values) = {n}

VARIABLES
  constraint,   \* the constraint called
  entry,        \* Scheduler::domains before the first call
  outcome,      \* the state the last call left
  calls         \* the number of calls made

vars == <<constraint, entry, outcome, calls>>

\* Two calls show what a second one does; a failed first one is not repeated.
MaxCalls == 2

Free == [min |-> 0, max |-> 0]      \* variables the constraint does not use

Init ==
  /\ constraint \in Calls
  /\ \E d \in [GetVariables(constraint) -> Inputs] :
       entry = [v \in Variable |-> IF v \in GetVariables(constraint) THEN d[v] ELSE Free]
  /\ outcome = Call(entry)
  /\ calls = 0

PropagateAgain ==
  /\ calls < MaxCalls
  /\ outcome.ok
  /\ outcome' = Dispatch(constraint, outcome.dom)
  /\ calls' = calls + 1
  /\ UNCHANGED <<constraint, entry>>

Next == PropagateAgain
Spec == Init /\ [][Next]_vars

-----------------------------------------------------------------------------
\* Every state has its type; in particular no domain is ever inverted, the
\* condition under which Domain::size and Domain::val mean what they say.
TypeOK ==
  /\ constraint \in Calls
  /\ entry \in Domains
  /\ outcome \in PropState
  /\ \A v \in Variable : outcome.dom[v].min <= outcome.dom[v].max
  /\ calls \in 0 .. MaxCalls

\* Assignments to the variables of the constraint, within the domains.
Candidates(dom) ==
  {a \in [GetVariables(constraint) -> UNION {Interval(dom[v]) : v \in GetVariables(constraint)}] :
     \A v \in GetVariables(constraint) : a[v] \in Interval(dom[v])}

\* propagate() never discards an assignment that meets the constraint, neither
\* by narrowing a domain past it nor by returning false: Model::minimize
\* enumerates only what propagation leaves, so a value lost here is an optimum
\* missed there.
NoSolutionLost ==
  calls > 0 =>
    \A a \in Candidates(entry) :
      Meaning(constraint, a) =>
        /\ outcome.ok
        /\ \A v \in GetVariables(constraint) : a[v] \in Interval(outcome.dom[v])

\* Once every variable of the constraint has one value, propagate() returns
\* true exactly when the constraint holds.  Model::minimize takes a leaf of its
\* search for a solution on this ground alone.
DecidesAssignment ==
  (calls > 0 /\ \A v \in GetVariables(constraint) : Size(entry[v]) = 1) =>
    (outcome.ok <=> Meaning(constraint, [v \in GetVariables(constraint) |-> entry[v].min]))

\* No assert of Constraint.cpp, of Scheduler::set, setMin or setMax, or of
\* Domain::val fails during a call.
AssertsHold == ~ outcome.fault

\* "The propagate() method is responsible for computing the fixed point such
\* that a second call to propagate() immediately after would make no further
\* changes" (Scheduler.cpp:57-60).  The scheduler does not requeue a constraint
\* for the changes it makes itself, so what a second call would still deduce,
\* or reject, is never found.
FixedPoint ==
  [][calls = 1 => outcome'.ok /\ outcome'.dom = outcome.dom
                  /\ outcome'.touched = <<>>]_vars

\* A call narrows domains, keeps them intervals, loses no solution and fails no
\* assert on the way.
NarrowsSoundly == TypeOK /\ NoSolutionLost /\ AssertsHold
=============================================================================
