-------------------------- MODULE ConstraintSystem --------------------------
(***************************************************************************)
(* What the scheduler and the search know of a model: its variables, their *)
(* domains, and constraints that are what Constraint.hpp says of them,     *)
(* something with a scope and a propagate().  The assumptions are what the *)
(* code that calls propagate() relies on; module ConstraintCalls checks    *)
(* them of the real constraints, one at a time.                            *)
(***************************************************************************)
EXTENDS Integers, Sequences

CONSTANTS
  NumVariables,     \* Domains::size()
  MaxValue,         \* the largest value in a domain
  Constraint,       \* the constraints there are
  Scope(_),         \* Constraint::getVariables
  Propagate(_, _),  \* Constraint::propagate: the state at return, see Outcome
  Holds(_, _),      \* whether an assignment meets a constraint
  Systems,          \* the vectors of constraints a model may have
  InitialDomains    \* the domains a model may start from

Variable == 0 .. NumVariables - 1
Value == 0 .. MaxValue
Domain == {d \in [min : Value, max : Value] : d.min <= d.max}
Domains == [Variable -> Domain]
Assignment == [Variable -> Value]

Interval(d) == d.min .. d.max
InDomains(a, dom) == \A v \in Variable : a[v] \in Interval(dom[v])
Narrower(e, dom) ==
  \A v \in Variable : dom[v].min <= e[v].min /\ e[v].max <= dom[v].max

\* the assignments within dom that meet every constraint of a system
Solutions(system, dom) ==
  {a \in Assignment :
     InDomains(a, dom) /\ \A c \in DOMAIN system : Holds(system[c], a)}

\* propagate() has nothing to deduce from the domains dom.
AtFixedPoint(c, dom) == Propagate(c, dom).ok /\ Propagate(c, dom).dom = dom

\* dom, with the variables outside the scope of c forgotten
OnScope(c, dom) ==
  [v \in Variable |-> IF v \in Scope(c) THEN dom[v] ELSE [min |-> 0, max |-> 0]]

ASSUME SizeAssumption ==
  /\ NumVariables \in Nat
  /\ MaxValue \in Nat

ASSUME SystemAssumption ==
  /\ Systems \subseteq Seq(Constraint)
  /\ InitialDomains \subseteq Domains
  /\ \A c \in Constraint : Scope(c) \subseteq Variable /\ Scope(c) # {}

\* What propagate() returns, the domains it narrowed and the variables it
\* passed to set, setMin or setMax on the way, in order.
ASSUME OutcomeAssumption ==
  \A c \in Constraint, dom \in Domains :
    LET r == Propagate(c, dom)
    IN /\ r.ok \in BOOLEAN
       /\ r.dom \in Domains
       /\ r.touched \in Seq(Scope(c))
       /\ Narrower(r.dom, dom)
       /\ \A v \in Variable :
            r.dom[v] # dom[v] => \E i \in DOMAIN r.touched : r.touched[i] = v

\* "a second call to propagate() immediately after would make no further
\* changes" (Scheduler.cpp:57-60)
ASSUME IdempotenceAssumption ==
  \A c \in Constraint, dom \in Domains :
    Propagate(c, dom).ok => AtFixedPoint(c, Propagate(c, dom).dom)

\* propagate() depends on the variables of getVariables() only
ASSUME LocalityAssumption ==
  \A c \in Constraint, dom \in Domains :
    AtFixedPoint(c, dom) <=> AtFixedPoint(c, OnScope(c, dom))

\* propagate() discards no assignment that meets the constraint
ASSUME SoundnessAssumption ==
  \A c \in Constraint, dom \in Domains :
    \A a \in Assignment :
      InDomains(a, dom) /\ Holds(c, a) =>
        Propagate(c, dom).ok /\ InDomains(a, Propagate(c, dom).dom)

\* with one value for each variable, propagate() succeeds only if they meet c
ASSUME DecisionAssumption ==
  \A c \in Constraint, a \in Assignment :
    LET dom == [v \in Variable |-> [min |-> a[v], max |-> a[v]]]
    IN Propagate(c, dom).ok => Holds(c, a)

=============================================================================
