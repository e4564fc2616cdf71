----------------------------- MODULE Optimizer -----------------------------
(***************************************************************************)
(* What Model::minimize promises its caller: "Find a solution that         *)
(* minimizes the value of the specified variables.  Lexicographical        *)
(* comparison is used to compare the values of the variables"              *)
(* (include/popsolver/Model.hpp:337-340).  The search keeps one incumbent, *)
(* replaces it only by a better one, and returns when there is none.       *)
(***************************************************************************)
EXTENDS Integers, Sequences

VARIABLES
  feasible,     \* the solutions of the model
  objectives,   \* the variables to minimize, most important first
  best,         \* the incumbent: empty, or the set of that one solution
  returned      \* whether minimize has returned, with best as its result

vars == <<feasible, objectives, best, returned>>

\* the cost of a is below the cost of b
Better(a, b) ==
  \E i \in DOMAIN objectives :
    /\ a[objectives[i]] < b[objectives[i]]
    /\ \A j \in 1 .. i - 1 : a[objectives[j]] = b[objectives[j]]

Init == best = {} /\ ~ returned

Improve ==
  /\ ~ returned
  /\ \E a \in feasible :
       /\ \A b \in best : Better(a, b)
       /\ best' = {a}
  /\ UNCHANGED <<feasible, objectives, returned>>

Return ==
  /\ ~ returned
  /\ \A a \in feasible : best # {} /\ \A b \in best : ~ Better(a, b)
  /\ returned'
  /\ UNCHANGED <<feasible, objectives, best>>

Next == Improve \/ Return
Spec == Init /\ [][Next]_vars

=============================================================================
