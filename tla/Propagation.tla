---------------------------- MODULE Propagation ----------------------------
(***************************************************************************)
(* What Scheduler::propagate promises Model::minimize, with the worklist   *)
(* left out: one step from the domains at the call to domains that are a   *)
(* common fixed point and keep every solution, or the answer that there is *)
(* no solution.                                                            *)
(***************************************************************************)
EXTENDS ConstraintSystem

CONSTANT MaxDepth     \* bound on the number of copies the client keeps

VARIABLES
  constraints,  \* the system solved
  domains,      \* the domains of its variables
  status,       \* of propagate(): not called yet, running, or what it returned
  saved         \* the client's copies of domains, oldest first

vars == <<constraints, domains, status, saved>>

Init ==
  /\ constraints \in Systems
  /\ domains \in InitialDomains
  /\ status = "new"
  /\ saved = <<>>

Start ==
  /\ status = "new"
  /\ status' = "propagating"
  /\ UNCHANGED <<constraints, domains, saved>>

ReturnTrue ==
  /\ status = "propagating"
  /\ status' = "succeeded"
  /\ domains' \in Domains
  /\ Narrower(domains', domains)
  /\ \A c \in DOMAIN constraints : AtFixedPoint(constraints[c], domains')
  /\ Solutions(constraints, domains) \subseteq Solutions(constraints, domains')
  /\ UNCHANGED <<constraints, saved>>

ReturnFalse ==
  /\ status = "propagating"
  /\ status' = "failed"
  /\ Solutions(constraints, domains) = {}
  /\ domains' \in Domains
  /\ Narrower(domains', domains)
  /\ UNCHANGED <<constraints, saved>>

Branch(v, value) ==
  /\ status = "succeeded"
  /\ Len(saved) < MaxDepth
  /\ value \in Interval(domains[v])
  /\ saved' = Append(saved, domains)
  /\ domains' = [domains EXCEPT ![v] = [min |-> value, max |-> value]]
  /\ status' = "propagating"
  /\ UNCHANGED constraints

Bound(v, value) ==
  /\ status = "succeeded"
  /\ value \in Interval(domains[v])
  /\ domains' = [domains EXCEPT ![v] = [min |-> domains[v].min, max |-> value]]
  /\ status' = "propagating"
  /\ UNCHANGED <<constraints, saved>>

Restore ==
  /\ status \in {"succeeded", "failed"}
  /\ saved # <<>>
  /\ domains' = saved[Len(saved)]
  /\ saved' = SubSeq(saved, 1, Len(saved) - 1)
  /\ status' = "succeeded"
  /\ UNCHANGED constraints

Next ==
  \/ Start \/ ReturnTrue \/ ReturnFalse \/ Restore
  \/ \E v \in Variable, value \in Value : Branch(v, value) \/ Bound(v, value)

Spec == Init /\ [][Next]_vars

=============================================================================
