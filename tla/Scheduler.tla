----------------------------- MODULE Scheduler -----------------------------
(***************************************************************************)
(* The scheduler of popsolver (lib/popsolver/Scheduler.hpp, Scheduler.cpp):*)
(* the domains of the variables, the worklist of constraints to call, and  *)
(* the propagate() loop that calls them until none is left.                *)
(*                                                                         *)
(* The client is Model::minimize.  Here it is any client that follows the  *)
(* same protocol: it copies the domains before it sets a variable, calls   *)
(* propagate(), and later puts back the copy it made last.  A failed       *)
(* propagate() leaves the worklist as it is and the domains narrowed in    *)
(* part; the client goes on with both.                                     *)
(***************************************************************************)
EXTENDS ConstraintSystem, SequencesExt

CONSTANT MaxDepth     \* bound on the number of copies the client keeps

ASSUME MaxDepthAssumption == MaxDepth \in Nat

-----------------------------------------------------------------------------
VARIABLES
  constraints,  \* Scheduler::constraints
  domains,      \* Scheduler::domains
  worklist,     \* Scheduler::worklist
  queued,       \* the constraint numbers whose Scheduler::queued flag is set
  status,       \* of propagate(): not called yet, running, or what it returned
  saved,        \* the client's copies of domains, oldest first
  entry         \* the domains when propagate() was called

vars == <<constraints, domains, worklist, queued, status, saved, entry>>

CId == DOMAIN constraints

\* Scheduler::variableConstraints
Watchers(v) == {c \in CId : v \in Scope(constraints[c])}

\* Mutant: only the constraints of the first variable touched are queued.
WokenByFirst(touched) ==
  {c \in CId \ queued : touched # <<>> /\ c \in Watchers(touched[1])}

\* The constraints queueConstraints pushes when it is called for the variables
\* touched, one after the other: none that is queued already.
Woken(touched) ==
  {c \in CId \ queued : \E i \in DOMAIN touched : c \in Watchers(touched[i])}

\* c is pushed before d: for an earlier variable, or a lower number for the same
PushedBefore(touched, c, d) ==
  \E i \in DOMAIN touched :
    /\ c \in Watchers(touched[i])
    /\ \A j \in 1 .. i : d \in Watchers(touched[j]) => j = i /\ c < d

\* the sequence pushed, the only member of the set
PushOrders(touched) ==
  LET new == Woken(touched)
  IN {s \in [1 .. Cardinality(new) -> new] :
        /\ ToSet(s) = new
        /\ \A i, j \in DOMAIN s : i < j => PushedBefore(touched, s[i], s[j])}

-----------------------------------------------------------------------------
Init ==
  /\ constraints \in Systems
  /\ domains \in InitialDomains
  /\ worklist = <<>>
  /\ queued = {}
  /\ status = "new"
  /\ saved = <<>>
  /\ entry = domains

\* set, setMin or setMax by the client, followed by propagate()
ChangeAndPropagate(touched, dom) ==
  /\ \E s \in PushOrders(touched) : worklist' = worklist \o s
  /\ queued' = queued \cup Woken(touched)
  /\ domains' = dom
  /\ entry' = dom
  /\ status' = "propagating"

\* initialPropagate
InitialPropagate ==
  /\ status = "new"
  /\ ChangeAndPropagate([i \in 1 .. NumVariables |-> i - 1], domains)
  /\ UNCHANGED <<constraints, saved>>

\* Mutant: the constraint is called but not popped.
EvaluateFront ==
  /\ status = "propagating"
  /\ worklist # <<>>
  /\ LET outcome == Propagate(constraints[Head(worklist)], domains)
     IN /\ \E s \in PushOrders(outcome.touched) : worklist' = worklist \o s
        /\ queued' = queued \cup Woken(outcome.touched)
        /\ domains' = outcome.dom
        /\ status' = IF outcome.ok THEN "propagating" ELSE "failed"
  /\ UNCHANGED <<constraints, saved, entry>>

\* One iteration of the loop of propagate().
EvaluateConstraint ==
  /\ status = "propagating"
  /\ worklist # <<>>
  /\ LET cid == Head(worklist)
         outcome == Propagate(constraints[cid], domains)
     IN /\ \E s \in PushOrders(outcome.touched) : worklist' = Tail(worklist) \o s
        /\ queued' = (queued \cup Woken(outcome.touched)) \ {cid}
        /\ domains' = outcome.dom
        /\ status' = IF outcome.ok THEN "propagating" ELSE "failed"
  /\ UNCHANGED <<constraints, saved, entry>>

PropagateDone ==
  /\ status = "propagating"
  /\ worklist = <<>>
  /\ status' = "succeeded"
  /\ UNCHANGED <<constraints, domains, worklist, queued, saved, entry>>

\* The client copies the domains, sets v and propagates.
Branch(v, value) ==
  /\ status = "succeeded"
  /\ Len(saved) < MaxDepth
  /\ value \in Interval(domains[v])
  /\ saved' = Append(saved, domains)
  /\ ChangeAndPropagate(<<v>>, [domains EXCEPT ![v] = [min |-> value, max |-> value]])
  /\ UNCHANGED constraints

\* Mutant: the oldest copy is put back.
RestoreOldest ==
  /\ status \in {"succeeded", "failed"}
  /\ saved # <<>>
  /\ domains' = Head(saved)
  /\ entry' = Head(saved)
  /\ saved' = Front(saved)
  /\ status' = "succeeded"
  /\ UNCHANGED <<constraints, worklist, queued>>

\* setDomains, with the last copy made.  The worklist is not cleared.
Restore ==
  /\ status \in {"succeeded", "failed"}
  /\ saved # <<>>
  /\ domains' = Last(saved)
  /\ entry' = Last(saved)
  /\ saved' = Front(saved)
  /\ status' = "succeeded"
  /\ UNCHANGED <<constraints, worklist, queued>>

\* The client lowers the maximum of v and propagates.
Bound(v, value) ==
  /\ status = "succeeded"
  /\ value \in Interval(domains[v])
  /\ ChangeAndPropagate(<<v>>, [domains EXCEPT ![v] = [min |-> domains[v].min,
                                                      max |-> value]])
  /\ UNCHANGED <<constraints, saved>>

PropagateStep == InitialPropagate \/ EvaluateConstraint \/ PropagateDone

Next ==
  \/ PropagateStep
  \/ Restore
  \/ \E v \in Variable, value \in Value : Branch(v, value) \/ Bound(v, value)

Spec == Init /\ [][Next]_vars

\* propagate() is a loop in one thread: once called it runs.
FairSpec == Spec /\ WF_vars(EvaluateConstraint \/ PropagateDone)

-----------------------------------------------------------------------------
TypeOK ==
  /\ constraints \in Systems
  /\ domains \in Domains
  /\ worklist \in Seq(CId)
  /\ queued \subseteq CId
  /\ status \in {"new", "propagating", "succeeded", "failed"}
  /\ saved \in Seq(Domains)
  /\ entry \in Domains

\* the sequence s has every element of S exactly once
Lists(s, S) ==
  /\ \A i, j \in DOMAIN s : s[i] = s[j] => i = j
  /\ ToSet(s) = S

\* worklist and queued, two records of one set, agree: every queued constraint
\* is in the worklist exactly once.  A constraint flagged but absent would never
\* be called again; one present but not flagged would be called twice.
QueueIntegrity == Lists(worklist, queued)

\* When propagate() has returned true, no constraint has anything left to
\* deduce, whatever earlier failed calls left in the worklist and whatever
\* domains the client put back since.
FixedPointOnSuccess ==
  status = "succeeded" => \A c \in CId : AtFixedPoint(constraints[c], domains)

\* The strengthening that makes it inductive: a constraint out of the worklist
\* is at its fixed point, also for each copy the client may put back.
QuietIsFixed ==
  /\ status \in {"propagating", "succeeded"} =>
       \A c \in CId \ queued : AtFixedPoint(constraints[c], domains)
  /\ \A i \in DOMAIN saved, c \in CId : AtFixedPoint(constraints[c], saved[i])

\* propagate() keeps every solution that was within the domains when it was
\* called, and returns false only if there was none.
SolutionsKept ==
  \A a \in Solutions(constraints, entry) :
    status # "failed" /\ InDomains(a, domains)

\* propagate() only narrows domains.
OnlyNarrows == Narrower(domains, entry)

\* What holds of the scheduler at every moment: its two records of the queue
\* agree, what is not queued has nothing to deduce, and no solution is lost.
IInv ==
  /\ TypeOK
  /\ QueueIntegrity
  /\ QuietIsFixed
  /\ FixedPointOnSuccess
  /\ OnlyNarrows
  /\ SolutionsKept

\* Seen by the client, a propagate() call is one step: module Propagation.
Contract ==
  INSTANCE Propagation WITH
    domains <- IF status = "propagating" THEN entry ELSE domains

ImplementsContract == Contract!Spec

\* propagate() returns, however the client has used the scheduler before.
PropagateReturns == status = "propagating" ~> status # "propagating"

=============================================================================
