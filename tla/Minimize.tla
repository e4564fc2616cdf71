------------------------------ MODULE Minimize ------------------------------
(***************************************************************************)
(* Model::minimize (lib/popsolver/Model.cpp:355-473): branch and bound     *)
(* over the scheduler's domains.                                           *)
(*                                                                         *)
(* The recursive minimize picks an unassigned variable and tries its       *)
(* values in turn; a variable's loop is a frame of the explicit stack      *)
(* frames, and the copy of the domains it makes before each value is at    *)
(* the same place in saved.  The scheduler's own steps, propagate() above  *)
(* all, are those of module Scheduler, whose client this is.               *)
(***************************************************************************)
EXTENDS Scheduler

CONSTANTS
  Bits,               \* the width of DataType::UnderlyingType (64 in the code)
  ObjectiveVectors,   \* the arguments minimize may be called with
  CallOperands(_)     \* the operands of a constraint added by Model::call

ASSUME SearchAssumption ==
  /\ Bits \in Nat /\ 2^Bits \in Nat
  /\ MaxValue < 2^Bits
  /\ ObjectiveVectors \subseteq Seq(Variable) \ {<<>>}
  /\ MaxDepth >= NumVariables

VARIABLES
  initialDomains,   \* Model::initialDomains
  objectives,       \* the variables to minimize, most important first
  frames,           \* the loops under way, outermost first
  pc,               \* where the innermost minimize is
  improved,         \* what the minimize that returned last returned
  found,            \* foundSolution; at the end, that the result is valid
  solution          \* the incumbent, when found

search == <<frames, pc, improved, found, solution>>
model == <<initialDomains, objectives>>
allVars == <<vars, model, search>>

\* Model::priority: 1 for the operands of a call
Priority(v) == IF \E c \in CId : v \in CallOperands(constraints[c]) THEN 1 ELSE 0

AsWord(n) == n % 2^Bits
Size(d) == AsWord(d.max - d.min + 1)            \* Domain::size wraps
Unassigned == {v \in Variable : Size(domains[v]) > 1}

\* lhsIsHigherPriority; among equals the loop keeps the variable it met first
Precedes(v, w) ==
  \/ Priority(v) > Priority(w)
  \/ /\ Priority(v) = Priority(w)
     /\ \/ Size(domains[v]) < Size(domains[w])
        \/ Size(domains[v]) = Size(domains[w]) /\ v <= w

Values == [v \in Variable |-> domains[v].min]   \* Domain::val of each variable

\* foundLowerCostSolution: the first objective that differs decides
LowerCost(a, b) ==
  \E i \in DOMAIN objectives :
    /\ a[objectives[i]] < b[objectives[i]]
    /\ \A j \in 1 .. i - 1 : a[objectives[j]] = b[objectives[j]]

Frame == [var : Variable, value : 0 .. MaxValue + 1, improved : BOOLEAN]
Top == Last(frames)
WithTop(f) == [frames EXCEPT ![Len(frames)] = f]

-----------------------------------------------------------------------------
MinimizeInit ==
  /\ Init
  /\ initialDomains = domains
  /\ objectives \in ObjectiveVectors
  /\ frames = <<>>
  /\ pc = "start"
  /\ improved = FALSE
  /\ found = FALSE
  /\ solution = [v \in Variable |-> 0]

\* Model::minimize(objectives) makes the scheduler and propagates once.
Start ==
  /\ pc = "start"
  /\ InitialPropagate
  /\ pc' = "root"
  /\ UNCHANGED <<model, frames, improved, found, solution>>

\* propagate(), called from Start, Branching or Tighten
Propagating ==
  /\ EvaluateConstraint \/ PropagateDone
  /\ UNCHANGED <<model, search>>

\* propagate() has returned to the caller of Start or to the loop; unless a
\* minimize returns true, there is no improvement.
Propagated ==
  /\ pc \in {"root", "branch"}
  /\ status \in {"succeeded", "failed"}
  /\ pc' = IF status = "succeeded" THEN "enter" ELSE "return"
  /\ improved' = FALSE
  /\ UNCHANGED <<vars, model, frames, found, solution>>

\* Mutant: the loop begins at 0 whatever the domain has become.
PickFromZero ==
  /\ pc = "enter"
  /\ \E v \in Unassigned :
       /\ \A w \in Unassigned : Precedes(v, w)
       /\ frames' = Append(frames, [var |-> v, value |-> 0, improved |-> FALSE])
  /\ pc' = "loop"
  /\ UNCHANGED <<vars, model, improved, found, solution>>

\* minimize finds an unassigned variable and starts its loop.
PickVariable ==
  /\ pc = "enter"
  /\ \E v \in Unassigned :
       /\ \A w \in Unassigned : Precedes(v, w)
       /\ frames' = Append(frames, [var |-> v, value |-> domains[v].min,
                                    improved |-> FALSE])
  /\ pc' = "loop"
  /\ UNCHANGED <<vars, model, improved, found, solution>>

\* Mutant: a solution of the same cost replaces the incumbent.
LeafTakesEqual ==
  /\ pc = "enter"
  /\ Unassigned = {}
  /\ improved' = (~ found \/ ~ LowerCost(solution, Values))
  /\ solution' = IF improved' THEN Values ELSE solution
  /\ found' = TRUE
  /\ pc' = "return"
  /\ UNCHANGED <<vars, model, frames>>

\* All variables are assigned: a first solution, a better one, or neither.
Leaf ==
  /\ pc = "enter"
  /\ Unassigned = {}
  /\ improved' = (~ found \/ LowerCost(Values, solution))
  /\ solution' = IF improved' THEN Values ELSE solution
  /\ found' = TRUE
  /\ pc' = "return"
  /\ UNCHANGED <<vars, model, frames>>

\* The loop tries its next value.
Branching ==
  /\ pc = "loop"
  /\ Top.value <= domains[Top.var].max
  /\ Branch(Top.var, Top.value)
  /\ pc' = "branch"
  /\ UNCHANGED <<model, frames, improved, found, solution>>

\* Mutant: a loop reports an improvement once there is any solution.
LoopEndsOnceFound ==
  /\ pc = "loop"
  /\ Top.value > domains[Top.var].max
  /\ frames' = Front(frames)
  /\ improved' = found
  /\ pc' = "return"
  /\ UNCHANGED <<vars, model, found, solution>>

\* The loop has no value left: minimize returns.
LoopEnds ==
  /\ pc = "loop"
  /\ Top.value > domains[Top.var].max
  /\ frames' = Front(frames)
  /\ improved' = Top.improved
  /\ pc' = "return"
  /\ UNCHANGED <<vars, model, found, solution>>

\* Mutant: a value that brought no improvement is tried again.
ValueRepeated ==
  /\ pc = "return"
  /\ frames # <<>>
  /\ Restore
  /\ IF improved
       THEN frames' = WithTop([Top EXCEPT !.improved = TRUE]) /\ pc' = "tighten"
       ELSE frames' = frames /\ pc' = "loop"
  /\ UNCHANGED <<model, improved, found, solution>>

\* Back in a loop, its value done with: the domains are put back.
ValueDone ==
  /\ pc = "return"
  /\ frames # <<>>
  /\ Restore
  /\ IF improved
       THEN frames' = WithTop([Top EXCEPT !.improved = TRUE]) /\ pc' = "tighten"
       ELSE frames' = WithTop([Top EXCEPT !.value = AsWord(@ + 1)]) /\ pc' = "loop"
  /\ UNCHANGED <<model, improved, found, solution>>

\* Mutant: the last objective is bounded instead of the first.
TightenLast ==
  /\ pc = "tighten"
  /\ Bound(Last(objectives), solution[Last(objectives)])
  /\ pc' = "bound"
  /\ UNCHANGED <<model, frames, improved, found, solution>>

\* After an improvement the first objective is bounded by the incumbent's.
Tighten ==
  /\ pc = "tighten"
  /\ Bound(objectives[1], solution[objectives[1]])
  /\ pc' = "bound"
  /\ UNCHANGED <<model, frames, improved, found, solution>>

Tightened ==
  /\ pc = "bound"
  /\ status = "succeeded"
  /\ frames' = WithTop([Top EXCEPT !.value = AsWord(@ + 1)])
  /\ pc' = "loop"
  /\ UNCHANGED <<vars, model, improved, found, solution>>

\* minimize returns the solution if the outermost minimize reports that it
\* improved it, and an invalid one otherwise, whatever foundSolution says.
Finish ==
  /\ pc = "return"
  /\ frames = <<>>
  /\ found' = improved
  /\ pc' = "done"
  /\ UNCHANGED <<vars, model, frames, improved, solution>>

Done == pc = "done" /\ UNCHANGED allVars

MinimizeNext ==
  \/ Start \/ Propagating \/ Propagated \/ PickVariable \/ Leaf \/ Branching
  \/ LoopEnds \/ ValueDone \/ Tighten \/ Tightened \/ Finish \/ Done

\* One thread runs the search.
MinimizeSpec == MinimizeInit /\ [][MinimizeNext]_allVars /\ WF_allVars(MinimizeNext)

-----------------------------------------------------------------------------
SearchTypeOK ==
  /\ TypeOK
  /\ initialDomains \in Domains
  /\ objectives \in ObjectiveVectors
  /\ frames \in Seq(Frame)
  /\ pc \in {"start", "root", "enter", "loop", "branch", "return", "tighten",
             "bound", "done"}
  /\ improved \in BOOLEAN
  /\ found \in BOOLEAN
  /\ solution \in Assignment

\* minimize as module Optimizer sees it
Optimization ==
  INSTANCE Optimizer WITH
    feasible <- Solutions(constraints, initialDomains),
    best <- IF found THEN {solution} ELSE {},
    returned <- pc = "done"

Beats(a, b) == Optimization!Better(a, b)

\* No assert fails: a loop sets its variable to a value of its domain
\* (Scheduler.hpp:41-42), though bounding the objective has narrowed it since;
\* the incumbent's cost is in the objective's domain (Scheduler.hpp:53-54); the
\* propagation of the bound succeeds (Model.cpp:434); a leaf assigns every
\* variable one value (Domain::val).
AssertsHold ==
  /\ SearchTypeOK
  /\ pc = "loop" /\ Top.value <= domains[Top.var].max
       => Top.value >= domains[Top.var].min
  /\ pc = "tighten" => solution[objectives[1]] \in Interval(domains[objectives[1]])
  /\ pc = "bound" => status # "failed"
  /\ pc = "enter" /\ Unassigned = {} =>
       \A v \in Variable : domains[v].min = domains[v].max

\* a is still to be met: in the domains being searched, at a later value of the
\* innermost loop, or at a later value of a loop that waits
Ahead(a) ==
  \/ pc \in {"start", "root", "branch", "enter"} /\ InDomains(a, domains)
  \/ pc = "loop" /\ InDomains(a, domains) /\ a[Top.var] >= Top.value
  \/ pc \in {"tighten", "bound"} /\ InDomains(a, domains) /\ a[Top.var] > Top.value
  \/ \E i \in DOMAIN saved :
       InDomains(a, saved[i]) /\ a[frames[i].var] > frames[i].value

\* At every moment each solution of the model is either no better than the
\* incumbent or still ahead of the search: neither propagation, nor the bound on
\* the first objective, nor putting domains back skips a better one.
NothingMissed ==
  \A a \in Solutions(constraints, initialDomains) :
    \/ found /\ ~ Beats(a, solution)
    \/ Ahead(a)

\* No domain that is searched reaches the largest DataType, which addVariable's
\* default domain does not (Model.cpp:124-127).  With one that does, Domain::size
\* wraps to 0 and the loop over its values does not end.
BelowLimit ==
  pc \in {"enter", "loop"} => \A v \in Variable : domains[v].max < 2^Bits - 1

\* The call of propagate() that is under way, or returned last
StatusInOrder ==
  /\ pc = "start" => status = "new" /\ domains = initialDomains
  /\ pc \in {"root", "branch"} => status \in {"propagating", "succeeded", "failed"}
  /\ pc = "bound" => status \in {"propagating", "succeeded"}
  /\ pc \in {"enter", "loop", "tighten"} => status = "succeeded"
  /\ pc \in {"return", "done"} => status \in {"succeeded", "failed"}

\* There is a copy of the domains for each loop, but for the innermost between
\* two of its values.
InBetween == pc \in {"loop", "tighten", "bound"}
CopyForEachLoop ==
  /\ Len(frames) = IF InBetween THEN Len(saved) + 1 ELSE Len(saved)
  /\ pc = "done" => frames = <<>>

\* The domains dom are what the i'th loop has made of its copy with the value it
\* is at.
Within(dom, i) ==
  /\ Narrower(dom, saved[i])
  /\ dom[frames[i].var].min >= frames[i].value
  /\ dom[frames[i].var].max <= frames[i].value

Nested ==
  /\ Narrower(domains, initialDomains)
  /\ \A i \in DOMAIN saved : Narrower(saved[i], initialDomains) /\ Within(domains, i)
  /\ \A i, j \in DOMAIN saved : i < j => Within(saved[j], i)

\* A value that has been set can be counted up; the next one to set is not below
\* the domain, bounded though it may have been.
ValuesInRange ==
  /\ \A i \in DOMAIN frames :
       \/ i = Len(frames) /\ pc = "loop"
       \/ frames[i].value \in Value /\ frames[i].value < 2^Bits - 1
  /\ pc = "loop" => domains[Top.var].min <= Top.value

\* the incumbent is below the value that the i'th loop is at
Below(i) == InDomains(solution, saved[i]) /\ solution[frames[i].var] = frames[i].value

\* The incumbent is a solution, and while an improvement is reported outwards
\* it is one of the loop reported to, whose copy of the domains holds it.
IncumbentInPlace ==
  /\ found => solution \in Solutions(constraints, initialDomains)
  /\ pc = "return" /\ improved => found /\ \A i \in DOMAIN saved : Below(i)
  /\ \A k \in DOMAIN frames :
       frames[k].improved => found /\ \A i \in 1 .. k - 1 : Below(i)
  /\ pc \in {"tighten", "bound"} =>
       found /\ InDomains(solution, domains) /\ solution[Top.var] = Top.value

\* An incumbent is on its way to the caller: the minimize that returned last
\* reports it, or a loop under way has had an improvement to report.
Reported ==
  found => \/ pc = "return" /\ improved
           \/ pc = "done"
           \/ \E k \in DOMAIN frames : frames[k].improved

\* What holds of the search at every moment, and is enough to show the rest: the
\* copies, the loops, the incumbent and the scheduler keep in step.
SearchInv ==
  /\ IInv
  /\ SearchTypeOK
  /\ StatusInOrder
  /\ CopyForEachLoop
  /\ Nested
  /\ ValuesInRange
  /\ IncumbentInPlace
  /\ Reported
  /\ NothingMissed

\* To its caller, minimize is an optimizer: the incumbent only ever improves.
ImplementsOptimizer == Optimization!Spec

\* The search ends.
Terminates == <>(pc = "done")

=============================================================================
