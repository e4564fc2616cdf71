--------------------------- MODULE MinimizeProofs ---------------------------
(***************************************************************************)
(* Proofs about module Minimize: that the branch and bound search trips no *)
(* assertion, misses no better solution and so is an optimizer, for every  *)
(* model, every order of objectives and every constraint that meets the    *)
(* assumptions of ConstraintSystem.                                        *)
(***************************************************************************)
EXTENDS Minimize, SchedulerProofs

-----------------------------------------------------------------------------
(* Types. *)

LEMMA ValueIsNat == Value \subseteq Nat /\ MaxValue \in Nat
BY SizeAssumption DEF Value

LEMMA DomainIsInterval ==
  \A dom \in Domains : \A v \in Variable :
    /\ dom[v].min \in Value /\ dom[v].max \in Value
    /\ dom[v].min \in Nat /\ dom[v].max \in Nat
    /\ dom[v].min <= dom[v].max
BY SizeAssumption DEF Domains, Domain, Value

LEMMA AssignmentIsNat ==
  \A a \in Assignment : \A v \in Variable : a[v] \in Value /\ a[v] \in Nat
BY SizeAssumption DEF Assignment, Value

\* objectives.front() is a variable.
LEMMA ObjectivesAreVariables ==
  ASSUME SearchTypeOK
  PROVE  /\ objectives \in Seq(Variable)
         /\ Len(objectives) \in Nat \ {0} /\ DOMAIN objectives = 1 .. Len(objectives)
         /\ 1 \in DOMAIN objectives /\ objectives[1] \in Variable
<1>1. objectives \in Seq(Variable) \ {<<>>}
  BY SearchAssumption DEF SearchTypeOK
<1>2. Len(objectives) \in Nat \ {0}
  BY <1>1
<1> QED BY <1>1, <1>2

LEMMA FramesTyped ==
  ASSUME SearchTypeOK
  PROVE  /\ frames \in Seq(Frame) /\ Len(frames) \in Nat
         /\ DOMAIN frames = 1 .. Len(frames)
         /\ \A i \in DOMAIN frames :
              /\ frames[i] \in Frame
              /\ frames[i].var \in Variable
              /\ frames[i].value \in Nat
              /\ frames[i].improved \in BOOLEAN
<1>1. frames \in Seq(Frame)
  BY DEF SearchTypeOK
<1>2. \A i \in DOMAIN frames : frames[i] \in Frame
  BY <1>1
<1> QED BY <1>1, <1>2, SizeAssumption DEF Frame

LEMMA SavedTyped ==
  ASSUME TypeOK
  PROVE  /\ saved \in Seq(Domains) /\ Len(saved) \in Nat
         /\ DOMAIN saved = 1 .. Len(saved)
         /\ \A i \in DOMAIN saved : saved[i] \in Domains
BY DEF TypeOK

-----------------------------------------------------------------------------
(* Intervals and costs. *)

LEMMA NarrowerIsTransitive ==
  ASSUME NEW d \in Domains, NEW e \in Domains, NEW f \in Domains,
         Narrower(d, e), Narrower(e, f)
  PROVE  Narrower(d, f)
BY DomainIsInterval DEF Narrower

LEMMA NarrowerHoldsFewer ==
  ASSUME NEW d \in Domains, NEW e \in Domains, Narrower(d, e),
         NEW a \in Assignment, InDomains(a, d)
  PROVE  InDomains(a, e)
BY DomainIsInterval, AssignmentIsNat DEF Narrower, InDomains, Interval

\* What a loop has made of its copy stays so when the domains are narrowed.
LEMMA NarrowerStaysWithin ==
  ASSUME TypeOK, SearchTypeOK, NEW i \in DOMAIN saved, i \in DOMAIN frames,
         NEW d \in Domains, NEW e \in Domains, Narrower(d, e), Within(e, i)
  PROVE  Within(d, i)
<1>1. saved[i] \in Domains /\ frames[i].var \in Variable /\ frames[i].value \in Nat
  BY SavedTyped, FramesTyped
<1>2. Narrower(d, saved[i])
  BY <1>1, NarrowerIsTransitive DEF Within
<1> QED BY <1>1, <1>2, DomainIsInterval DEF Within, Narrower

\* A solution is not better than itself.
LEMMA BeatsIsIrreflexive ==
  ASSUME SearchTypeOK, NEW a \in Assignment
  PROVE  ~ Beats(a, a)
BY ObjectivesAreVariables, AssignmentIsNat DEF Beats, Optimization!Better

\* What is better than a better solution is better.
LEMMA BeatsIsTransitive ==
  ASSUME SearchTypeOK, NEW a \in Assignment, NEW b \in Assignment, NEW c \in Assignment,
         Beats(a, b), Beats(b, c)
  PROVE  Beats(a, c)
<1>1. PICK i \in DOMAIN objectives :
        /\ a[objectives[i]] < b[objectives[i]]
        /\ \A j \in 1 .. i - 1 : a[objectives[j]] = b[objectives[j]]
  BY DEF Beats, Optimization!Better
<1>2. PICK k \in DOMAIN objectives :
        /\ b[objectives[k]] < c[objectives[k]]
        /\ \A j \in 1 .. k - 1 : b[objectives[j]] = c[objectives[j]]
  BY DEF Beats, Optimization!Better
<1>3. /\ DOMAIN objectives = 1 .. Len(objectives) /\ Len(objectives) \in Nat
      /\ \A j \in DOMAIN objectives :
           /\ a[objectives[j]] \in Nat /\ b[objectives[j]] \in Nat /\ c[objectives[j]] \in Nat
  BY ObjectivesAreVariables, AssignmentIsNat
<1>4. CASE i <= k
  <2>1. a[objectives[i]] < c[objectives[i]]
    BY <1>1, <1>2, <1>3, <1>4, SMTT(40)
  <2>2. \A j \in 1 .. i - 1 : a[objectives[j]] = c[objectives[j]]
    BY <1>1, <1>2, <1>3, <1>4
  <2> QED BY <2>1, <2>2 DEF Beats, Optimization!Better
<1>5. CASE k < i
  <2>1. a[objectives[k]] < c[objectives[k]]
    BY <1>1, <1>2, <1>3, <1>5
  <2>2. \A j \in 1 .. k - 1 : a[objectives[j]] = c[objectives[j]]
    BY <1>1, <1>2, <1>3, <1>5
  <2> QED BY <2>1, <2>2 DEF Beats, Optimization!Better
<1> QED BY <1>3, <1>4, <1>5

\* foundLowerCostSolution compares costs.
LEMMA LowerCostIsBeats ==
  \A a, b : LowerCost(a, b) <=> Beats(a, b)
BY DEF LowerCost, Beats, Optimization!Better

-----------------------------------------------------------------------------
(* The scheduler, as the search uses it. *)

LEMMA TopIsLast == Top = frames[Len(frames)]
BY DEF Top, Last

\* propagate() goes on as long as there is a solution within the domains, which
\* it does not exclude.
LEMMA EvaluateKeepsSolutions ==
  ASSUME IInv, EvaluateConstraint, NEW dom,
         NEW a \in Solutions(constraints, dom), InDomains(a, domains)
  PROVE  InDomains(a, domains') /\ status' = "propagating"
<1> DEFINE con == constraints[Head(worklist)]
           r == Propagate(con, domains)
<1>1. /\ domains' = r.dom
      /\ status' = IF r.ok THEN "propagating" ELSE "failed"
      /\ worklist # <<>>
  BY DEF EvaluateConstraint
<1>2. worklist \in Seq(CId) /\ Head(worklist) \in CId
  BY <1>1 DEF IInv, TypeOK
<1>3. con \in Constraint /\ Holds(con, a) /\ a \in Assignment /\ domains \in Domains
  BY <1>2, ConstraintNumbers DEF IInv, TypeOK, Solutions, CId
<1>4. r.ok /\ InDomains(a, r.dom)
  BY <1>3, SoundnessAssumption
<1> QED BY <1>1, <1>4

\* propagate() only narrows the domains.
LEMMA EvaluateNarrows ==
  ASSUME IInv, EvaluateConstraint
  PROVE  Narrower(domains', domains)
<1>1. worklist \in Seq(CId) /\ Head(worklist) \in CId
  BY DEF IInv, TypeOK, EvaluateConstraint
<1>2. constraints[Head(worklist)] \in Constraint /\ domains \in Domains
  BY <1>1, ConstraintNumbers DEF IInv, TypeOK
<1> QED BY <1>2, OutcomeAssumption DEF EvaluateConstraint

\* When propagate() has returned false, no solution is within the domains.
LEMMA FailedMeansNone ==
  ASSUME IInv, status = "failed", NEW dom, NEW a \in Solutions(constraints, dom)
  PROVE  ~ InDomains(a, domains)
<1>1. domains \in Domains /\ entry \in Domains /\ Narrower(domains, entry)
  BY DEF IInv, TypeOK, OnlyNarrows
<1>2. a \notin Solutions(constraints, entry)
  BY DEF IInv, SolutionsKept
<1>3. a \in Assignment /\ ~ InDomains(a, entry)
  BY <1>2 DEF Solutions
<1> QED BY <1>1, <1>3, NarrowerHoldsFewer

\* Every step of the search is one of the scheduler's, or none.
LEMMA SearchStepIsScheduler ==
  ASSUME SearchInv, [MinimizeNext]_allVars
  PROVE  [Next]_vars
<1> USE DEF SearchInv
<1>1. CASE Start
  BY <1>1 DEF Start, Next, PropagateStep
<1>2. CASE Propagating
  BY <1>2 DEF Propagating, Next, PropagateStep
<1>3. CASE Branching
  <2>1. /\ Branch(Top.var, Top.value)
        /\ Top.value \in Interval(domains[Top.var])
        /\ domains \in Domains
    BY <1>3 DEF Branching, Branch, IInv, TypeOK
  <2>2. Len(frames) = Len(saved) + 1
    BY <1>3 DEF Branching, CopyForEachLoop, InBetween
  <2>3. Top.var \in Variable /\ Top.value \in Nat
    BY <2>2, FramesTyped, SavedTyped, TopIsLast DEF IInv
  <2>4. Top.value \in Value
    BY <2>1, <2>3, DomainIsInterval, SizeAssumption DEF Interval, Value
  <2> QED BY <2>1, <2>3, <2>4 DEF Next
<1>4. CASE Tighten
  <2>1. /\ Bound(objectives[1], solution[objectives[1]])
        /\ solution \in Assignment /\ objectives[1] \in Variable
    BY <1>4, ObjectivesAreVariables DEF Tighten, SearchTypeOK
  <2> QED BY <2>1, AssignmentIsNat DEF Next
<1>5. CASE ValueDone
  BY <1>5 DEF ValueDone, Next
<1>6. CASE \/ Propagated \/ PickVariable \/ Leaf \/ LoopEnds \/ Tightened \/ Finish
           \/ Done \/ UNCHANGED allVars
  BY <1>6 DEF Propagated, PickVariable, Leaf, LoopEnds, Tightened, Finish, Done, allVars
<1> QED BY <1>1, <1>2, <1>3, <1>4, <1>5, <1>6 DEF MinimizeNext

LEMMA SearchKeepsIInv == SearchInv /\ [MinimizeNext]_allVars => IInv'
BY SearchStepIsScheduler, StepIInv DEF SearchInv

-----------------------------------------------------------------------------
(* SearchInv is inductive: the initial states, and then action by action. *)

LEMMA InitSearchInv == MinimizeInit => SearchInv
<1> SUFFICES ASSUME MinimizeInit PROVE SearchInv
  OBVIOUS
<1>1. IInv /\ TypeOK
  BY InitIInv DEF MinimizeInit, IInv
<1>2. /\ saved = <<>> /\ frames = <<>> /\ pc = "start" /\ status = "new"
      /\ initialDomains = domains /\ improved = FALSE /\ found = FALSE
      /\ solution = [v \in Variable |-> 0] /\ objectives \in ObjectiveVectors
  BY DEF MinimizeInit, Init
<1>3. SearchTypeOK
  <2>1. domains \in Domains
    BY <1>1 DEF TypeOK
  <2>2. solution \in Assignment
    BY <1>2, SizeAssumption DEF Assignment, Value
  <2>3. frames \in Seq(Frame)
    BY <1>2
  <2>4. pc = "start" /\ improved \in BOOLEAN /\ found \in BOOLEAN
    BY <1>2
  <2> QED BY <1>1, <1>2, <2>1, <2>2, <2>3, <2>4 DEF SearchTypeOK
<1>4. StatusInOrder /\ CopyForEachLoop
  BY <1>2 DEF StatusInOrder, CopyForEachLoop, InBetween
<1>5. Nested /\ ValuesInRange /\ IncumbentInPlace
  <2>1. Narrower(domains, initialDomains)
    BY <1>1, <1>2, DomainIsInterval DEF Narrower, TypeOK
  <2> QED BY <1>2, <2>1 DEF Nested, ValuesInRange, IncumbentInPlace
<1>6. NothingMissed
  BY <1>2 DEF NothingMissed, Ahead, Solutions
<1>7. Reported
  BY <1>2 DEF Reported
<1> QED BY <1>1, <1>3, <1>4, <1>5, <1>6, <1>7 DEF SearchInv

LEMMA StartKeeps == SearchInv /\ Start => SearchInv'
<1> SUFFICES ASSUME SearchInv, Start PROVE SearchInv'
  OBVIOUS
<1> USE DEF SearchInv
<1>1. /\ pc = "start" /\ pc' = "root" /\ status' = "propagating"
      /\ UNCHANGED <<constraints, domains, saved, model, frames, improved, found, solution>>
  BY DEF Start, InitialPropagate, ChangeAndPropagate
<1>2. IInv'
  BY SearchKeepsIInv DEF MinimizeNext
<1>3. SearchTypeOK'
  BY <1>1, <1>2 DEF IInv, SearchTypeOK, model
<1>4. StatusInOrder' /\ CopyForEachLoop' /\ Nested' /\ ValuesInRange'
  BY <1>1 DEF StatusInOrder, CopyForEachLoop, InBetween, Nested, Within, ValuesInRange, model
<1>5. IncumbentInPlace'
  BY <1>1 DEF IncumbentInPlace, Below, model
<1>6. NothingMissed'
  BY <1>1 DEF NothingMissed, Ahead, model, Beats, Optimization!Better
<1>7. Reported'
  BY <1>1 DEF Reported
<1> QED BY <1>2, <1>3, <1>4, <1>5, <1>6, <1>7

LEMMA PropagatingKeeps == SearchInv /\ Propagating => SearchInv'
<1> SUFFICES ASSUME SearchInv, Propagating PROVE SearchInv'
  OBVIOUS
<1> USE DEF SearchInv
<1>1. /\ UNCHANGED <<constraints, saved, model, pc, frames, improved, found, solution>>
      /\ status = "propagating" /\ pc \in {"root", "branch", "bound"}
  BY DEF Propagating, EvaluateConstraint, PropagateDone, search, StatusInOrder, SearchTypeOK
<1>2. IInv' /\ domains \in Domains /\ domains' \in Domains
  BY SearchKeepsIInv DEF MinimizeNext, IInv, TypeOK
<1>3. SearchTypeOK'
  BY <1>1, <1>2 DEF IInv, SearchTypeOK, model
<1>4. Narrower(domains', domains)
  <2>1. CASE EvaluateConstraint
    BY <2>1, EvaluateNarrows
  <2>2. CASE PropagateDone
    BY <2>2, <1>2, DomainIsInterval DEF PropagateDone, Narrower
  <2> QED BY <2>1, <2>2 DEF Propagating
<1>5. ASSUME NEW dom, NEW a \in Solutions(constraints, dom), InDomains(a, domains)
      PROVE  InDomains(a, domains') /\ status' # "failed"
  <2>1. CASE EvaluateConstraint
    BY <2>1, <1>5, EvaluateKeepsSolutions
  <2>2. CASE PropagateDone
    BY <2>2, <1>5 DEF PropagateDone
  <2> QED BY <2>1, <2>2 DEF Propagating
<1>6. StatusInOrder'
  <2>1. status' \in {"propagating", "succeeded", "failed"}
    BY DEF Propagating, EvaluateConstraint, PropagateDone
  <2>2. pc = "bound" => status' # "failed"
    BY <1>5 DEF IncumbentInPlace
  <2> QED BY <1>1, <2>1, <2>2 DEF StatusInOrder
<1>7. CopyForEachLoop' /\ ValuesInRange'
  BY <1>1 DEF CopyForEachLoop, InBetween, ValuesInRange
<1>8. Nested'
  <2>1. initialDomains \in Domains /\ Narrower(domains', initialDomains)
    BY <1>2, <1>4, NarrowerIsTransitive DEF Nested, SearchTypeOK
  <2>2. ASSUME NEW i \in DOMAIN saved PROVE Within(domains', i)
    <3>1. i \in DOMAIN frames
      BY FramesTyped, SavedTyped DEF CopyForEachLoop, IInv
    <3> QED BY <1>2, <1>4, <3>1, NarrowerStaysWithin DEF Nested, IInv
  <2> QED BY <1>1, <2>1, <2>2 DEF Nested, Within, model
<1>9. IncumbentInPlace'
  BY <1>1, <1>5 DEF IncumbentInPlace, Below, model, Top, Last
<1>10. NothingMissed'
  <2>1. SUFFICES ASSUME NEW a \in Solutions(constraints, initialDomains), Ahead(a)
                 PROVE  Ahead(a)'
    BY <1>1 DEF NothingMissed, model, Beats, Optimization!Better
  <2> QED BY <1>1, <1>5, <2>1 DEF Ahead, Top, Last
<1>11. Reported'
  BY <1>1 DEF Reported
<1> QED BY <1>2, <1>3, <1>6, <1>7, <1>8, <1>9, <1>10, <1>11

LEMMA PropagatedKeeps == SearchInv /\ Propagated => SearchInv'
<1> SUFFICES ASSUME SearchInv, Propagated PROVE SearchInv'
  OBVIOUS
<1> USE DEF SearchInv
<1>1. /\ UNCHANGED <<vars, model, frames, found, solution>>
      /\ UNCHANGED <<constraints, domains, saved, status>>
      /\ pc \in {"root", "branch"} /\ improved' = FALSE
      /\ \/ status = "succeeded" /\ pc' = "enter"
         \/ status = "failed" /\ pc' = "return"
  BY DEF Propagated, vars
<1>2. IInv'
  BY SearchKeepsIInv DEF MinimizeNext
<1>3. SearchTypeOK'
  BY <1>1, <1>2 DEF IInv, SearchTypeOK, model
<1>4. StatusInOrder' /\ CopyForEachLoop' /\ Nested' /\ ValuesInRange'
  BY <1>1 DEF StatusInOrder, CopyForEachLoop, InBetween, Nested, Within, ValuesInRange, model
<1>5. IncumbentInPlace'
  BY <1>1 DEF IncumbentInPlace, Below, model
<1>6. NothingMissed'
  <2>1. SUFFICES ASSUME NEW a \in Solutions(constraints, initialDomains), Ahead(a)
                 PROVE  Ahead(a)'
    BY <1>1 DEF NothingMissed, model, Beats, Optimization!Better
  <2>2. status = "failed" => ~ InDomains(a, domains)
    BY FailedMeansNone
  <2> QED BY <1>1, <2>1, <2>2 DEF Ahead
<1>7. Reported'
  BY <1>1 DEF Reported
<1> QED BY <1>2, <1>3, <1>4, <1>5, <1>6, <1>7

\* The caller of minimize is told of an incumbent just when there is one.
LEMMA FoundIsReported ==
  ASSUME SearchInv, pc = "return", frames = <<>>
  PROVE  improved = found
<1>1. found => improved
  BY DEF SearchInv, Reported
<1>2. improved => found
  BY DEF SearchInv, IncumbentInPlace
<1>3. improved \in BOOLEAN /\ found \in BOOLEAN
  BY DEF SearchInv, SearchTypeOK
<1> QED BY <1>1, <1>2, <1>3

LEMMA FinishKeeps == SearchInv /\ Finish => SearchInv'
<1> SUFFICES ASSUME SearchInv, Finish PROVE SearchInv'
  OBVIOUS
<1> USE DEF SearchInv
<1>1. /\ UNCHANGED <<vars, model, frames, improved, solution>>
      /\ UNCHANGED <<constraints, domains, saved, status>>
      /\ pc = "return" /\ frames = <<>> /\ pc' = "done" /\ found' = found
  BY FoundIsReported DEF Finish, vars
<1>2. IInv'
  BY SearchKeepsIInv DEF MinimizeNext
<1>3. SearchTypeOK'
  BY <1>1, <1>2 DEF IInv, SearchTypeOK, model
<1>4. StatusInOrder' /\ CopyForEachLoop' /\ Nested' /\ ValuesInRange'
  BY <1>1 DEF StatusInOrder, CopyForEachLoop, InBetween, Nested, Within, ValuesInRange, model
<1>5. IncumbentInPlace'
  BY <1>1 DEF IncumbentInPlace, Below, model
<1>6. NothingMissed'
  BY <1>1 DEF NothingMissed, Ahead, model, Beats, Optimization!Better
<1>7. Reported'
  BY <1>1 DEF Reported
<1> QED BY <1>2, <1>3, <1>4, <1>5, <1>6, <1>7

\* A loop starts: the new frame has no copy of the domains yet.
LEMMA PickVariableKeeps == SearchInv /\ PickVariable => SearchInv'
<1> SUFFICES ASSUME SearchInv, PickVariable PROVE SearchInv'
  OBVIOUS
<1> USE DEF SearchInv
<1> DEFINE Opened(v) == [var |-> v, value |-> domains[v].min, improved |-> FALSE]
<1>1. PICK v \in Variable : frames' = Append(frames, Opened(v))
  BY DEF PickVariable, Unassigned
<1>2. /\ UNCHANGED <<vars, model, improved, found, solution>>
      /\ UNCHANGED <<constraints, domains, saved, status>>
      /\ pc = "enter" /\ pc' = "loop" /\ status = "succeeded"
  BY DEF PickVariable, vars, StatusInOrder
<1>3. IInv'
  BY SearchKeepsIInv DEF MinimizeNext
<1>4. domains \in Domains /\ domains[v].min \in Value /\ domains[v].min \in Nat
  BY DomainIsInterval DEF IInv, TypeOK
<1>5. /\ Len(frames) = Len(saved) /\ Len(frames) \in Nat
      /\ DOMAIN saved = 1 .. Len(frames) /\ DOMAIN frames = 1 .. Len(frames)
  BY <1>2, FramesTyped, SavedTyped DEF CopyForEachLoop, InBetween, IInv
<1>6. Opened(v) \in Frame
  BY <1>4, SizeAssumption DEF Frame, Value
<1> HIDE DEF Opened
<1>7. /\ frames' \in Seq(Frame)
      /\ Len(frames') = Len(frames) + 1 /\ DOMAIN frames' = 1 .. Len(frames) + 1
      /\ frames'[Len(frames) + 1] = Opened(v)
      /\ \A i \in 1 .. Len(frames) : frames'[i] = frames[i]
  BY <1>1, <1>6, FramesTyped
<1>8. /\ Opened(v).var = v /\ Opened(v).value = domains[v].min /\ ~ Opened(v).improved
      /\ Top' = Opened(v)
  BY <1>5, <1>7 DEF Opened, Top, Last
<1>9. SearchTypeOK'
  BY <1>2, <1>3, <1>7 DEF IInv, SearchTypeOK, model
<1>10. StatusInOrder' /\ CopyForEachLoop'
  BY <1>2, <1>5, <1>7 DEF StatusInOrder, CopyForEachLoop, InBetween, model
<1>11. Nested'
  BY <1>2, <1>5, <1>7 DEF Nested, Within, model
<1>12. ValuesInRange'
  BY <1>2, <1>4, <1>5, <1>7, <1>8 DEF ValuesInRange
<1>13. IncumbentInPlace'
  BY <1>2, <1>5, <1>7, <1>8 DEF IncumbentInPlace, Below, model
<1>14. NothingMissed'
  <2>1. SUFFICES ASSUME NEW a \in Solutions(constraints, initialDomains), Ahead(a)
                 PROVE  Ahead(a)'
    BY <1>2 DEF NothingMissed, model, Beats, Optimization!Better
  <2>2. CASE InDomains(a, domains)
    <3>1. a[v] >= domains[v].min
      BY <2>2, <1>4, AssignmentIsNat DEF InDomains, Interval, Solutions
    <3> QED BY <1>2, <1>8, <2>2, <3>1 DEF Ahead
  <2>3. CASE \E i \in DOMAIN saved :
               InDomains(a, saved[i]) /\ a[frames[i].var] > frames[i].value
    BY <1>2, <1>5, <1>7, <2>3 DEF Ahead
  <2> QED BY <1>2, <2>1, <2>2, <2>3 DEF Ahead
<1>15. Reported'
  BY <1>2, <1>5, <1>7 DEF Reported
<1> QED BY <1>3, <1>9, <1>10, <1>11, <1>12, <1>13, <1>14, <1>15

\* A loop ends: the frame goes, which was the one without a copy.
LEMMA LoopEndsKeeps == SearchInv /\ LoopEnds => SearchInv'
<1> SUFFICES ASSUME SearchInv, LoopEnds PROVE SearchInv'
  OBVIOUS
<1> USE DEF SearchInv
<1>1. /\ UNCHANGED <<vars, model, found, solution>>
      /\ UNCHANGED <<constraints, domains, saved, status>>
      /\ pc = "loop" /\ pc' = "return" /\ status = "succeeded"
      /\ frames' = SubSeq(frames, 1, Len(frames) - 1) /\ improved' = Top.improved
      /\ Top.value > domains[Top.var].max
  BY DEF LoopEnds, vars, StatusInOrder, Front
<1>2. IInv'
  BY SearchKeepsIInv DEF MinimizeNext
<1>3. /\ Len(frames) = Len(saved) + 1 /\ Len(saved) \in Nat
      /\ DOMAIN saved = 1 .. Len(saved) /\ DOMAIN frames = 1 .. Len(saved) + 1
      /\ Top = frames[Len(saved) + 1] /\ frames \in Seq(Frame)
      /\ Top.var \in Variable /\ Top.value \in Nat /\ Top.improved \in BOOLEAN
  BY <1>1, FramesTyped, SavedTyped, TopIsLast DEF CopyForEachLoop, InBetween, IInv
<1>4. /\ frames' \in Seq(Frame) /\ Len(frames') = Len(saved)
      /\ DOMAIN frames' = 1 .. Len(saved)
      /\ \A i \in 1 .. Len(saved) : frames'[i] = frames[i]
  BY <1>1, <1>3
<1>5. SearchTypeOK'
  BY <1>1, <1>2, <1>3, <1>4 DEF IInv, SearchTypeOK, model
<1>6. StatusInOrder' /\ CopyForEachLoop'
  BY <1>1, <1>4 DEF StatusInOrder, CopyForEachLoop, InBetween
<1>7. Nested'
  BY <1>1, <1>3, <1>4 DEF Nested, Within, model
<1>8. ValuesInRange'
  BY <1>1, <1>3, <1>4 DEF ValuesInRange
<1>9. IncumbentInPlace'
  <2> DEFINE n == Len(saved) + 1
  <2>1. frames[n].improved => found /\ \A i \in 1 .. n - 1 : Below(i)
    BY <1>3 DEF IncumbentInPlace
  <2>2. improved' = frames[n].improved /\ 1 .. n - 1 = DOMAIN saved
    BY <1>1, <1>3
  <2> QED BY <1>1, <1>3, <1>4, <2>1, <2>2 DEF IncumbentInPlace, Below, model
<1>10. NothingMissed'
  <2>1. SUFFICES ASSUME NEW a \in Solutions(constraints, initialDomains), Ahead(a)
                 PROVE  Ahead(a)'
    BY <1>1 DEF NothingMissed, model, Beats, Optimization!Better
  <2>2. ~ (InDomains(a, domains) /\ a[Top.var] >= Top.value)
    <3>1. domains \in Domains /\ a \in Assignment
      BY DEF IInv, TypeOK, Solutions
    <3> QED BY <1>1, <1>3, <3>1, DomainIsInterval, AssignmentIsNat DEF InDomains, Interval
  <2> QED BY <1>1, <1>3, <1>4, <2>1, <2>2 DEF Ahead
<1>11. Reported'
  <2>1. SUFFICES ASSUME found, ~ improved'
                 PROVE  \E k \in DOMAIN frames' : frames'[k].improved
    BY <1>1 DEF Reported
  <2>2. PICK k \in DOMAIN frames : frames[k].improved
    BY <1>1, <2>1 DEF Reported
  <2>3. k # Len(saved) + 1
    BY <1>1, <1>3, <2>1, <2>2, Zenon
  <2>4. k \in 1 .. Len(saved)
    BY <1>3, <2>3
  <2> QED BY <1>4, <2>2, <2>4, Zenon
<1> QED BY <1>2, <1>5, <1>6, <1>7, <1>8, <1>9, <1>10, <1>11

-----------------------------------------------------------------------------
(* Leaves of the search. *)

LEMMA SmallWords ==
  ASSUME NEW n \in Nat, n < 2^Bits
  PROVE  AsWord(n) = n
<1>1. 2^Bits \in Nat
  BY SearchAssumption
<1> QED BY <1>1 DEF AsWord

\* A variable that is not unassigned has one value: sizes do not wrap below the
\* limit of DataType.
LEMMA LeafIsAssigned ==
  ASSUME SearchInv, BelowLimit, pc = "enter", Unassigned = {}
  PROVE  \A v \in Variable : domains[v].min = domains[v].max
<1> SUFFICES ASSUME NEW v \in Variable PROVE domains[v].min = domains[v].max
  OBVIOUS
<1> DEFINE n == domains[v].max - domains[v].min + 1
<1>1. /\ domains[v].min \in Nat /\ domains[v].max \in Nat
      /\ domains[v].min <= domains[v].max /\ domains[v].max < 2^Bits - 1
  BY DomainIsInterval DEF SearchInv, IInv, TypeOK, BelowLimit
<1>2. n \in Nat /\ n < 2^Bits
  BY <1>1, SearchAssumption
<1>3. AsWord(n) = n
  BY <1>2, SmallWords
<1>4. ~ (n > 1)
  BY <1>3 DEF Unassigned, Size
<1> QED BY <1>1, <1>4

\* At a leaf the one assignment left is a solution of the model.
LEMMA LeafIsSolution ==
  ASSUME SearchInv, BelowLimit, pc = "enter", Unassigned = {}
  PROVE  /\ Values \in Solutions(constraints, initialDomains)
         /\ InDomains(Values, domains)
         /\ \A a \in Assignment : InDomains(a, domains) => a = Values
<1> USE DEF SearchInv
<1>1. /\ domains \in Domains /\ initialDomains \in Domains
      /\ Narrower(domains, initialDomains) /\ status = "succeeded"
  BY DEF IInv, TypeOK, SearchTypeOK, Nested, StatusInOrder
<1>2. \A v \in Variable : /\ domains[v].min \in Value /\ domains[v].min \in Nat
                          /\ domains[v].max = domains[v].min
  BY <1>1, DomainIsInterval, LeafIsAssigned
<1>3. Values \in Assignment /\ InDomains(Values, domains)
  BY <1>2 DEF Values, Assignment, InDomains, Interval
<1>4. ASSUME NEW a \in Assignment, InDomains(a, domains) PROVE a = Values
  <2>1. \A v \in Variable : a[v] = domains[v].min
    BY <1>2, <1>4, AssignmentIsNat DEF InDomains, Interval
  <2> QED BY <2>1 DEF Values, Assignment
<1>5. ASSUME NEW c \in CId PROVE Holds(constraints[c], Values)
  <2>1. constraints[c] \in Constraint /\ Propagate(constraints[c], domains).ok
    BY <1>1, ConstraintNumbers DEF IInv, FixedPointOnSuccess, AtFixedPoint
  <2>2. domains = [v \in Variable |-> [min |-> Values[v], max |-> Values[v]]]
    <3>1. \A v \in Variable : domains[v] = [min |-> Values[v], max |-> Values[v]]
      BY <1>1, <1>2 DEF Values, Domains, Domain
    <3> QED BY <1>1, <3>1 DEF Domains
  <2> QED BY <1>3, <2>1, <2>2, DecisionAssumption
<1>6. InDomains(Values, initialDomains)
  BY <1>1, <1>3, NarrowerHoldsFewer
<1> QED BY <1>3, <1>4, <1>5, <1>6 DEF Solutions, CId

LEMMA LeafKeeps == SearchInv /\ BelowLimit /\ Leaf => SearchInv'
<1> SUFFICES ASSUME SearchInv, BelowLimit, Leaf PROVE SearchInv'
  OBVIOUS
<1> USE DEF SearchInv
<1>1. /\ UNCHANGED <<vars, model, frames>> /\ pc = "enter" /\ pc' = "return"
      /\ UNCHANGED <<constraints, domains, saved, status>> /\ status = "succeeded"
      /\ found' = TRUE
      /\ improved' = (~ found \/ LowerCost(Values, solution))
      /\ solution' = IF improved' THEN Values ELSE solution
  BY DEF Leaf, vars, StatusInOrder
<1>2. IInv'
  BY SearchKeepsIInv DEF MinimizeNext
<1>3. /\ Values \in Solutions(constraints, initialDomains) /\ InDomains(Values, domains)
      /\ \A a \in Assignment : InDomains(a, domains) => a = Values
      /\ Values \in Assignment
  BY <1>1, LeafIsSolution DEF Leaf, Solutions
<1>4. SearchTypeOK'
  BY <1>1, <1>2, <1>3 DEF IInv, SearchTypeOK, model
<1>5. StatusInOrder' /\ CopyForEachLoop' /\ Nested' /\ ValuesInRange'
  BY <1>1 DEF StatusInOrder, CopyForEachLoop, InBetween, Nested, Within, ValuesInRange, model
<1>6. /\ DOMAIN saved = DOMAIN frames /\ DOMAIN frames = 1 .. Len(frames)
      /\ Len(frames) \in Nat
      /\ \A i \in DOMAIN saved : /\ saved[i] \in Domains /\ frames[i].var \in Variable
                                 /\ frames[i].value \in Nat
  BY <1>1, FramesTyped, SavedTyped DEF CopyForEachLoop, InBetween, IInv
<1>7. ASSUME NEW i \in DOMAIN saved
      PROVE  InDomains(Values, saved[i]) /\ Values[frames[i].var] = frames[i].value
  <2>1. Within(domains, i) /\ domains \in Domains
    BY DEF Nested, IInv, TypeOK
  <2>2. InDomains(Values, saved[i])
    BY <1>3, <1>6, <2>1, NarrowerHoldsFewer DEF Within
  <2>3. Values[frames[i].var] \in Interval(domains[frames[i].var])
    BY <1>3, <1>6 DEF InDomains
  <2> QED BY <1>3, <1>6, <2>1, <2>2, <2>3, DomainIsInterval, AssignmentIsNat
          DEF Within, Interval
<1>8. CASE improved'
  <2>1. solution' = Values
    BY <1>1, <1>8
  <2>2. \A i \in DOMAIN saved : Below(i)'
    BY <1>1, <1>7, <2>1 DEF Below
  <2>3. IncumbentInPlace'
    BY <1>1, <1>3, <1>6, <2>1, <2>2 DEF IncumbentInPlace, model
  <2>4. NothingMissed'
    <3>1. SUFFICES ASSUME NEW a \in Solutions(constraints, initialDomains), Beats(a, Values)
                   PROVE  Ahead(a)'
      BY <1>1, <2>1 DEF NothingMissed, model, Beats, Optimization!Better
    <3>2. a \in Assignment /\ a # Values
      BY <1>3, <3>1, BeatsIsIrreflexive DEF Solutions
    <3>3. found => Beats(Values, solution) /\ solution \in Assignment
      BY <1>1, <1>8, LowerCostIsBeats DEF SearchTypeOK
    <3>4. found => Beats(a, solution)
      BY <1>3, <3>1, <3>2, <3>3, BeatsIsTransitive
    <3>5. Ahead(a)
      BY <3>4 DEF NothingMissed
    <3> QED BY <1>1, <1>3, <3>2, <3>5 DEF Ahead
  <2>5. Reported'
    BY <1>1, <1>8 DEF Reported
  <2> QED BY <1>2, <1>4, <1>5, <2>3, <2>4, <2>5
<1>9. CASE ~ improved'
  <2>1. solution' = solution /\ found /\ ~ Beats(Values, solution)
    BY <1>1, <1>9, LowerCostIsBeats
  <2>2. IncumbentInPlace'
    BY <1>1, <1>9, <2>1 DEF IncumbentInPlace, Below, model
  <2>3. NothingMissed'
    <3>1. SUFFICES ASSUME NEW a \in Solutions(constraints, initialDomains),
                          Beats(a, solution)
                   PROVE  Ahead(a)'
      BY <1>1, <2>1 DEF NothingMissed, model, Beats, Optimization!Better
    <3>2. a \in Assignment /\ ~ InDomains(a, domains) /\ Ahead(a)
      BY <1>3, <2>1, <3>1 DEF Solutions, NothingMissed
    <3> QED BY <1>1, <3>2 DEF Ahead
  <2>4. Reported'
    BY <1>1, <2>1 DEF Reported
  <2> QED BY <1>2, <1>4, <1>5, <2>2, <2>3, <2>4
<1> QED BY <1>8, <1>9

-----------------------------------------------------------------------------
(* The loop over a variable's values. *)

\* A value is tried: the copy of the domains goes with the frame, and solutions
\* with a later value wait in it.
LEMMA BranchingKeeps == SearchInv /\ BelowLimit /\ Branching => SearchInv'
<1> SUFFICES ASSUME SearchInv, BelowLimit, Branching PROVE SearchInv'
  OBVIOUS
<1> USE DEF SearchInv
<1> DEFINE v == Top.var
           value == Top.value
           n == Len(saved) + 1
<1>1. /\ UNCHANGED <<constraints, model, frames, improved, found, solution>>
      /\ pc = "loop" /\ pc' = "branch" /\ status' = "propagating"
      /\ saved' = Append(saved, domains)
      /\ domains' = [domains EXCEPT ![v] = [min |-> value, max |-> value]]
      /\ value \in Interval(domains[v])
  BY DEF Branching, Branch, ChangeAndPropagate
<1>2. IInv'
  BY SearchKeepsIInv DEF MinimizeNext
<1>3. /\ domains \in Domains /\ domains' \in Domains /\ initialDomains \in Domains
      /\ saved \in Seq(Domains) /\ saved' \in Seq(Domains)
  BY <1>2 DEF IInv, TypeOK, SearchTypeOK
<1>4. /\ Len(frames) = n /\ n \in Nat \ {0}
      /\ DOMAIN saved = 1 .. n - 1 /\ DOMAIN frames = 1 .. n
      /\ Top = frames[n] /\ Top' = Top
      /\ v \in Variable /\ value \in Nat
  BY <1>1, FramesTyped, SavedTyped, TopIsLast DEF CopyForEachLoop, InBetween, IInv, Top, Last
<1>5. /\ Len(saved') = n /\ DOMAIN saved' = 1 .. n /\ saved'[n] = domains
      /\ \A i \in 1 .. n - 1 : saved'[i] = saved[i]
  BY <1>1, <1>3, <1>4
<1>6. /\ domains'[v] = [min |-> value, max |-> value]
      /\ \A w \in Variable : w # v => domains'[w] = domains[w]
  BY <1>1, <1>3, <1>4 DEF Domains
<1>7. value \in Value /\ value < 2^Bits - 1
  BY <1>1, <1>3, <1>4, DomainIsInterval, SizeAssumption, SearchAssumption, SMTT(40)
     DEF BelowLimit, Interval, Value
<1>8. Narrower(domains', domains)
  BY <1>1, <1>3, <1>4, <1>6, DomainIsInterval DEF Narrower, Interval
<1>9. SearchTypeOK'
  BY <1>1, <1>2 DEF IInv, SearchTypeOK, model
<1>10. StatusInOrder' /\ CopyForEachLoop'
  BY <1>1, <1>4, <1>5 DEF StatusInOrder, CopyForEachLoop, InBetween
<1> HIDE DEF v, value, n
<1>11. Nested'
  <2>1. Narrower(domains', initialDomains)
    BY <1>3, <1>8, NarrowerIsTransitive DEF Nested
  <2>2. ASSUME NEW i \in 1 .. n - 1
        PROVE  Within(domains', i) /\ Within(domains, i) /\ Narrower(saved[i], initialDomains)
    <3>1. i \in DOMAIN saved /\ i \in DOMAIN frames
      BY <1>4
    <3>2. Within(domains, i) /\ Narrower(saved[i], initialDomains)
      BY <3>1 DEF Nested
    <3> QED BY <1>3, <1>8, <3>1, <3>2, NarrowerStaysWithin DEF IInv
  <2>3. Narrower(domains', saved'[n]) /\ Narrower(saved'[n], initialDomains)
    BY <1>5, <1>8 DEF Nested
  <2>4. /\ domains'[frames[n].var].min >= frames[n].value
        /\ domains'[frames[n].var].max <= frames[n].value
    BY <1>4, <1>6 DEF v, value
  <2>5. ASSUME NEW i \in DOMAIN saved'
        PROVE  Narrower(saved'[i], initialDomains) /\ Within(domains, i)'
    <3>1. CASE i = n
      BY <1>1, <2>3, <2>4, <3>1 DEF Within
    <3>2. CASE i # n
      <4>1. i \in 1 .. n - 1 /\ saved'[i] = saved[i]
        BY <1>4, <1>5, <3>2
      <4> QED BY <1>1, <2>2, <4>1 DEF Within
    <3> QED BY <3>1, <3>2
  <2>6. \A i, j \in DOMAIN saved' : i < j => Within(saved[j], i)'
    BY <1>1, <1>4, <1>5, <2>2 DEF Nested, Within
  <2> QED BY <1>1, <2>1, <2>5, <2>6 DEF Nested, Within, model
<1>12. ValuesInRange'
  BY <1>1, <1>4, <1>7 DEF ValuesInRange, value
<1>13. IncumbentInPlace'
  BY <1>1, <1>4, <1>5 DEF IncumbentInPlace, Below, model
<1>14. NothingMissed'
  <2>1. SUFFICES ASSUME NEW a \in Solutions(constraints, initialDomains), Ahead(a)
                 PROVE  Ahead(a)'
    BY <1>1 DEF NothingMissed, model, Beats, Optimization!Better
  <2>2. CASE InDomains(a, domains) /\ a[v] = value
    <3>1. InDomains(a, domains')
      BY <1>4, <1>6, <2>2 DEF InDomains, Interval
    <3> QED BY <1>1, <3>1 DEF Ahead
  <2>3. CASE InDomains(a, domains) /\ a[v] > value
    <3>1. InDomains(a, saved'[n]) /\ a[frames'[n].var] > frames'[n].value
      BY <1>1, <1>4, <1>5, <2>3 DEF v, value
    <3> QED BY <1>4, <1>5, <3>1 DEF Ahead
  <2>4. CASE \E i \in DOMAIN saved :
               InDomains(a, saved[i]) /\ a[frames[i].var] > frames[i].value
    BY <1>1, <1>4, <1>5, <2>4 DEF Ahead
  <2>5. a[v] \in Nat
    BY <1>4, AssignmentIsNat DEF Solutions
  <2> QED BY <1>1, <1>4, <2>1, <2>2, <2>3, <2>4, <2>5 DEF Ahead, v, value
<1>15. Reported'
  BY <1>1 DEF Reported
<1> QED BY <1>2, <1>9, <1>10, <1>11, <1>12, <1>13, <1>14, <1>15

\* A value is done with: the loop goes on to the next, or first bounds the
\* objective by the improvement found under this one.
LEMMA ValueDoneKeeps == SearchInv /\ ValueDone => SearchInv'
<1> SUFFICES ASSUME SearchInv, ValueDone PROVE SearchInv'
  OBVIOUS
<1> USE DEF SearchInv
<1> DEFINE n == Len(saved)
           next == IF improved THEN [Top EXCEPT !.improved = TRUE]
                   ELSE [Top EXCEPT !.value = AsWord(Top.value + 1)]
<1>1. /\ UNCHANGED <<constraints, model, improved, found, solution>>
      /\ pc = "return" /\ status' = "succeeded" /\ frames # <<>>
      /\ pc' = IF improved THEN "tighten" ELSE "loop"
      /\ domains' = saved[n] /\ saved' = SubSeq(saved, 1, n - 1)
      /\ frames' = [frames EXCEPT ![Len(frames)] = next]
  BY DEF ValueDone, Restore, Last, Front, WithTop
<1>2. IInv'
  BY SearchKeepsIInv DEF MinimizeNext
<1>3. /\ domains' \in Domains /\ initialDomains \in Domains /\ saved \in Seq(Domains)
  BY <1>2 DEF IInv, TypeOK, SearchTypeOK
<1>4. /\ Len(frames) = n /\ n \in Nat \ {0}
      /\ DOMAIN saved = 1 .. n /\ DOMAIN frames = 1 .. n
      /\ Top = frames[n] /\ Top \in Frame /\ frames \in Seq(Frame)
      /\ Top.var \in Variable /\ Top.value \in Nat
  BY <1>1, FramesTyped, SavedTyped, TopIsLast DEF CopyForEachLoop, InBetween, IInv
<1>5. /\ DOMAIN saved' = 1 .. n - 1 /\ Len(saved') = n - 1
      /\ \A i \in 1 .. n - 1 : saved'[i] = saved[i]
  BY <1>1, <1>3, <1>4
<1>6. AsWord(Top.value + 1) = Top.value + 1 /\ Top.value + 1 \in 0 .. MaxValue + 1
  <2>1. Top.value < 2^Bits - 1 /\ Top.value \in Value
    BY <1>1, <1>4 DEF ValuesInRange
  <2>2. Top.value + 1 \in Nat /\ Top.value + 1 < 2^Bits
    BY <1>4, <2>1, SearchAssumption
  <2>3. Top.value + 1 \in 0 .. MaxValue + 1
    BY <1>4, <2>1, SizeAssumption DEF Value
  <2> QED BY <2>2, <2>3, SmallWords
<1>7. /\ next \in Frame /\ next.var = Top.var
      /\ improved => next.value = Top.value /\ next.improved
      /\ ~ improved => next.value = Top.value + 1 /\ next.improved = Top.improved
  BY <1>4, <1>6 DEF Frame
<1> HIDE DEF n, next
<1>8. /\ frames' \in Seq(Frame) /\ Len(frames') = n /\ DOMAIN frames' = 1 .. n
      /\ frames'[n] = next /\ Top' = next
      /\ \A i \in 1 .. n - 1 : frames'[i] = frames[i]
  BY <1>1, <1>4, <1>7 DEF Top, Last
<1>9. SearchTypeOK'
  BY <1>1, <1>2, <1>8 DEF IInv, SearchTypeOK, model
<1>10. StatusInOrder' /\ CopyForEachLoop'
  BY <1>1, <1>4, <1>5, <1>8 DEF StatusInOrder, CopyForEachLoop, InBetween
<1>11. Nested'
  BY <1>1, <1>4, <1>5, <1>8 DEF Nested, Within, model
<1>12. ValuesInRange'
  <2>1. ASSUME NEW i \in DOMAIN frames'
        PROVE  \/ i = Len(frames') /\ pc' = "loop"
               \/ frames'[i].value \in Value /\ frames'[i].value < 2^Bits - 1
    BY <1>1, <1>4, <1>7, <1>8 DEF ValuesInRange
  <2>2. ASSUME ~ improved PROVE domains'[Top.var].min <= Top.value + 1
    <3>1. Within(domains, n) /\ domains \in Domains
      BY <1>4 DEF Nested, IInv, TypeOK
    <3>2. domains[Top.var].min = Top.value /\ saved[n][Top.var].min <= Top.value
      BY <1>1, <1>3, <1>4, <3>1, DomainIsInterval DEF Within, Narrower
    <3> QED BY <1>1, <1>4, <1>3, <3>2, DomainIsInterval
  <2> QED BY <1>1, <1>7, <1>8, <2>1, <2>2 DEF ValuesInRange
<1>13. IncumbentInPlace'
  <2>1. improved => found /\ \A i \in 1 .. n : Below(i)
    BY <1>1, <1>4 DEF IncumbentInPlace
  <2>2. \A k \in 1 .. n : frames[k].improved => found /\ \A i \in 1 .. k - 1 : Below(i)
    BY <1>4 DEF IncumbentInPlace
  <2>3. \A i \in 1 .. n - 1 : Below(i) => Below(i)'
    BY <1>1, <1>4, <1>5, <1>8 DEF Below
  <2>4. ASSUME NEW k \in 1 .. n, frames'[k].improved
        PROVE  found /\ \A i \in 1 .. k - 1 : Below(i)'
    <3>1. found /\ \A i \in 1 .. k - 1 : Below(i)
      BY <1>4, <1>7, <1>8, <2>1, <2>2, <2>4
    <3> QED BY <1>4, <2>3, <3>1
  <2>5. pc' = "tighten" => /\ found /\ InDomains(solution, domains')
                           /\ solution[next.var] = next.value
    BY <1>1, <1>4, <1>7, <2>1 DEF Below
  <2> QED BY <1>1, <1>8, <2>4, <2>5 DEF IncumbentInPlace, model
<1>14. NothingMissed'
  <2>1. SUFFICES ASSUME NEW a \in Solutions(constraints, initialDomains), Ahead(a)
                 PROVE  Ahead(a)'
    BY <1>1 DEF NothingMissed, model, Beats, Optimization!Better
  <2>2. PICK i \in DOMAIN saved : InDomains(a, saved[i]) /\ a[frames[i].var] > frames[i].value
    BY <1>1, <2>1 DEF Ahead
  <2>3. CASE i = n
    <3>1. InDomains(a, domains') /\ a[Top.var] > Top.value /\ a[Top.var] \in Nat
      BY <1>1, <1>4, <2>2, <2>3, AssignmentIsNat DEF Solutions
    <3>2. ~ improved => a[Top.var] >= Top.value + 1
      BY <1>4, <3>1
    <3> QED BY <1>1, <1>7, <1>8, <3>1, <3>2 DEF Ahead
  <2>4. CASE i # n
    <3>1. i \in 1 .. n - 1
      BY <1>4, <2>4
    <3> QED BY <1>4, <1>5, <1>8, <2>2, <3>1 DEF Ahead
  <2> QED BY <2>3, <2>4
<1>15. Reported'
  <2>1. SUFFICES ASSUME found PROVE \E k \in DOMAIN frames' : frames'[k].improved
    BY <1>1 DEF Reported
  <2>2. CASE improved
    BY <1>4, <1>7, <1>8, <2>2
  <2>3. CASE ~ improved
    <3>1. PICK k \in DOMAIN frames : frames[k].improved
      BY <1>1, <2>1, <2>3 DEF Reported
    <3> QED BY <1>4, <1>7, <1>8, <2>3, <3>1
  <2> QED BY <2>2, <2>3
<1> QED BY <1>2, <1>9, <1>10, <1>11, <1>12, <1>13, <1>14, <1>15

\* The first objective is bounded by the incumbent's: what is cut off is no better.
LEMMA TightenKeeps == SearchInv /\ Tighten => SearchInv'
<1> SUFFICES ASSUME SearchInv, Tighten PROVE SearchInv'
  OBVIOUS
<1> USE DEF SearchInv
<1> DEFINE o == objectives[1]
<1>1. /\ UNCHANGED <<constraints, saved, model, frames, improved, found, solution>>
      /\ pc = "tighten" /\ pc' = "bound" /\ status' = "propagating"
      /\ domains' = [domains EXCEPT ![o] = [min |-> domains[o].min, max |-> solution[o]]]
      /\ solution[o] \in Interval(domains[o])
  BY DEF Tighten, Bound, ChangeAndPropagate
<1>2. IInv'
  BY SearchKeepsIInv DEF MinimizeNext
<1>3. /\ domains \in Domains /\ domains' \in Domains /\ initialDomains \in Domains
      /\ o \in Variable /\ solution \in Assignment
  BY <1>2, ObjectivesAreVariables DEF IInv, TypeOK, SearchTypeOK
<1>4. /\ domains'[o].min = domains[o].min /\ domains'[o].max = solution[o]
      /\ \A w \in Variable : w # o => domains'[w] = domains[w]
  BY <1>1, <1>3 DEF Domains
<1> HIDE DEF o
<1>5. Narrower(domains', domains)
  BY <1>1, <1>3, <1>4, DomainIsInterval DEF Narrower, Interval
<1>6. SearchTypeOK'
  BY <1>1, <1>2 DEF IInv, SearchTypeOK, model
<1>7. StatusInOrder' /\ CopyForEachLoop' /\ ValuesInRange'
  BY <1>1 DEF StatusInOrder, CopyForEachLoop, InBetween, ValuesInRange
<1>8. Nested'
  <2>1. Narrower(domains', initialDomains)
    BY <1>3, <1>5, NarrowerIsTransitive DEF Nested
  <2>2. ASSUME NEW i \in DOMAIN saved PROVE Within(domains', i)
    <3>1. i \in DOMAIN frames
      BY FramesTyped, SavedTyped DEF CopyForEachLoop, IInv
    <3> QED BY <1>3, <1>5, <3>1, NarrowerStaysWithin DEF Nested, IInv
  <2> QED BY <1>1, <2>1, <2>2 DEF Nested, Within, model
<1>9. ASSUME NEW a \in Assignment, InDomains(a, domains), a[o] <= solution[o]
      PROVE  InDomains(a, domains')
  <2>1. SUFFICES ASSUME NEW w \in Variable PROVE a[w] \in Interval(domains'[w])
    BY DEF InDomains
  <2>2. a[w] \in Interval(domains[w]) /\ a[w] \in Nat /\ a[o] \in Nat /\ solution[o] \in Nat
    BY <1>3, <1>9, AssignmentIsNat DEF InDomains
  <2> QED BY <1>3, <1>4, <1>9, <2>2, DomainIsInterval DEF Interval
<1>10. IncumbentInPlace'
  <2>1. found /\ InDomains(solution, domains) /\ solution[Top.var] = Top.value
    BY <1>1 DEF IncumbentInPlace
  <2>2. InDomains(solution, domains')
    BY <1>3, <1>9, <2>1, AssignmentIsNat
  <2> QED BY <1>1, <2>1, <2>2 DEF IncumbentInPlace, Below, model, Top, Last
<1>11. NothingMissed'
  <2>1. SUFFICES ASSUME NEW a \in Solutions(constraints, initialDomains),
                        Beats(a, solution), Ahead(a)
                 PROVE  Ahead(a)'
    BY <1>1 DEF NothingMissed, model, Beats, Optimization!Better, IncumbentInPlace
  <2>2. a \in Assignment
    BY DEF Solutions
  <2>3. a[o] <= solution[o]
    <3>1. PICK i \in DOMAIN objectives :
            /\ a[objectives[i]] < solution[objectives[i]]
            /\ \A j \in 1 .. i - 1 : a[objectives[j]] = solution[objectives[j]]
      BY <2>1 DEF Beats, Optimization!Better
    <3>2. DOMAIN objectives = 1 .. Len(objectives) /\ Len(objectives) \in Nat
      BY ObjectivesAreVariables
    <3>3. CASE i = 1
      BY <1>3, <2>2, <3>1, <3>3, AssignmentIsNat DEF o
    <3>4. CASE i # 1
      BY <1>3, <2>2, <3>1, <3>2, <3>4, AssignmentIsNat DEF o
    <3> QED BY <3>3, <3>4
  <2> QED BY <1>1, <1>9, <2>1, <2>2, <2>3 DEF Ahead, Top, Last
<1>12. Reported'
  BY <1>1 DEF Reported
<1> QED BY <1>2, <1>6, <1>7, <1>8, <1>10, <1>11, <1>12

\* The bound is propagated, and the loop goes on to the next value.
LEMMA TightenedKeeps == SearchInv /\ Tightened => SearchInv'
<1> SUFFICES ASSUME SearchInv, Tightened PROVE SearchInv'
  OBVIOUS
<1> USE DEF SearchInv
<1> DEFINE n == Len(frames)
           next == [Top EXCEPT !.value = AsWord(Top.value + 1)]
<1>1. /\ UNCHANGED <<vars, model, improved, found, solution>>
      /\ UNCHANGED <<constraints, domains, saved, status>>
      /\ pc = "bound" /\ pc' = "loop" /\ status = "succeeded"
      /\ frames' = [frames EXCEPT ![n] = next]
  BY DEF Tightened, WithTop, vars
<1>2. IInv'
  BY SearchKeepsIInv DEF MinimizeNext
<1>3. /\ n \in Nat \ {0} /\ Len(saved) = n - 1
      /\ DOMAIN saved = 1 .. n - 1 /\ DOMAIN frames = 1 .. n
      /\ Top = frames[n] /\ Top \in Frame /\ frames \in Seq(Frame)
      /\ Top.var \in Variable /\ Top.value \in Nat /\ domains \in Domains
  BY <1>1, FramesTyped, SavedTyped, TopIsLast DEF CopyForEachLoop, InBetween, IInv, TypeOK
<1>4. AsWord(Top.value + 1) = Top.value + 1 /\ Top.value + 1 \in 0 .. MaxValue + 1
  <2>1. Top.value < 2^Bits - 1 /\ Top.value \in Value
    BY <1>1, <1>3 DEF ValuesInRange
  <2>2. Top.value + 1 \in Nat /\ Top.value + 1 < 2^Bits
    BY <1>3, <2>1, SearchAssumption
  <2>3. Top.value + 1 \in 0 .. MaxValue + 1
    BY <1>3, <2>1, SizeAssumption DEF Value
  <2> QED BY <2>2, <2>3, SmallWords
<1>5. /\ next \in Frame /\ next.var = Top.var
      /\ next.value = Top.value + 1 /\ next.improved = Top.improved
  BY <1>3, <1>4 DEF Frame
<1> HIDE DEF n, next
<1>6. /\ frames' \in Seq(Frame) /\ Len(frames') = n /\ DOMAIN frames' = 1 .. n
      /\ frames'[n] = next /\ Top' = next
      /\ \A i \in 1 .. n - 1 : frames'[i] = frames[i]
  BY <1>1, <1>3, <1>5 DEF n, Top, Last
<1>7. SearchTypeOK'
  BY <1>1, <1>2, <1>6 DEF IInv, SearchTypeOK, model
<1>8. StatusInOrder' /\ CopyForEachLoop'
  BY <1>1, <1>3, <1>6 DEF StatusInOrder, CopyForEachLoop, InBetween, n
<1>9. Nested'
  BY <1>1, <1>3, <1>6 DEF Nested, Within, model
<1>10. ValuesInRange'
  <2>1. ASSUME NEW i \in 1 .. n - 1
        PROVE  frames'[i].value \in Value /\ frames'[i].value < 2^Bits - 1
    BY <1>1, <1>3, <1>6, SMTT(40) DEF ValuesInRange
  <2>2. domains[Top.var].min <= Top.value + 1
    <3>1. solution[Top.var] \in Interval(domains[Top.var]) /\ solution[Top.var] = Top.value
      BY <1>1, <1>3 DEF IncumbentInPlace, InDomains
    <3> QED BY <1>3, <3>1, DomainIsInterval DEF Interval
  <2> QED BY <1>1, <1>3, <1>5, <1>6, <2>1, <2>2 DEF ValuesInRange
<1>11. IncumbentInPlace'
  <2>1. \A k \in 1 .. n : frames[k].improved => found /\ \A i \in 1 .. k - 1 : Below(i)
    BY <1>3 DEF IncumbentInPlace
  <2>2. \A i \in 1 .. n - 1 : Below(i) => Below(i)'
    BY <1>1, <1>3, <1>6 DEF Below
  <2>3. \A k \in 1 .. n : frames'[k].improved = frames[k].improved
    BY <1>3, <1>5, <1>6
  <2>4. \A k \in 1 .. n :
          frames'[k].improved => found /\ \A i \in 1 .. k - 1 : Below(i)'
    BY <1>3, <2>1, <2>2, <2>3
  <2> QED BY <1>1, <1>6, <2>4 DEF IncumbentInPlace, model
<1>12. NothingMissed'
  <2>1. SUFFICES ASSUME NEW a \in Solutions(constraints, initialDomains), Ahead(a)
                 PROVE  Ahead(a)'
    BY <1>1 DEF NothingMissed, model, Beats, Optimization!Better
  <2>2. CASE InDomains(a, domains) /\ a[Top.var] > Top.value
    <3>1. a[Top.var] >= Top.value + 1
      BY <1>3, <2>2, AssignmentIsNat DEF Solutions
    <3> QED BY <1>1, <1>5, <1>6, <2>2, <3>1 DEF Ahead
  <2>3. CASE \E i \in DOMAIN saved :
               InDomains(a, saved[i]) /\ a[frames[i].var] > frames[i].value
    BY <1>1, <1>3, <1>6, <2>3 DEF Ahead
  <2> QED BY <1>1, <2>1, <2>2, <2>3 DEF Ahead
<1>13. Reported'
  <2>1. \A k \in 1 .. n : frames'[k].improved = frames[k].improved
    BY <1>3, <1>5, <1>6
  <2> QED BY <1>1, <1>3, <1>6, <2>1 DEF Reported
<1> QED BY <1>2, <1>7, <1>8, <1>9, <1>10, <1>11, <1>12, <1>13

LEMMA SearchStutters == SearchInv /\ UNCHANGED allVars => SearchInv'
<1> SUFFICES ASSUME SearchInv, UNCHANGED allVars PROVE SearchInv'
  OBVIOUS
<1> USE DEF SearchInv
<1>1. /\ UNCHANGED <<initialDomains, objectives, frames, pc, improved, found, solution>>
      /\ UNCHANGED <<constraints, domains, worklist, queued, status, saved, entry>>
  BY DEF allVars, vars, model, search
<1>2. IInv'
  BY SearchKeepsIInv DEF MinimizeNext
<1>3. SearchTypeOK'
  BY <1>1, <1>2 DEF IInv, SearchTypeOK
<1>4. StatusInOrder' /\ CopyForEachLoop' /\ Nested' /\ ValuesInRange' /\ IncumbentInPlace'
  BY <1>1 DEF StatusInOrder, CopyForEachLoop, InBetween, Nested, Within, ValuesInRange,
              IncumbentInPlace, Below, Top, Last
<1>5. NothingMissed'
  BY <1>1 DEF NothingMissed, Ahead, Beats, Optimization!Better, Top, Last
<1>6. Reported'
  BY <1>1 DEF Reported
<1> QED BY <1>2, <1>3, <1>4, <1>5, <1>6

LEMMA StepSearchInv == SearchInv /\ BelowLimit /\ [MinimizeNext]_allVars => SearchInv'
BY StartKeeps, PropagatingKeeps, PropagatedKeeps, PickVariableKeeps, LeafKeeps,
   BranchingKeeps, LoopEndsKeeps, ValueDoneKeeps, TightenKeeps, TightenedKeeps,
   FinishKeeps, SearchStutters
   DEF MinimizeNext, Done

-----------------------------------------------------------------------------
(* What follows from it. *)

LEMMA InvGivesAsserts == SearchInv /\ BelowLimit => AssertsHold
<1> SUFFICES ASSUME SearchInv, BelowLimit PROVE AssertsHold
  OBVIOUS
<1> USE DEF SearchInv
<1>1. pc = "loop" /\ Top.value <= domains[Top.var].max
        => Top.value >= domains[Top.var].min
  <2>1. SUFFICES ASSUME pc = "loop" PROVE Top.value >= domains[Top.var].min
    OBVIOUS
  <2>2. Len(frames) = Len(saved) + 1
    BY <2>1 DEF CopyForEachLoop, InBetween
  <2>3. Top.var \in Variable /\ Top.value \in Nat
    BY <2>2, FramesTyped, SavedTyped, TopIsLast DEF IInv
  <2>4. domains[Top.var].min \in Nat /\ domains[Top.var].min <= Top.value
    BY <2>1, <2>3, DomainIsInterval DEF ValuesInRange, IInv, TypeOK
  <2> QED BY <2>3, <2>4
<1>2. pc = "tighten" => solution[objectives[1]] \in Interval(domains[objectives[1]])
  BY ObjectivesAreVariables DEF IncumbentInPlace, InDomains
<1>3. pc = "bound" => status # "failed"
  BY DEF StatusInOrder
<1>4. pc = "enter" /\ Unassigned = {} => \A v \in Variable : domains[v].min = domains[v].max
  BY LeafIsAssigned
<1> QED BY <1>1, <1>2, <1>3, <1>4 DEF AssertsHold

\* The stack of loops and copies, the incumbent and the scheduler keep in step
\* throughout Model::minimize (Model.cpp:367-473).
THEOREM SearchInvariant == MinimizeSpec /\ []BelowLimit => []SearchInv
<1> QED BY InitSearchInv, StepSearchInv, PTL DEF MinimizeSpec

\* No assert of the search or of the scheduler fails: a loop sets values of the
\* domain only, and bounding the objective by the incumbent never fails
\* (Model.cpp:434).
THEOREM AssertsNeverFail == MinimizeSpec /\ []BelowLimit => []AssertsHold
<1> QED BY SearchInvariant, InvGivesAsserts, PTL

\* The search skips no solution that is better than its incumbent.
THEOREM NoBetterSolutionMissed == MinimizeSpec /\ []BelowLimit => []NothingMissed
<1>1. SearchInv => NothingMissed
  BY DEF SearchInv
<1> QED BY SearchInvariant, <1>1, PTL

\* With variables as addVariable makes them by default, whose domains end before
\* DataType::max() (Model.cpp:124-127), no domain ever reaches the limit.
THEOREM DefaultsAreBelowLimit ==
  ASSUME MaxValue < 2^Bits - 1
  PROVE  MinimizeSpec => []BelowLimit
<1>1. SearchInv => BelowLimit
  <2> SUFFICES ASSUME SearchInv, NEW v \in Variable PROVE domains[v].max < 2^Bits - 1
    BY DEF BelowLimit
  <2>1. domains[v].max \in Value
    BY DomainIsInterval DEF SearchInv, IInv, TypeOK
  <2> QED BY <2>1, SizeAssumption, SearchAssumption DEF Value
<1>2. SearchInv /\ [MinimizeNext]_allVars => SearchInv'
  BY <1>1, StepSearchInv
<1> QED BY <1>1, <1>2, InitSearchInv, PTL DEF MinimizeSpec

-----------------------------------------------------------------------------
(* The search implements Optimizer. *)

LEMMA MinimizeInitImplements == MinimizeInit => Optimization!Init
BY DEF MinimizeInit, Optimization!Init

\* A leaf that is a first or a better solution improves, another is hidden.
LEMMA LeafImplements ==
  SearchInv /\ BelowLimit /\ Leaf => Optimization!Improve \/ UNCHANGED Optimization!vars
<1> SUFFICES ASSUME SearchInv, BelowLimit, Leaf
             PROVE  Optimization!Improve \/ UNCHANGED Optimization!vars
  OBVIOUS
<1>1. /\ UNCHANGED <<constraints, initialDomains, objectives>>
      /\ pc # "done" /\ pc' # "done" /\ found' = TRUE
      /\ improved' = (~ found \/ LowerCost(Values, solution))
      /\ solution' = IF improved' THEN Values ELSE solution
  BY DEF Leaf, vars, model
<1>2. Values \in Solutions(constraints, initialDomains)
  BY LeafIsSolution DEF Leaf
<1>3. CASE improved'
  <2>1. \A b \in IF found THEN {solution} ELSE {} : Beats(Values, b)
    BY <1>1, <1>3, LowerCostIsBeats
  <2> QED BY <1>1, <1>2, <1>3, <2>1 DEF Optimization!Improve, Beats
<1>4. CASE ~ improved'
  <2>1. found /\ solution' = solution
    BY <1>1, <1>4
  <2> QED BY <1>1, <2>1 DEF Optimization!vars, Solutions
<1> QED BY <1>3, <1>4

\* minimize returns when nothing better is ahead.
LEMMA FinishImplements == SearchInv /\ Finish => Optimization!Return
<1> SUFFICES ASSUME SearchInv, Finish PROVE Optimization!Return
  OBVIOUS
<1>1. /\ UNCHANGED <<constraints, initialDomains, objectives, found, solution>>
      /\ pc = "return" /\ pc' = "done" /\ frames = <<>>
  BY FoundIsReported DEF Finish, vars, model
<1>2. DOMAIN saved = {}
  BY <1>1, SavedTyped DEF SearchInv, IInv, CopyForEachLoop, InBetween
<1>3. ASSUME NEW a \in Solutions(constraints, initialDomains)
      PROVE  found /\ ~ Beats(a, solution)
  BY <1>1, <1>2 DEF SearchInv, NothingMissed, Ahead
<1> QED BY <1>1, <1>3 DEF Optimization!Return, Beats

\* Every other step is hidden from the caller.
LEMMA MinimizeStepImplements ==
  SearchInv /\ BelowLimit /\ [MinimizeNext]_allVars
    => [Optimization!Next]_(Optimization!vars)
<1> SUFFICES ASSUME SearchInv, BelowLimit, [MinimizeNext]_allVars
             PROVE  [Optimization!Next]_(Optimization!vars)
  OBVIOUS
<1>1. CASE Leaf
  BY <1>1, LeafImplements DEF Optimization!Next
<1>2. CASE Finish
  BY <1>2, FinishImplements DEF Optimization!Next
<1>3. CASE Start
  BY <1>3 DEF Start, InitialPropagate, model, Optimization!vars
<1>4. CASE Propagating
  BY <1>4 DEF Propagating, EvaluateConstraint, PropagateDone, model, search, Optimization!vars
<1>5. CASE Propagated \/ PickVariable \/ LoopEnds \/ Tightened
  <2>1. pc # "done" /\ pc' # "done"
    BY <1>5 DEF Propagated, PickVariable, LoopEnds, Tightened
  <2>2. UNCHANGED <<constraints, initialDomains, objectives, found, solution>>
    BY <1>5 DEF Propagated, PickVariable, LoopEnds, Tightened, vars, model
  <2> QED BY <2>1, <2>2 DEF Optimization!vars
<1>6. CASE Branching \/ ValueDone \/ Tighten
  <2>1. pc # "done" /\ pc' # "done"
    BY <1>6 DEF Branching, ValueDone, Tighten
  <2>2. UNCHANGED <<constraints, initialDomains, objectives, found, solution>>
    BY <1>6 DEF Branching, Branch, ValueDone, Restore, Tighten, Bound, model
  <2> QED BY <2>1, <2>2 DEF Optimization!vars
<1>7. CASE Done \/ UNCHANGED allVars
  BY <1>7 DEF Done, allVars, vars, model, search, Optimization!vars
<1> QED BY <1>1, <1>2, <1>3, <1>4, <1>5, <1>6, <1>7 DEF MinimizeNext

\* "Find a solution that minimizes the value of the specified variables"
\* (include/popsolver/Model.hpp:337): the incumbent only improves, and what is
\* returned cannot be improved on.
THEOREM OptimizerImplemented == MinimizeSpec /\ []BelowLimit => ImplementsOptimizer
<1> QED BY MinimizeInitImplements, MinimizeStepImplements, SearchInvariant, PTL
       DEF MinimizeSpec, Optimization!Spec, ImplementsOptimizer

=============================================================================
