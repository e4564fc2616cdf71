-------------------------- MODULE SchedulerProofs --------------------------
(***************************************************************************)
(* Proofs about module Scheduler, for every number of variables, every     *)
(* vector of constraints and every propagate() that meets the assumptions  *)
(* of ConstraintSystem.                                                    *)
(***************************************************************************)
EXTENDS Scheduler, FiniteSetTheorems, SequenceTheorems, TLAPS

-----------------------------------------------------------------------------
(* Sequences that list a set. *)

\* Pushing constraints that are not queued keeps the worklist a list of the
\* queued set (Scheduler::queueConstraints).
LEMMA ConcatLists ==
  ASSUME NEW S, NEW s \in Seq(S), NEW t \in Seq(S),
         NEW A, NEW B, Lists(s, A), Lists(t, B), A \cap B = {}
  PROVE  s \o t \in Seq(S) /\ Lists(s \o t, A \cup B)
<1>1. s \o t \in Seq(S)
  OBVIOUS
<1>2. /\ DOMAIN (s \o t) = 1 .. Len(s) + Len(t)
      /\ \A i \in 1 .. Len(s) : (s \o t)[i] = s[i]
      /\ \A i \in 1 .. Len(t) : (s \o t)[Len(s) + i] = t[i]
  BY <1>1, ConcatProperties
<1>3. /\ DOMAIN s = 1 .. Len(s) /\ Len(s) \in Nat
      /\ DOMAIN t = 1 .. Len(t) /\ Len(t) \in Nat
  OBVIOUS
<1>4. \A i \in DOMAIN (s \o t) :
        \/ i \in 1 .. Len(s) /\ (s \o t)[i] = s[i]
        \/ i - Len(s) \in 1 .. Len(t) /\ (s \o t)[i] = t[i - Len(s)]
  <2>1. SUFFICES ASSUME NEW i \in DOMAIN (s \o t), i \notin 1 .. Len(s)
                 PROVE  i - Len(s) \in 1 .. Len(t) /\ (s \o t)[i] = t[i - Len(s)]
    BY <1>2
  <2>2. i - Len(s) \in 1 .. Len(t) /\ i = Len(s) + (i - Len(s))
    BY <2>1, <1>2, <1>3
  <2> QED BY <2>2, <1>2
<1>5. \A i \in 1 .. Len(s) : s[i] \in A
  BY <1>3 DEF Lists, ToSet
<1>6. \A i \in 1 .. Len(t) : t[i] \in B
  BY <1>3 DEF Lists, ToSet
<1>7. ASSUME NEW i \in DOMAIN (s \o t), NEW j \in DOMAIN (s \o t),
             (s \o t)[i] = (s \o t)[j]
      PROVE  i = j
  <2>1. CASE i \in 1 .. Len(s) /\ j \in 1 .. Len(s)
    BY <2>1, <1>7, <1>2, <1>3 DEF Lists
  <2>2. CASE i \notin 1 .. Len(s) /\ j \notin 1 .. Len(s)
    <3>1. i - Len(s) = j - Len(s)
      BY <2>2, <1>7, <1>4, <1>3 DEF Lists
    <3> QED BY <3>1, <1>2, <1>3
  <2>3. CASE i \in 1 .. Len(s) /\ j \notin 1 .. Len(s)
    BY <2>3, <1>7, <1>4, <1>5, <1>6
  <2>4. CASE i \notin 1 .. Len(s) /\ j \in 1 .. Len(s)
    BY <2>4, <1>7, <1>4, <1>5, <1>6
  <2> QED BY <2>1, <2>2, <2>3, <2>4
<1>8. ToSet(s \o t) = A \cup B
  <2>1. ToSet(s \o t) \subseteq A \cup B
    BY <1>4, <1>5, <1>6 DEF ToSet
  <2>2. ASSUME NEW c \in A PROVE c \in ToSet(s \o t)
    <3>1. PICK i \in 1 .. Len(s) : s[i] = c
      BY <2>2, <1>3 DEF Lists, ToSet
    <3> QED BY <3>1, <1>2, <1>3 DEF ToSet
  <2>3. ASSUME NEW c \in B PROVE c \in ToSet(s \o t)
    <3>1. PICK i \in 1 .. Len(t) : t[i] = c
      BY <2>3, <1>3 DEF Lists, ToSet
    <3>2. Len(s) + i \in DOMAIN (s \o t)
      BY <3>1, <1>2, <1>3
    <3> QED BY <3>1, <3>2, <1>2 DEF ToSet
  <2> QED BY <2>1, <2>2, <2>3
<1> QED BY <1>1, <1>7, <1>8 DEF Lists

\* Popping the front of the worklist leaves a list of the other constraints.
LEMMA TailLists ==
  ASSUME NEW S, NEW s \in Seq(S), s # <<>>, NEW A, Lists(s, A)
  PROVE  /\ Head(s) \in A /\ Head(s) \in S
         /\ Tail(s) \in Seq(S)
         /\ Lists(Tail(s), A \ {Head(s)})
<1>1. /\ Len(s) \in Nat \ {0} /\ DOMAIN s = 1 .. Len(s)
      /\ Head(s) = s[1] /\ Head(s) \in S
      /\ Tail(s) \in Seq(S)
      /\ DOMAIN Tail(s) = 1 .. (Len(s) - 1)
      /\ \A i \in 1 .. (Len(s) - 1) : Tail(s)[i] = s[i + 1]
  BY HeadTailProperties
<1>2. Head(s) \in A
  BY <1>1 DEF Lists, ToSet
<1>3. ASSUME NEW i \in DOMAIN Tail(s), NEW j \in DOMAIN Tail(s),
             Tail(s)[i] = Tail(s)[j]
      PROVE  i = j
  <2>1. i + 1 \in DOMAIN s /\ j + 1 \in DOMAIN s /\ s[i + 1] = s[j + 1]
    BY <1>1, <1>3
  <2>2. i + 1 = j + 1
    BY <2>1 DEF Lists
  <2> QED BY <2>2, <1>1
<1>4. ToSet(Tail(s)) = A \ {Head(s)}
  <2>1. ASSUME NEW i \in DOMAIN Tail(s) PROVE Tail(s)[i] \in A \ {Head(s)}
    <3>1. i + 1 \in DOMAIN s /\ 1 \in DOMAIN s /\ i + 1 # 1
      BY <1>1, <2>1
    <3>2. s[i + 1] # s[1] /\ s[i + 1] \in A
      BY <3>1 DEF Lists, ToSet
    <3> QED BY <3>2, <1>1, <2>1
  <2>2. ASSUME NEW c \in A, c # Head(s) PROVE c \in ToSet(Tail(s))
    <3>1. PICK i \in DOMAIN s : s[i] = c
      BY <2>2 DEF Lists, ToSet
    <3>2. i - 1 \in DOMAIN Tail(s) /\ Tail(s)[i - 1] = c
      BY <3>1, <2>2, <1>1
    <3> QED BY <3>2 DEF ToSet
  <2> QED BY <2>1, <2>2 DEF ToSet
<1> QED BY <1>1, <1>2, <1>3, <1>4 DEF Lists

-----------------------------------------------------------------------------
(* The inductive invariant. *)

\* Constraint numbers are a finite set and name constraints.
LEMMA ConstraintNumbers ==
  ASSUME TypeOK
  PROVE  /\ constraints \in Seq(Constraint)
         /\ IsFiniteSet(CId)
         /\ \A c \in CId : constraints[c] \in Constraint
<1>1. constraints \in Seq(Constraint)
  BY SystemAssumption DEF TypeOK
<1>2. CId = 1 .. Len(constraints) /\ Len(constraints) \in Nat
  BY <1>1 DEF CId
<1>3. IsFiniteSet(CId)
  BY <1>2, FS_Interval
<1> QED BY <1>1, <1>2, <1>3

\* What queueConstraints pushes lists the constraints it flags.
LEMMA PushListsWoken ==
  ASSUME TypeOK, NEW touched \in Seq(Variable), NEW s \in PushOrders(touched)
  PROVE  /\ s \in Seq(CId)
         /\ Lists(s, Woken(touched))
         /\ Woken(touched) \subseteq CId
         /\ Woken(touched) \cap queued = {}
<1> DEFINE new == Woken(touched)
<1>1. new \subseteq CId /\ new \cap queued = {}
  BY DEF Woken
<1>2. Cardinality(new) \in Nat
  BY <1>1, ConstraintNumbers, FS_Subset, FS_CardinalityType
<1>3. /\ s \in [1 .. Cardinality(new) -> new]
      /\ ToSet(s) = new
      /\ \A i, j \in DOMAIN s : i < j => PushedBefore(touched, s[i], s[j])
  BY DEF PushOrders
<1>4. s \in Seq(CId)
  <2>1. s \in Seq(new)
    BY <1>2, <1>3
  <2> QED BY <1>1, <2>1, SeqMonotonic
<1>5. ASSUME NEW i \in DOMAIN s, NEW j \in DOMAIN s, s[i] = s[j]
      PROVE  i = j
  <2>1. ASSUME NEW c \in CId PROVE ~ PushedBefore(touched, c, c)
    <3>1. SUFFICES ASSUME NEW i0 \in DOMAIN touched,
                          c \in Watchers(touched[i0]),
                          \A j0 \in 1 .. i0 :
                            c \in Watchers(touched[j0]) => j0 = i0 /\ c < c
                   PROVE  FALSE
      BY DEF PushedBefore
    <3>2. i0 \in 1 .. i0
      OBVIOUS
    <3>3. c \in Int
      BY ConstraintNumbers DEF CId
    <3> QED BY <3>1, <3>2, <3>3
  <2>2. i \in Int /\ j \in Int /\ s[i] \in CId /\ s[j] \in CId
    BY <1>1, <1>2, <1>3, <1>5
  <2>3. ~ (i < j) /\ ~ (j < i)
    BY <2>1, <2>2, <1>3, <1>5
  <2> QED BY <2>2, <2>3
<1> QED BY <1>1, <1>3, <1>4, <1>5 DEF Lists

\* A constraint none of whose variables changed stays at its fixed point.
LEMMA UntouchedStaysFixed ==
  ASSUME NEW c \in Constraint, NEW dom \in Domains, NEW e \in Domains,
         AtFixedPoint(c, dom), \A v \in Scope(c) : e[v] = dom[v]
  PROVE  AtFixedPoint(c, e)
<1>1. OnScope(c, dom) = OnScope(c, e)
  BY SystemAssumption DEF OnScope
<1> QED BY <1>1, LocalityAssumption

\* What set, setMax and initialPropagate share: the domains change at most in
\* the variables touched, and the watchers of those are queued.
LEMMA ChangeKeepsIInv ==
  ASSUME TypeOK, QueueIntegrity, NEW touched \in Seq(Variable),
         NEW dom \in Domains,
         \A c \in CId \ (queued \cup Woken(touched)) : AtFixedPoint(constraints[c], dom),
         \A i \in DOMAIN saved', c \in CId : AtFixedPoint(constraints[c], saved'[i]),
         saved' \in Seq(Domains),
         ChangeAndPropagate(touched, dom), UNCHANGED constraints
  PROVE  IInv'
<1>1. PICK s \in PushOrders(touched) : worklist' = worklist \o s
  BY DEF ChangeAndPropagate
<1>2. /\ s \in Seq(CId) /\ Lists(s, Woken(touched))
      /\ Woken(touched) \subseteq CId /\ Woken(touched) \cap queued = {}
  BY <1>1, PushListsWoken
<1>3. /\ queued' = queued \cup Woken(touched) /\ domains' = dom /\ entry' = dom
      /\ status' = "propagating" /\ CId' = CId /\ constraints' = constraints
  BY DEF ChangeAndPropagate, CId
<1>4. worklist' \in Seq(CId) /\ Lists(worklist', queued')
  <2>1. worklist \in Seq(CId) /\ Lists(worklist, queued)
    BY DEF TypeOK, QueueIntegrity
  <2> QED BY <1>1, <1>2, <1>3, <2>1, ConcatLists
<1>5. TypeOK'
  BY <1>2, <1>3, <1>4 DEF TypeOK
<1>6. QuietIsFixed'
  BY <1>3 DEF QuietIsFixed
<1>7. OnlyNarrows'
  <2>1. \A v \in Variable : dom[v].min <= dom[v].min /\ dom[v].max <= dom[v].max
    BY SizeAssumption DEF Domains, Domain, Value
  <2> QED BY <1>3, <2>1 DEF OnlyNarrows, Narrower
<1>8. SolutionsKept'
  BY <1>3 DEF SolutionsKept, Solutions
<1> QED BY <1>3, <1>4, <1>5, <1>6, <1>7, <1>8
       DEF IInv, QueueIntegrity, FixedPointOnSuccess

LEMMA InitIInv == Init => IInv
<1> SUFFICES ASSUME Init PROVE IInv
  OBVIOUS
<1>1. TypeOK
  BY SystemAssumption DEF Init, TypeOK
<1>2. QueueIntegrity
  BY DEF Init, QueueIntegrity, Lists, ToSet
<1>3. QuietIsFixed /\ FixedPointOnSuccess
  BY DEF Init, QuietIsFixed, FixedPointOnSuccess
<1>4. OnlyNarrows
  BY <1>1, SizeAssumption DEF Init, TypeOK, OnlyNarrows, Narrower, Domains, Domain, Value
<1>5. SolutionsKept
  BY DEF Init, SolutionsKept, Solutions
<1> QED BY <1>1, <1>2, <1>3, <1>4, <1>5 DEF IInv

LEMMA InitialPropagateIInv == IInv /\ InitialPropagate => IInv'
<1> SUFFICES ASSUME IInv, InitialPropagate PROVE IInv'
  OBVIOUS
<1> DEFINE all == [i \in 1 .. NumVariables |-> i - 1]
<1>1. all \in Seq(Variable)
  BY SizeAssumption DEF Variable
<1>2. ASSUME NEW c \in CId PROVE c \in queued \cup Woken(all)
  <2>1. PICK v \in Variable : v \in Scope(constraints[c])
    BY SystemAssumption, ConstraintNumbers DEF IInv
  <2>2. v + 1 \in DOMAIN all /\ all[v + 1] = v
    BY SizeAssumption DEF Variable
  <2> QED BY <2>1, <2>2 DEF Woken, Watchers
<1>3. /\ domains \in Domains /\ saved' = saved /\ UNCHANGED constraints
      /\ ChangeAndPropagate(all, domains)
  BY DEF IInv, TypeOK, InitialPropagate
<1> HIDE DEF all
<1> QED BY <1>1, <1>2, <1>3, ChangeKeepsIInv DEF IInv, TypeOK, QuietIsFixed

LEMMA EvaluateConstraintIInv == IInv /\ EvaluateConstraint => IInv'
<1> SUFFICES ASSUME IInv, EvaluateConstraint PROVE IInv'
  OBVIOUS
<1> DEFINE cid == Head(worklist)
           con == constraints[cid]
           r == Propagate(con, domains)
<1>1. /\ status = "propagating" /\ worklist # <<>>
      /\ queued' = (queued \cup Woken(r.touched)) \ {cid}
      /\ domains' = r.dom
      /\ status' = IF r.ok THEN "propagating" ELSE "failed"
      /\ UNCHANGED <<constraints, saved, entry>> /\ CId' = CId
  BY DEF EvaluateConstraint, CId
<1>2. PICK s \in PushOrders(r.touched) : worklist' = Tail(worklist) \o s
  BY DEF EvaluateConstraint
<1>3. /\ cid \in queued /\ cid \in CId
      /\ Tail(worklist) \in Seq(CId) /\ Lists(Tail(worklist), queued \ {cid})
  BY <1>1, TailLists DEF IInv, TypeOK, QueueIntegrity
<1>4. con \in Constraint /\ domains \in Domains
  BY <1>3, ConstraintNumbers DEF IInv, TypeOK
<1>5. /\ r.ok \in BOOLEAN /\ r.dom \in Domains
      /\ r.touched \in Seq(Scope(con)) /\ Narrower(r.dom, domains)
      /\ \A v \in Variable :
           r.dom[v] # domains[v] => \E i \in DOMAIN r.touched : r.touched[i] = v
  BY <1>4, OutcomeAssumption
<1>6. r.touched \in Seq(Variable)
  BY <1>4, <1>5, SystemAssumption, SeqMonotonic
<1> HIDE DEF r, con, cid
<1>7. /\ s \in Seq(CId) /\ Lists(s, Woken(r.touched))
      /\ Woken(r.touched) \subseteq CId /\ Woken(r.touched) \cap queued = {}
  BY <1>2, <1>6, PushListsWoken DEF IInv
<1>8. worklist' \in Seq(CId) /\ Lists(worklist', queued')
  <2>1. queued' = (queued \ {cid}) \cup Woken(r.touched)
    BY <1>1, <1>3, <1>7
  <2>2. (queued \ {cid}) \cap Woken(r.touched) = {}
    BY <1>7
  <2> QED BY <1>2, <1>3, <1>7, <2>1, <2>2, ConcatLists
<1>9. TypeOK'
  BY <1>1, <1>5, <1>7, <1>8 DEF IInv, TypeOK
<1>10. QuietIsFixed'
  <2>1. ASSUME r.ok, NEW c \in CId, c \notin queued'
        PROVE  AtFixedPoint(constraints[c], r.dom)
    <3>1. CASE c = cid
      BY <2>1, <3>1, <1>4, IdempotenceAssumption DEF r, con
    <3>2. CASE c # cid
      <4>1. c \notin queued /\ c \notin Woken(r.touched)
        BY <2>1, <3>2, <1>1
      <4>2. AtFixedPoint(constraints[c], domains) /\ constraints[c] \in Constraint
        BY <4>1, <1>1, ConstraintNumbers DEF IInv, QuietIsFixed
      <4>3. \A i \in DOMAIN r.touched : r.touched[i] \notin Scope(constraints[c])
        BY <4>1 DEF Woken, Watchers
      <4>4. \A v \in Scope(constraints[c]) : r.dom[v] = domains[v]
        BY <4>2, <4>3, <1>5, SystemAssumption
      <4> QED BY <4>2, <4>4, <1>4, <1>5, UntouchedStaysFixed
    <3> QED BY <3>1, <3>2
  <2> QED BY <2>1, <1>1 DEF IInv, QuietIsFixed
<1>11. OnlyNarrows'
  <2>1. entry \in Domains /\ Narrower(domains, entry)
    BY DEF IInv, TypeOK, OnlyNarrows
  <2>2. Narrower(r.dom, entry)
    BY <2>1, <1>4, <1>5, SizeAssumption DEF Narrower, Domains, Domain, Value
  <2> QED BY <1>1, <2>2 DEF OnlyNarrows
<1>12. SolutionsKept'
  <2>1. SUFFICES ASSUME NEW a \in Solutions(constraints, entry)
                 PROVE  r.ok /\ InDomains(a, r.dom)
    BY <1>1 DEF SolutionsKept, Solutions
  <2>2. InDomains(a, domains) /\ a \in Assignment /\ Holds(con, a)
    BY <1>3 DEF IInv, SolutionsKept, Solutions, CId, con
  <2> QED BY <2>2, <1>4, SoundnessAssumption DEF r
<1>13. FixedPointOnSuccess'
  BY <1>1, <1>5 DEF FixedPointOnSuccess
<1> QED BY <1>1, <1>8, <1>9, <1>10, <1>11, <1>12, <1>13 DEF IInv, QueueIntegrity

LEMMA PropagateDoneIInv == IInv /\ PropagateDone => IInv'
<1> SUFFICES ASSUME IInv, PropagateDone PROVE IInv'
  OBVIOUS
<1>1. /\ status = "propagating" /\ worklist = <<>> /\ status' = "succeeded"
      /\ UNCHANGED <<constraints, domains, worklist, queued, saved, entry>>
      /\ CId' = CId
  BY DEF PropagateDone, CId
<1>2. queued = {}
  BY <1>1 DEF IInv, QueueIntegrity, Lists, ToSet
<1>3. \A c \in CId : AtFixedPoint(constraints[c], domains)
  BY <1>1, <1>2 DEF IInv, QuietIsFixed
<1>4. TypeOK'
  BY <1>1 DEF IInv, TypeOK
<1>5. QueueIntegrity' /\ OnlyNarrows'
  BY <1>1 DEF IInv, QueueIntegrity, OnlyNarrows
<1>6. QuietIsFixed' /\ FixedPointOnSuccess'
  BY <1>1, <1>3 DEF IInv, QuietIsFixed, FixedPointOnSuccess
<1>7. SolutionsKept'
  BY <1>1 DEF IInv, SolutionsKept, Solutions
<1> QED BY <1>4, <1>5, <1>6, <1>7 DEF IInv

\* Both changes the client makes are to domains, and to the one variable v.
LEMMA ClientChange ==
  ASSUME IInv, status = "succeeded", NEW v \in Variable, NEW d \in Domain
  PROVE  /\ <<v>> \in Seq(Variable)
         /\ [domains EXCEPT ![v] = d] \in Domains
         /\ \A c \in CId \ (queued \cup Woken(<<v>>)) :
              AtFixedPoint(constraints[c], [domains EXCEPT ![v] = d])
<1> DEFINE dom == [domains EXCEPT ![v] = d]
<1>1. domains \in Domains /\ dom \in Domains
  BY DEF IInv, TypeOK, Domains
<1>2. ASSUME NEW c \in CId, c \notin queued, c \notin Woken(<<v>>)
      PROVE  AtFixedPoint(constraints[c], dom)
  <2>1. v \notin Scope(constraints[c])
    BY <1>2 DEF Woken, Watchers
  <2>2. constraints[c] \in Constraint /\ AtFixedPoint(constraints[c], domains)
    BY <1>2, ConstraintNumbers DEF IInv, FixedPointOnSuccess
  <2>3. \A w \in Scope(constraints[c]) : dom[w] = domains[w]
    BY <1>1, <2>1, <2>2, SystemAssumption DEF Domains
  <2> QED BY <1>1, <2>2, <2>3, UntouchedStaysFixed
<1>3. <<v>> \in Seq(Variable)
  OBVIOUS
<1> HIDE DEF dom
<1>4. \A c \in CId \ (queued \cup Woken(<<v>>)) : AtFixedPoint(constraints[c], dom)
  BY <1>2
<1> USE DEF dom
<1> QED BY <1>1, <1>3, <1>4

LEMMA BranchIInv ==
  IInv /\ (\E v \in Variable, value \in Value : Branch(v, value)) => IInv'
<1> SUFFICES ASSUME IInv, NEW v \in Variable, NEW value \in Value, Branch(v, value)
             PROVE  IInv'
  OBVIOUS
<1> DEFINE d == [min |-> value, max |-> value]
           dom == [domains EXCEPT ![v] = d]
<1>1. /\ status = "succeeded" /\ saved' = Append(saved, domains)
      /\ ChangeAndPropagate(<<v>>, dom) /\ UNCHANGED constraints
  BY DEF Branch
<1>2. d \in Domain
  BY SizeAssumption DEF Domain, Value
<1>3. domains \in Domains /\ saved \in Seq(Domains) /\ TypeOK /\ QueueIntegrity
  BY DEF IInv, TypeOK
<1>4. /\ saved' \in Seq(Domains)
      /\ \A i \in DOMAIN saved' : saved'[i] = domains \/ (i \in DOMAIN saved /\ saved'[i] = saved[i])
  BY <1>1, <1>3
<1>5. \A i \in DOMAIN saved', c \in CId : AtFixedPoint(constraints[c], saved'[i])
  BY <1>1, <1>4 DEF IInv, QuietIsFixed, FixedPointOnSuccess
<1>6. /\ <<v>> \in Seq(Variable) /\ dom \in Domains
      /\ \A c \in CId \ (queued \cup Woken(<<v>>)) : AtFixedPoint(constraints[c], dom)
  BY <1>1, <1>2, ClientChange
<1> HIDE DEF dom
<1> QED BY <1>1, <1>3, <1>4, <1>5, <1>6, ChangeKeepsIInv

LEMMA BoundIInv ==
  IInv /\ (\E v \in Variable, value \in Value : Bound(v, value)) => IInv'
<1> SUFFICES ASSUME IInv, NEW v \in Variable, NEW value \in Value, Bound(v, value)
             PROVE  IInv'
  OBVIOUS
<1> DEFINE d == [min |-> domains[v].min, max |-> value]
           dom == [domains EXCEPT ![v] = d]
<1>1. /\ status = "succeeded" /\ saved' = saved
      /\ ChangeAndPropagate(<<v>>, dom) /\ UNCHANGED constraints
      /\ value \in Interval(domains[v])
  BY DEF Bound
<1>2. /\ domains \in Domains /\ saved \in Seq(Domains) /\ TypeOK /\ QueueIntegrity
      /\ \A i \in DOMAIN saved, c \in CId : AtFixedPoint(constraints[c], saved[i])
  BY DEF IInv, TypeOK, QuietIsFixed
<1>3. d \in Domain
  BY <1>1, <1>2, SizeAssumption DEF Domains, Domain, Value, Interval
<1>4. /\ <<v>> \in Seq(Variable) /\ dom \in Domains
      /\ \A c \in CId \ (queued \cup Woken(<<v>>)) : AtFixedPoint(constraints[c], dom)
  BY <1>1, <1>3, ClientChange
<1> HIDE DEF dom
<1> QED BY <1>1, <1>2, <1>4, ChangeKeepsIInv

LEMMA RestoreIInv == IInv /\ Restore => IInv'
<1> SUFFICES ASSUME IInv, Restore PROVE IInv'
  OBVIOUS
<1>1. /\ saved # <<>> /\ domains' = saved[Len(saved)] /\ entry' = saved[Len(saved)]
      /\ saved' = SubSeq(saved, 1, Len(saved) - 1) /\ status' = "succeeded"
      /\ UNCHANGED <<constraints, worklist, queued>> /\ CId' = CId
  BY DEF Restore, Last, Front, CId
<1>2. saved \in Seq(Domains) /\ Len(saved) \in Nat \ {0} /\ DOMAIN saved = 1 .. Len(saved)
  BY <1>1 DEF IInv, TypeOK
<1>3. /\ saved' \in Seq(Domains)
      /\ \A i \in DOMAIN saved' : i \in DOMAIN saved /\ saved'[i] = saved[i]
  BY <1>1, <1>2
<1>4. Len(saved) \in DOMAIN saved /\ saved[Len(saved)] \in Domains
  BY <1>2
<1>5. TypeOK'
  BY <1>1, <1>3, <1>4 DEF IInv, TypeOK
<1>6. QueueIntegrity'
  BY <1>1 DEF IInv, QueueIntegrity
<1>7. QuietIsFixed' /\ FixedPointOnSuccess'
  BY <1>1, <1>3, <1>4 DEF IInv, QuietIsFixed, FixedPointOnSuccess
<1>8. OnlyNarrows'
  BY <1>1, <1>4, SizeAssumption DEF OnlyNarrows, Narrower, Domains, Domain, Value
<1>9. SolutionsKept'
  BY <1>1 DEF SolutionsKept, Solutions
<1> QED BY <1>5, <1>6, <1>7, <1>8, <1>9 DEF IInv

\* A stutter of the scheduler changes nothing IInv speaks of.
LEMMA StutterIInv == IInv /\ UNCHANGED vars => IInv'
BY DEF IInv, vars, TypeOK, QueueIntegrity, QuietIsFixed, FixedPointOnSuccess,
       OnlyNarrows, SolutionsKept, Solutions, CId

\* A step of any client leaves IInv true.
LEMMA StepIInv == IInv /\ [Next]_vars => IInv'
BY InitialPropagateIInv, EvaluateConstraintIInv, PropagateDoneIInv,
   BranchIInv, BoundIInv, RestoreIInv, StutterIInv
   DEF Next, PropagateStep

\* IInv is an inductive invariant of the scheduler.
THEOREM InductiveInvariant == Spec => []IInv
<1> QED BY InitIInv, StepIInv, PTL DEF Spec

\* Every domain stays a non-empty interval of the model's values, and every
\* entry of the worklist the number of a constraint.
THEOREM TypeCorrect == Spec => []TypeOK
<1>1. IInv => TypeOK
  BY DEF IInv
<1> QED BY InductiveInvariant, <1>1, PTL

\* Scheduler::worklist and Scheduler::queued always agree, after a failed
\* propagate() too.
THEOREM QueueIntegrityHolds == Spec => []QueueIntegrity
<1>1. IInv => QueueIntegrity
  BY DEF IInv
<1> QED BY InductiveInvariant, <1>1, PTL

\* When propagate() returns true the domains are a fixed point of every
\* constraint (Scheduler.cpp:24-68).
THEOREM FixedPointHolds == Spec => []FixedPointOnSuccess
<1>1. IInv => FixedPointOnSuccess
  BY DEF IInv
<1> QED BY InductiveInvariant, <1>1, PTL

\* propagate() keeps every solution, and returns false only if there is none.
THEOREM SolutionsAreKept == Spec => []SolutionsKept
<1>1. IInv => SolutionsKept
  BY DEF IInv
<1> QED BY InductiveInvariant, <1>1, PTL

-----------------------------------------------------------------------------
(* The scheduler implements Propagation: what the client sees of domains   *)
(* moves only when propagate() returns.                                    *)

\* The definitions Propagation takes from ConstraintSystem are the same here.
LEMMA SameDefinitions ==
  /\ Contract!Variable = Variable
  /\ Contract!Value = Value
  /\ Contract!Domains = Domains
  /\ \A d : Contract!Interval(d) = Interval(d)
  /\ \A e, dom : Contract!Narrower(e, dom) = Narrower(e, dom)
  /\ \A c, dom : Contract!AtFixedPoint(c, dom) = AtFixedPoint(c, dom)
  /\ \A system, dom : Contract!Solutions(system, dom) = Solutions(system, dom)
<1>1. /\ Contract!Variable = Variable
      /\ Contract!Value = Value
      /\ Contract!Domains = Domains
      /\ Contract!Assignment = Assignment
  BY DEF Contract!Variable, Variable, Contract!Value, Value, Contract!Domains,
         Domains, Contract!Domain, Domain, Contract!Assignment, Assignment
<1>2. \A d : Contract!Interval(d) = Interval(d)
  BY DEF Contract!Interval, Interval
<1>3. \A e, dom : Contract!Narrower(e, dom) = Narrower(e, dom)
  BY <1>1 DEF Contract!Narrower, Narrower
<1>4. \A c, dom : Contract!AtFixedPoint(c, dom) = AtFixedPoint(c, dom)
  BY DEF Contract!AtFixedPoint, AtFixedPoint
<1>5. \A a, dom : Contract!InDomains(a, dom) = InDomains(a, dom)
  BY <1>1, <1>2 DEF Contract!InDomains, InDomains
<1>6. \A system, dom : Contract!Solutions(system, dom) = Solutions(system, dom)
  BY <1>1, <1>5 DEF Contract!Solutions, Solutions
<1> QED BY <1>1, <1>2, <1>3, <1>4, <1>6

LEMMA InitImplements == Init => Contract!Init
BY DEF Init, Contract!Init

LEMMA InitialPropagateImplements == InitialPropagate => Contract!Start
BY DEF InitialPropagate, ChangeAndPropagate, Contract!Start

\* A call that succeeds is a stutter, one that fails is the return of false.
LEMMA EvaluateImplements ==
  IInv /\ IInv' /\ EvaluateConstraint => UNCHANGED Contract!vars \/ Contract!ReturnFalse
<1> SUFFICES ASSUME IInv, IInv', EvaluateConstraint
             PROVE  UNCHANGED Contract!vars \/ Contract!ReturnFalse
  OBVIOUS
<1>1. /\ status = "propagating" /\ status' \in {"propagating", "failed"}
      /\ UNCHANGED <<constraints, saved, entry>>
  BY DEF EvaluateConstraint
<1>2. CASE status' = "propagating"
  BY <1>1, <1>2 DEF Contract!vars
<1>3. CASE status' = "failed"
  <2>1. Solutions(constraints, entry) = {}
    <3>1. Solutions(constraints', entry') = {}
      BY <1>3 DEF IInv, SolutionsKept
    <3> QED BY <1>1, <3>1
  <2>2. domains' \in Domains /\ Narrower(domains', entry)
    BY <1>1 DEF IInv, TypeOK, OnlyNarrows
  <2> QED BY <1>1, <1>3, <2>1, <2>2, SameDefinitions DEF Contract!ReturnFalse
<1> QED BY <1>1, <1>2, <1>3

LEMMA PropagateDoneImplements ==
  IInv /\ IInv' /\ PropagateDone => Contract!ReturnTrue
<1> SUFFICES ASSUME IInv, IInv', PropagateDone PROVE Contract!ReturnTrue
  OBVIOUS
<1>1. /\ status = "propagating" /\ status' = "succeeded"
      /\ UNCHANGED <<constraints, domains, saved, entry>> /\ CId' = CId
  BY DEF PropagateDone, CId
<1>2. domains' \in Domains /\ Narrower(domains', entry)
  BY <1>1 DEF IInv, TypeOK, OnlyNarrows
<1>3. \A c \in DOMAIN constraints : AtFixedPoint(constraints[c], domains')
  BY <1>1 DEF IInv, FixedPointOnSuccess, CId
<1>4. Solutions(constraints, entry) \subseteq Solutions(constraints, domains')
  BY <1>1 DEF IInv, SolutionsKept, Solutions
<1> QED BY <1>1, <1>2, <1>3, <1>4, SameDefinitions DEF Contract!ReturnTrue

LEMMA ClientImplements ==
  ASSUME NEW v \in Variable, NEW value \in Value
  PROVE  /\ Branch(v, value) => Contract!Branch(v, value)
         /\ Bound(v, value) => Contract!Bound(v, value)
<1>1. Branch(v, value) => Contract!Branch(v, value)
  BY SameDefinitions DEF Branch, ChangeAndPropagate, Contract!Branch
<1>2. Bound(v, value) => Contract!Bound(v, value)
  BY SameDefinitions DEF Bound, ChangeAndPropagate, Contract!Bound
<1> QED BY <1>1, <1>2

LEMMA RestoreImplements == Restore => Contract!Restore
BY DEF Restore, Last, Front, Contract!Restore

\* Every step of the scheduler is a step of the contract or hidden from it.
LEMMA StepImplements == IInv /\ IInv' /\ [Next]_vars => [Contract!Next]_(Contract!vars)
<1> SUFFICES ASSUME IInv, IInv', [Next]_vars PROVE [Contract!Next]_(Contract!vars)
  OBVIOUS
<1>1. CASE InitialPropagate
  BY <1>1, InitialPropagateImplements DEF Contract!Next
<1>2. CASE EvaluateConstraint
  BY <1>2, EvaluateImplements DEF Contract!Next
<1>3. CASE PropagateDone
  BY <1>3, PropagateDoneImplements DEF Contract!Next
<1>4. CASE Restore
  BY <1>4, RestoreImplements DEF Contract!Next
<1>5. CASE \E v \in Variable, value \in Value : Branch(v, value) \/ Bound(v, value)
  BY <1>5, ClientImplements, SameDefinitions DEF Contract!Next
<1>6. CASE UNCHANGED vars
  BY <1>6 DEF vars, Contract!vars
<1> QED BY <1>1, <1>2, <1>3, <1>4, <1>5, <1>6 DEF Next, PropagateStep

\* To Model::minimize, a propagate() call is one step to a common fixed point
\* that keeps every solution, or the answer that there is none.
THEOREM ContractImplemented == Spec => ImplementsContract
<1> QED BY InitImplements, StepImplements, InductiveInvariant, PTL
       DEF Spec, Contract!Spec, ImplementsContract

=============================================================================
