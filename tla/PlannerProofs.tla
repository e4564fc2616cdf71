---------------------------- MODULE PlannerProofs ----------------------------
(***************************************************************************)
(* The convolution planner.                                                *)
(*                                                                         *)
(* That the memo tables of a planning cache hold what their functions      *)
(* return, and that a plan depends on the layer alone, for any layers and  *)
(* any number of calls: not on the calls before, on the cache, or on the   *)
(* order in which jobs run and end.  A job raises the bound of a search    *)
(* step by step until there is a plan, so that what it finds is what the   *)
(* bounds that can be reached from the first lead to.                      *)
(*                                                                         *)
(* That parallel convolutions get tiles of their own, for any number of    *)
(* tiles, of convolutions and of tiles to an exchange bus, and whatever    *)
(* the planner makes of the tiles it is offered.                           *)
(***************************************************************************)
EXTENDS PlanCache, MultiPlan, WellFoundedInduction, FiniteSetTheorems, TLAPS

-----------------------------------------------------------------------------
(* The planning cache *)

\* A job has the fields that Memo's steps use, and there are two caches.
Shape ==
  /\ \A key \in DOMAIN jobs : {"pc", "at", "estimate"} \subseteq DOMAIN jobs[key]
  /\ DOMAIN estimates = Cache
  /\ request # Idle => "cache" \in DOMAIN request /\ request.cache \in Cache
  /\ request = Idle => jobs = <<>>

Inv == Shape /\ EstimatesExact

\* A job whose pc is changed has that pc, and the fields it had.
LEMMA WithPc ==
  ASSUME NEW update, NEW job, "pc" \in DOMAIN update,
         {"pc", "at", "estimate"} \subseteq DOMAIN job
  PROVE  /\ With(job, update).pc = update.pc
         /\ {"pc", "at", "estimate"} \subseteq DOMAIN With(job, update)
PROOF BY DEF With

\* Whatever the planner does with the cost of a search, it next looks an
\* estimate up or ends.
LEMMA PlannerGoesOn ==
  ASSUME NEW job, NEW key, NEW c, {"pc", "at", "estimate"} \subseteq DOMAIN job
  PROVE  /\ Continue(job, key, c).pc # "insert"
         /\ {"pc", "at", "estimate"} \subseteq DOMAIN Continue(job, key, c)
PROOF
<1> DEFINE Good(j) == j.pc # "insert" /\ {"pc", "at", "estimate"} \subseteq DOMAIN j
<1>u. ASSUME NEW update, "pc" \in DOMAIN update, update.pc # "insert"
      PROVE  Good(With(job, update))
  BY <1>u, WithPc
<1>1. ASSUME NEW cost PROVE Good(Finished(job, key, cost))
  <2> DEFINE update == [cost |-> cost, output |-> Output(key, cost),
                        pc |-> IF IsSet(Last(Output(key, cost)).plan.cost)
                                 THEN "done" ELSE "failed"]
  <2>1. "pc" \in DOMAIN update /\ update.pc # "insert"
    OBVIOUS
  <2> HIDE DEF Good, update
  <2>2. Good(With(job, update))
    BY <2>1, <1>u
  <2> QED BY <2>2 DEF Finished, update
<1>2. ASSUME NEW cost, NEW n PROVE Good(MinimizeMemoryFrom(job, key, cost, n))
  <2> DEFINE left == {i \in DOMAIN Problems(key) : i >= n /\ ~ IsSet(cost[Problems(key)[i]])}
             update == [cost |-> cost, pc |-> "find", round |-> "memory",
                        at |-> CHOOSE i \in left : \A j \in left : i <= j,
                        bound |-> IF HasMemBound THEN MemBound * 2 ELSE MaxCost]
  <2>1. "pc" \in DOMAIN update /\ update.pc # "insert"
    OBVIOUS
  <2>2. MinimizeMemoryFrom(job, key, cost, n)
          = IF left = {} THEN Finished(job, key, cost) ELSE With(job, update)
    BY DEF MinimizeMemoryFrom
  <2> HIDE DEF Good, update, left
  <2>3. Good(With(job, update))
    BY <2>1, <1>u
  <2> QED BY <1>1, <2>2, <2>3
<1>3. Good(Continue(job, key, c))
  <2> DEFINE problems == Problems(key)
             cost == [job.cost EXCEPT ![problems[job.at]] = c]
             next == [cost |-> cost, pc |-> "find", at |-> job.at + 1]
             again == [pc |-> "find",
                       bound |-> IF job.bound < BytesPerTile * 2
                                   THEN job.bound * 2 ELSE MaxCost]
  <2>1. /\ "pc" \in DOMAIN next /\ next.pc # "insert"
        /\ "pc" \in DOMAIN again /\ again.pc # "insert"
    OBVIOUS
  <2>2. Continue(job, key, c) \in
          {With(job, next), Finished(job, key, cost), MinimizeMemoryFrom(job, key, cost, 1),
           With(job, again), MinimizeMemoryFrom(job, key, cost, job.at + 1)}
    BY DEF Continue
  <2> HIDE DEF Good, next, again, cost
  <2>3. Good(With(job, next)) /\ Good(With(job, again))
    BY <2>1, <1>u
  <2>4. /\ Good(Finished(job, key, cost))
        /\ Good(MinimizeMemoryFrom(job, key, cost, 1))
        /\ Good(MinimizeMemoryFrom(job, key, cost, job.at + 1))
    BY <1>1, <1>2
  <2> QED BY <2>2, <2>3, <2>4
<1> QED BY <1>3

LEMMA InitExact == Init => Inv
PROOF BY DEF Init, Inv, Shape, EstimatesExact, Idle, Cache

\* A job that goes on after a search satisfies what is asked of a job.
LEMMA SearchGoesOn ==
  ASSUME Inv, NEW key \in DOMAIN jobs, NEW n, UNCHANGED layer,
         jobs' = [jobs EXCEPT ![key] = SearchWith(key, n)]
  PROVE  /\ DOMAIN jobs' = DOMAIN jobs
         /\ \A k \in DOMAIN jobs' :
              /\ {"pc", "at", "estimate"} \subseteq DOMAIN jobs'[k]
              /\ jobs'[k].pc = "insert" => jobs'[k].estimate = layer.estimate[ShapeAt(k)']
PROOF
<1>1. {"pc", "at", "estimate"} \subseteq DOMAIN jobs[key]
  BY DEF Inv, Shape
<1>2. /\ SearchWith(key, n).pc # "insert"
      /\ {"pc", "at", "estimate"} \subseteq DOMAIN SearchWith(key, n)
  BY <1>1, PlannerGoesOn DEF SearchWith
<1>3. ASSUME NEW k \in DOMAIN jobs, k # key PROVE ShapeAt(k)' = ShapeAt(k)
  BY <1>3 DEF ShapeAt
<1> QED BY <1>2, <1>3 DEF Inv, Shape, EstimatesExact

LEMMA FindKeeps ==
  ASSUME Inv, NEW key \in DOMAIN jobs, FindEstimate(key)
  PROVE  Inv'
PROOF
<1>1. PICK n : jobs' = [jobs EXCEPT ![key] = SearchWith(key, n)]
  BY DEF FindEstimate
<1>2. UNCHANGED <<layer, request, estimates>>
  BY DEF FindEstimate
<1>3. /\ DOMAIN jobs' = DOMAIN jobs
      /\ \A k \in DOMAIN jobs' :
           /\ {"pc", "at", "estimate"} \subseteq DOMAIN jobs'[k]
           /\ jobs'[k].pc = "insert" => jobs'[k].estimate = layer.estimate[ShapeAt(k)']
  BY <1>1, <1>2, SearchGoesOn
<1>4. request # Idle
  BY DEF Inv, Shape
<1> QED BY <1>2, <1>3, <1>4 DEF Inv, Shape, EstimatesExact

LEMMA MissKeeps ==
  ASSUME Inv, NEW key \in DOMAIN jobs, MissEstimate(key)
  PROVE  Inv'
PROOF
<1> DEFINE job == With(jobs[key], [pc |-> "insert",
                                   estimate |-> layer.estimate[ShapeAt(key)]])
<1>1. jobs' = [jobs EXCEPT ![key] = job] /\ UNCHANGED <<layer, request, estimates>>
  BY DEF MissEstimate
<1>2. /\ DOMAIN job = DOMAIN jobs[key]
      /\ job.estimate = layer.estimate[ShapeAt(key)]
      /\ job.at = jobs[key].at
  BY DEF With, Inv, Shape
<1> HIDE DEF job
<1>3. \A k \in DOMAIN jobs : jobs'[k].at = jobs[k].at
  BY <1>1, <1>2
<1>4. \A k \in DOMAIN jobs : ShapeAt(k)' = ShapeAt(k)
  BY <1>3 DEF ShapeAt
<1>5. request # Idle
  BY DEF Inv, Shape
<1> QED BY <1>1, <1>2, <1>4, <1>5 DEF Inv, Shape, EstimatesExact

LEMMA InsertKeeps ==
  ASSUME Inv, NEW key \in DOMAIN jobs, InsertEstimate(key)
  PROVE  Inv'
PROOF
<1> DEFINE shape == ShapeAt(key)
           value == jobs[key].estimate
<1>1. /\ jobs' = [jobs EXCEPT ![key] = SearchWith(key, value)]
      /\ estimates' = [estimates EXCEPT ![request.cache] =
                         Inserted(estimates[request.cache], shape, value)]
      /\ UNCHANGED <<layer, request>>
  BY DEF InsertEstimate
<1>2. value = layer.estimate[shape]
  BY DEF InsertEstimate, Inv, EstimatesExact
<1>3. /\ DOMAIN jobs' = DOMAIN jobs
      /\ \A k \in DOMAIN jobs' :
           /\ {"pc", "at", "estimate"} \subseteq DOMAIN jobs'[k]
           /\ jobs'[k].pc = "insert" => jobs'[k].estimate = layer.estimate[ShapeAt(k)']
  BY <1>1, SearchGoesOn
<1>4. request # Idle
  BY DEF Inv, Shape
<1> HIDE DEF shape, value
<1>5. ASSUME NEW c \in Cache, NEW p \in DOMAIN estimates'[c]
      PROVE  estimates'[c][p] = layer.estimate[p]
  <2>1. CASE c = request.cache
    <3>1. estimates'[c] = Inserted(estimates[c], shape, value)
      BY <1>1, <2>1 DEF Inv, Shape
    <3>2. \A x \in DOMAIN estimates[c] : estimates[c][x] = layer.estimate[x]
      BY DEF Inv, EstimatesExact
    <3> QED BY <1>2, <1>5, <3>1, <3>2 DEF Inserted
  <2>2. CASE c # request.cache
    BY <1>1, <1>5, <2>2 DEF Inv, Shape, EstimatesExact
  <2> QED BY <2>1, <2>2
<1> QED BY <1>1, <1>3, <1>4, <1>5 DEF Inv, Shape, EstimatesExact

\* The client's calls and the plan cache do not touch the memo tables but to
\* begin with empty ones.
LEMMA CallsKeep ==
  ASSUME Inv,
         \/ \E passes \in (SUBSET Pass) \ {{}} : Preplan(passes)
         \/ \E pass \in Pass, cache \in Cache : GetPlan(pass, cache)
         \/ FindPlan \/ MissPlan \/ Commit \/ Throw
  PROVE  Inv'
PROOF
<1> USE DEF Inv, Shape, EstimatesExact
<1>1. ASSUME NEW passes \in (SUBSET Pass) \ {{}}, Preplan(passes) PROVE Inv'
  <2>1. UNCHANGED <<layer, estimates>> /\ request' = [call |-> "preplan", cache |-> "caller"]
    BY <1>1 DEF Preplan
  <2>2. \A key \in DOMAIN jobs' : jobs'[key] = NewJob(key)
    BY <1>1 DEF Preplan
  <2>3. \A key : NewJob(key).pc = "find" /\ {"pc", "at", "estimate"} \subseteq DOMAIN NewJob(key)
    BY DEF NewJob
  <2>4. request' # Idle /\ "cache" \in DOMAIN request' /\ request'.cache \in Cache
    BY <2>1 DEF Idle, Cache
  <2> QED BY <2>1, <2>2, <2>3, <2>4
<1>2. ASSUME NEW pass \in Pass, NEW cache \in Cache, GetPlan(pass, cache) PROVE Inv'
  <2>1. /\ UNCHANGED <<layer, estimates, jobs>> /\ jobs = <<>>
        /\ request' = [call |-> "getPlan", cache |-> cache, pass |-> pass,
                       key |-> IF pass = "FWD" THEN Given("FWD") ELSE KeyOf("FWD")]
    BY <1>2 DEF GetPlan
  <2>2. request' # Idle /\ "cache" \in DOMAIN request' /\ request'.cache \in Cache
    BY <2>1 DEF Idle
  <2> QED BY <2>1, <2>2
<1>r. ASSUME NEW plan, Rest(plan), request # Idle
      PROVE  request' # Idle => "cache" \in DOMAIN request' /\ request'.cache \in Cache
  BY <1>r DEF Rest
<1>3. ASSUME FindPlan PROVE Inv'
  <2>1. request # Idle /\ UNCHANGED <<layer, estimates, jobs>> /\ jobs = <<>>
    BY <1>3 DEF FindPlan, Idle
  <2>2. Rest(plans["caller"][request.key])
    BY <1>3 DEF FindPlan
  <2>3. request' # Idle => "cache" \in DOMAIN request' /\ request'.cache \in Cache
    BY <2>1, <2>2, <1>r
  <2> QED BY <2>1, <2>3
<1>4. ASSUME MissPlan PROVE Inv'
  <2>1. /\ request # Idle /\ UNCHANGED <<layer, request>>
        /\ estimates' = [estimates EXCEPT !["temp"] = <<>>]
        /\ jobs' = [key \in {request.key} |-> NewJob(key)]
    BY <1>4 DEF MissPlan, Idle
  <2>2. \A key : NewJob(key).pc = "find" /\ {"pc", "at", "estimate"} \subseteq DOMAIN NewJob(key)
    BY DEF NewJob
  <2>3. \A c \in Cache : \A p \in DOMAIN estimates'[c] :
          p \in DOMAIN estimates[c] /\ estimates'[c][p] = estimates[c][p]
    BY <2>1
  <2> QED BY <2>1, <2>2, <2>3
<1>5. ASSUME Commit PROVE Inv'
  <2>1. UNCHANGED <<layer, estimates>> /\ jobs' = <<>> /\ request # Idle
    BY <1>5 DEF Commit
  <2>2. request' = Idle \/ Rest(Last(jobs[request.key].output).plan)
    BY <1>5 DEF Commit
  <2>3. request' # Idle => "cache" \in DOMAIN request' /\ request'.cache \in Cache
    BY <2>1, <2>2, <1>r
  <2> QED BY <2>1, <2>3
<1>6. ASSUME Throw PROVE Inv'
  BY <1>6 DEF Throw
<1> QED BY <1>1, <1>2, <1>3, <1>4, <1>5, <1>6

\* Every memo table of a planning cache holds what its function returns: threads
\* that miss at the same time insert the same value, and what one of them finds
\* is the value it would have computed (Memoize.hpp:20-35).
THEOREM EstimatesAreExact == Spec => []EstimatesExact
PROOF
<1>1. Init => Inv
  BY InitExact
<1>2. Inv /\ [Next]_vars => Inv'
  <2> SUFFICES ASSUME Inv, [Next]_vars PROVE Inv'
    OBVIOUS
  <2>1. ASSUME NEW key \in DOMAIN jobs, PlannerStep(key) PROVE Inv'
    BY <2>1, FindKeeps, MissKeeps, InsertKeeps DEF PlannerStep
  <2>2. CASE UNCHANGED vars
    <3>1. \A key : ShapeAt(key)' = ShapeAt(key)
      BY <2>2 DEF vars, ShapeAt
    <3> QED BY <2>2, <3>1 DEF vars, Inv, Shape, EstimatesExact
  <2> QED BY <2>1, <2>2, CallsKeep DEF Next
<1>3. Inv => EstimatesExact
  BY DEF Inv
<1> QED BY <1>1, <1>2, <1>3, PTL DEF Spec


-----------------------------------------------------------------------------
(* Numbers reached by steps from a first one *)

LEMMA Smallest ==
  ASSUME NEW T, T \subseteq Nat, T # {}
  PROVE  \E x \in T : \A y \in T : x <= y
PROOF
<1> DEFINE R == OpToRel(<, Nat)
<1>1. IsWellFoundedOn(R, Nat)
  BY NatLessThanWellFounded
<1>2. \A x, y \in Nat : x < y => <<x, y>> \in R
  BY DEF OpToRel
<1> HIDE DEF R
<1>3. PICK x \in T : \A y \in T : ~ (<<y, x>> \in R)
  BY <1>1, WFMin
<1>4. ASSUME NEW y \in T PROVE x <= y
  <2>1. x \in Nat /\ y \in Nat /\ ~ (y < x)
    BY <1>2, <1>3
  <2> QED BY <2>1
<1> QED BY <1>4

Closed(go, S) == \A z \in S : go[z] \in S

\* The least set that holds n and is closed
Reach(go, n) == {y \in Nat : \A S \in SUBSET Nat : n \in S /\ Closed(go, S) => y \in S}

\* Steps that end, end at one number.
LEMMA OneEnd ==
  ASSUME NEW go \in [Nat -> Nat], NEW x \in Nat,
         NEW d \in Reach(go, x), NEW e \in Reach(go, x), go[d] = d, go[e] = e
  PROVE  d = e
PROOF
<1>1. \A n \in Nat : n \in Reach(go, n)
  BY DEF Reach
<1>2. ASSUME NEW n \in Nat, NEW y \in Reach(go, n), y # n PROVE y \in Reach(go, go[n])
  <2> SUFFICES ASSUME NEW S \in SUBSET Nat, go[n] \in S, Closed(go, S)
               PROVE  y \in S
    BY <1>2 DEF Reach
  <2>1. Closed(go, S \cup {n})
    BY DEF Closed
  <2>2. S \cup {n} \in SUBSET Nat
    OBVIOUS
  <2>3. y \in S \cup {n}
    BY <2>1, <2>2 DEF Reach
  <2> QED BY <1>2, <2>3
<1> DEFINE C == {n \in Nat : d \in Reach(go, n)}
<1>3. x \in C
  OBVIOUS
<1>4. Closed(go, C)
  <2> SUFFICES ASSUME NEW z \in C PROVE go[z] \in C
    BY DEF Closed
  <2>1. go[z] \in Nat
    OBVIOUS
  <2>2. CASE z = d
    BY <1>1, <2>1, <2>2
  <2>3. CASE z # d
    BY <1>2, <2>1, <2>3
  <2> QED BY <2>2, <2>3
<1>5. e \in C
  BY <1>3, <1>4 DEF Reach
<1>6. Closed(go, {e})
  BY DEF Closed
<1>7. \A y \in Reach(go, e) : y \in {e}
  BY <1>6 DEF Reach
<1> QED BY <1>5, <1>7

LEMMA ReachFurther ==
  ASSUME NEW go \in [Nat -> Nat], NEW x \in Nat
  PROVE  /\ x \in Reach(go, x)
         /\ \A y \in Reach(go, x) : y \in Nat /\ go[y] \in Reach(go, x)
PROOF BY DEF Reach, Closed

-----------------------------------------------------------------------------
(* Searches *)

\* The search for a problem with the estimate of its shape
CostAt(p, bound) == Search(p, bound, layer.estimate[ShapeOf(p)])

CyclesOf(p, c) == c.units * layer.estimate[ShapeOf(p)]

\* What is known of a layer
LEMMA LayerTyped ==
  ASSUME layer \in Layers
  PROVE  /\ layer.available \in Nat /\ layer.available < MaxCost
         /\ MaxCost \in Nat \ {0} /\ BytesPerTile \in Nat
         /\ MemBound \in Nat /\ MemBound <= MaxCost
         /\ HasMemBound => MemBound < MaxCost
         /\ \A p \in Pass : layer.estimate[p] \in Nat
         /\ \A p \in Problem : ShapeOf(p) \in Pass
         /\ \A p \in Problem : \A c \in layer.candidates[p] :
              /\ c.units \in Nat /\ c.temp \in Nat /\ c.temp < MaxCost
              /\ CyclesOf(p, c) \in Nat /\ 3 * CyclesOf(p, c) < MaxCost
PROOF
<1>1. layer \in Layer /\ CostsFit(layer)
  BY LayersAssumption
<1>2. MaxCost \in Nat \ {0} /\ BytesPerTile \in Nat
  BY BoundsAssumption
<1>3. layer.available \in Nat /\ layer.available < MaxCost
  BY <1>1 DEF Layer, CostsFit
<1>4. \A p \in Pass : layer.estimate[p] \in Nat
  BY <1>1 DEF Layer
<1>5. \A p \in Problem : ShapeOf(p) \in Pass
  BY DEF ShapeOf, Problem, Pass
<1>6. ASSUME NEW p \in Problem, NEW c \in layer.candidates[p]
      PROVE  /\ c.units \in Nat /\ c.temp \in Nat /\ c.temp < MaxCost
             /\ CyclesOf(p, c) \in Nat /\ 3 * CyclesOf(p, c) < MaxCost
  <2>1. c \in Candidate
    BY <1>1 DEF Layer
  <2>2. c.units \in Nat /\ c.temp \in Nat
    BY <2>1 DEF Candidate
  <2>3. layer.estimate[ShapeOf(p)] \in Nat
    BY <1>4, <1>5
  <2>4. CyclesOf(p, c) \in Nat
    BY <2>2, <2>3 DEF CyclesOf
  <2> QED BY <1>1, <2>2, <2>4 DEF CostsFit, CyclesOf
<1> QED BY <1>2, <1>3, <1>4, <1>5, <1>6 DEF MemBound, HasMemBound

\* A search finds the fewest cycles among the candidates that fit, if one does.
LEMMA SearchRight ==
  ASSUME layer \in Layers, NEW p \in Problem, NEW bound \in Nat
  PROVE  LET c == CostAt(p, bound)
         IN /\ c \in Cost
            /\ IsSet(c) => \E d \in layer.candidates[p] :
                 d.temp <= bound /\ c = [cycles |-> CyclesOf(p, d), temp |-> d.temp]
            /\ \A d \in layer.candidates[p] :
                 d.temp <= bound => IsSet(c) /\ c.cycles <= CyclesOf(p, d)
PROOF
<1> DEFINE fits == {e \in layer.candidates[p] : e.temp <= bound}
           fitting == {[cycles |-> CyclesOf(p, d), temp |-> d.temp] : d \in fits}
           Best(c) == \A d \in fitting : c.cycles < d.cycles
                                         \/ (c.cycles = d.cycles /\ c.temp <= d.temp)
<1>1. CostAt(p, bound) = IF fitting = {} THEN Unset ELSE CHOOSE c \in fitting : Best(c)
  BY DEF CostAt, Search, Cheapest, CyclesOf
<1>2. /\ MaxCost \in Nat \ {0}
      /\ \A d \in layer.candidates[p] :
           /\ d.temp \in Nat /\ d.temp < MaxCost
           /\ CyclesOf(p, d) \in Nat /\ 3 * CyclesOf(p, d) < MaxCost
  BY LayerTyped
<1>3. ASSUME NEW c \in fitting
      PROVE  /\ c.cycles \in Nat /\ c.temp \in Nat /\ c \in Cost /\ IsSet(c)
             /\ \E d \in fits : c = [cycles |-> CyclesOf(p, d), temp |-> d.temp]
  <2>1. PICK d \in fits : c = [cycles |-> CyclesOf(p, d), temp |-> d.temp]
    OBVIOUS
  <2>2. c.cycles = CyclesOf(p, d) /\ c.temp = d.temp
    BY <2>1
  <2>3. c.cycles \in 0 .. MaxCost /\ c.temp \in 0 .. MaxCost /\ c.temp # MaxCost
    BY <1>2, <2>2
  <2>4. c \in Cost
    BY <2>1, <2>2, <2>3 DEF Cost
  <2>5. IsSet(c)
    BY <2>3 DEF IsSet, Unset
  <2> QED BY <1>2, <2>1, <2>2, <2>4, <2>5
<1>4. Unset \in Cost /\ ~ IsSet(Unset)
  BY <1>2 DEF Unset, Cost, IsSet
<1>5. CASE fitting = {}
  <2>1. fits = {}
    BY <1>5
  <2> QED BY <1>1, <1>4, <1>5, <2>1
<1>6. CASE fitting # {}
  <2> DEFINE cycles == {c.cycles : c \in fitting}
  <2>1. PICK n \in cycles : \A m \in cycles : n <= m
    <3>1. cycles # {} /\ cycles \subseteq Nat
      BY <1>3, <1>6
    <3> QED BY <3>1, Smallest
  <2> DEFINE temps == {c.temp : c \in {d \in fitting : d.cycles = n}}
  <2>2. PICK t \in temps : \A u \in temps : t <= u
    <3>1. temps # {} /\ temps \subseteq Nat
      BY <1>3, <2>1
    <3> QED BY <3>1, Smallest
  <2>3. PICK c \in fitting : c.cycles = n /\ c.temp = t
    BY <2>2
  <2>4. Best(c)
    <3> SUFFICES ASSUME NEW d \in fitting
                 PROVE  c.cycles < d.cycles \/ (c.cycles = d.cycles /\ c.temp <= d.temp)
      OBVIOUS
    <3>1. n <= d.cycles /\ n \in Nat /\ d.cycles \in Nat
      BY <1>3, <2>1, <2>3
    <3>2. d.cycles = n => t <= d.temp
      BY <2>2
    <3> QED BY <2>3, <3>1, <3>2
  <2>5. CostAt(p, bound) \in fitting /\ Best(CostAt(p, bound))
    <3> HIDE DEF Best, fitting
    <3> QED BY <1>1, <1>6, <2>4
  <2>6. \A d \in fits : CostAt(p, bound).cycles <= CyclesOf(p, d)
    <3> SUFFICES ASSUME NEW d \in fits PROVE CostAt(p, bound).cycles <= CyclesOf(p, d)
      OBVIOUS
    <3>1. [cycles |-> CyclesOf(p, d), temp |-> d.temp] \in fitting
      OBVIOUS
    <3>2. CyclesOf(p, d) \in Nat /\ CostAt(p, bound).cycles \in Nat
      BY <1>2, <1>3, <2>5
    <3> QED BY <2>5, <3>1, <3>2
  <2>7. /\ CostAt(p, bound) \in Cost /\ IsSet(CostAt(p, bound))
        /\ \E d \in fits : CostAt(p, bound) = [cycles |-> CyclesOf(p, d), temp |-> d.temp]
    BY <1>3, <2>5
  <2> QED BY <2>6, <2>7
<1> QED BY <1>5, <1>6

-----------------------------------------------------------------------------
(* What a job ends with, said without the steps it takes *)

\* A search for memory goes on with a higher bound until there is a plan.
NextBound(b) == IF b < BytesPerTile * 2 THEN b * 2 ELSE MaxCost
Ends(p, b) == IsSet(CostAt(p, b)) \/ b = MaxCost
Raised(p) == [b \in Nat |-> IF Ends(p, b) THEN b ELSE NextBound(b)]
FirstBound == IF HasMemBound THEN MemBound * 2 ELSE MaxCost
Bounds(p) == Reach(Raised(p), FirstBound)

\* What the searches of the two rounds find
CyclesCost(p) == IF HasMemBound THEN CostAt(p, MemBound) ELSE Unset
EndBounds(p) == {b \in Bounds(p) : Ends(p, b)}
MemoryCost(p) ==
  IF IsSet(CyclesCost(p)) THEN CyclesCost(p)
  ELSE CostAt(p, CHOOSE b \in EndBounds(p) : TRUE)

\* The problems searched before the one at an index
Before(key, at) == {Problems(key)[i] : i \in {j \in DOMAIN Problems(key) : j < at}}
CyclesCosts(key, at) ==
  [p \in Problem |-> IF p \in Before(key, at) THEN CyclesCost(p) ELSE Unset]
MemoryCosts(key, at) ==
  [p \in Problem |-> IF p \in Before(key, at) THEN MemoryCost(p)
                     ELSE IF p \in Before(key, 5) THEN CyclesCost(p) ELSE Unset]

MetByCycles(key) == HasMemBound /\ Met(key, CyclesCosts(key, 5))
FinalCost(key) == IF MetByCycles(key) THEN CyclesCosts(key, 5) ELSE MemoryCosts(key, 5)
FinalOutput(key) == Output(key, FinalCost(key))
FinalPlan(key) == Last(FinalOutput(key)).plan

\* A job has found what it is to find so far.
Searching(key, job) ==
  /\ job.at \in DOMAIN Problems(key)
  /\ job.round = "cycles" =>
       /\ HasMemBound /\ job.bound = MemBound
       /\ job.cost = CyclesCosts(key, job.at)
  /\ job.round = "memory" =>
       /\ ~ MetByCycles(key) /\ job.cost = MemoryCosts(key, job.at)
       /\ ~ IsSet(CyclesCost(Problems(key)[job.at]))
       /\ job.bound \in Bounds(Problems(key)[job.at])
Ended(key, job) ==
  /\ FinalCost(key) \in [Problem -> Cost]
  /\ job.output = FinalOutput(key)
  /\ job.pc = "done" <=> IsSet(FinalPlan(key).cost)

JobRight(key, job) ==
  /\ job \in Job
  /\ job.pc \in {"find", "insert"} => Searching(key, job)
  /\ job.pc \in {"done", "failed"} => Ended(key, job)

-----------------------------------------------------------------------------
LEMMA ProblemsTyped ==
  ASSUME NEW key \in Key
  PROVE  /\ Problems(key) \in Seq(Problem) /\ Len(Problems(key)) \in 1 .. 4
         /\ DOMAIN Problems(key) = 1 .. Len(Problems(key))
         /\ \A i, j \in DOMAIN Problems(key) :
              Problems(key)[i] = Problems(key)[j] => i = j
PROOF
<1>1. key.pass \in Pass
  BY DEF Key
<1>2. CASE key.pass = "FWD"
  <2>1. Problems(key) = <<"joint", "FWD", "BWD", "WU">>
    BY <1>2 DEF Problems
  <2> QED BY <2>1 DEF Problem, Pass
<1>3. CASE key.pass # "FWD"
  <2>1. Problems(key) = <<key.pass>>
    BY <1>3 DEF Problems
  <2> QED BY <1>1, <2>1 DEF Problem
<1> QED BY <1>2, <1>3

LEMMA BoundsTyped ==
  ASSUME layer \in Layers, NEW p \in Problem
  PROVE  /\ Raised(p) \in [Nat -> Nat] /\ FirstBound \in Nat
         /\ FirstBound \in Bounds(p)
         /\ \A b \in Bounds(p) : b \in Nat
         /\ \A b \in Bounds(p) : ~ Ends(p, b) => NextBound(b) \in Bounds(p)
PROOF
<1>1. MaxCost \in Nat /\ BytesPerTile \in Nat /\ MemBound \in Nat
  BY LayerTyped
<1>2. FirstBound \in Nat /\ \A b \in Nat : NextBound(b) \in Nat
  BY <1>1 DEF FirstBound, NextBound
<1>3. Raised(p) \in [Nat -> Nat]
  BY <1>2 DEF Raised
<1>4. /\ FirstBound \in Bounds(p)
      /\ \A b \in Bounds(p) : b \in Nat /\ Raised(p)[b] \in Bounds(p)
  BY <1>2, <1>3, ReachFurther DEF Bounds
<1>5. \A b \in Bounds(p) : ~ Ends(p, b) => NextBound(b) \in Bounds(p)
  BY <1>4 DEF Raised
<1> QED BY <1>2, <1>3, <1>4, <1>5

\* The bound a search ends at is the only one it can end at.
LEMMA MemoryFound ==
  ASSUME layer \in Layers, NEW p \in Problem, ~ IsSet(CyclesCost(p)),
         NEW b \in Bounds(p), Ends(p, b)
  PROVE  MemoryCost(p) = CostAt(p, b)
PROOF
<1> DEFINE d == CHOOSE c \in EndBounds(p) : TRUE
<1>1. d \in Bounds(p) /\ Ends(p, d)
  BY DEF EndBounds
<1> HIDE DEF d
<1>2. Raised(p) \in [Nat -> Nat] /\ FirstBound \in Nat /\ b \in Nat /\ d \in Nat
  BY <1>1, BoundsTyped
<1>3. Raised(p)[b] = b /\ Raised(p)[d] = d
  BY <1>1, <1>2 DEF Raised
<1>4. d = b
  BY <1>1, <1>2, <1>3, OneEnd DEF Bounds
<1> QED BY <1>4 DEF MemoryCost, d

LEMMA CostsTyped ==
  ASSUME layer \in Layers, NEW p \in Problem
  PROVE  /\ Unset \in Cost /\ CyclesCost(p) \in Cost
         /\ IsSet(CyclesCost(p)) => MemoryCost(p) = CyclesCost(p)
PROOF
<1>1. MaxCost \in Nat /\ MemBound \in Nat
  BY LayerTyped
<1>2. Unset \in Cost
  BY <1>1 DEF Unset, Cost
<1>3. CostAt(p, MemBound) \in Cost
  BY <1>1, SearchRight
<1> QED BY <1>2, <1>3 DEF CyclesCost, MemoryCost

-----------------------------------------------------------------------------
(* Jobs *)

FieldOf(job, update, f) == IF f \in DOMAIN update THEN update[f] ELSE job[f]

\* A job with fields changed is a job.
LEMMA WithTyped ==
  ASSUME NEW job \in Job, NEW update,
         "pc" \in DOMAIN update => update.pc \in {"find", "insert", "done", "failed"},
         "at" \in DOMAIN update => update.at \in 1 .. 4,
         "round" \in DOMAIN update => update.round \in {"cycles", "memory"},
         "bound" \in DOMAIN update => update.bound \in Nat,
         "estimate" \in DOMAIN update => update.estimate \in Nat,
         "cost" \in DOMAIN update => update.cost \in [Problem -> Cost],
         "output" \in DOMAIN update => update.output \in Seq([key : Key, plan : Outcome])
  PROVE  /\ With(job, update) \in Job
         /\ \A f \in {"pc", "at", "round", "bound", "estimate", "cost", "output"} :
              With(job, update)[f] = FieldOf(job, update, f)
PROOF
<1> DEFINE w == [pc |-> FieldOf(job, update, "pc"), at |-> FieldOf(job, update, "at"),
                 round |-> FieldOf(job, update, "round"),
                 bound |-> FieldOf(job, update, "bound"),
                 estimate |-> FieldOf(job, update, "estimate"),
                 cost |-> FieldOf(job, update, "cost"),
                 output |-> FieldOf(job, update, "output")]
           fields == {"pc", "at", "round", "bound", "estimate", "cost", "output"}
<1>1. DOMAIN job = fields
  BY DEF Job
<1>2. With(job, update) = [f \in fields |-> FieldOf(job, update, f)]
  BY <1>1 DEF With, FieldOf
<1>3. w = [f \in fields |-> FieldOf(job, update, f)]
  OBVIOUS
<1>4. w \in Job
  <2>1. /\ job.pc \in {"find", "insert", "done", "failed"} /\ job.at \in 1 .. 4
        /\ job.round \in {"cycles", "memory"} /\ job.bound \in Nat
        /\ job.estimate \in Nat /\ job.cost \in [Problem -> Cost]
        /\ job.output \in Seq([key : Key, plan : Outcome])
    BY DEF Job
  <2>2. /\ FieldOf(job, update, "pc") \in {"find", "insert", "done", "failed"}
        /\ FieldOf(job, update, "at") \in 1 .. 4
        /\ FieldOf(job, update, "round") \in {"cycles", "memory"}
        /\ FieldOf(job, update, "bound") \in Nat
        /\ FieldOf(job, update, "estimate") \in Nat
        /\ FieldOf(job, update, "cost") \in [Problem -> Cost]
        /\ FieldOf(job, update, "output") \in Seq([key : Key, plan : Outcome])
    BY <2>1 DEF FieldOf
  <2> HIDE DEF fields
  <2> QED BY <2>2 DEF Job
<1> QED BY <1>2, <1>3, <1>4

LEMMA BeforeTyped ==
  ASSUME NEW key \in Key
  PROVE  /\ Before(key, 1) = {}
         /\ \A at : Before(key, at) \subseteq Problem
         /\ \A p \in Before(key, 5) : \E i \in DOMAIN Problems(key) : Problems(key)[i] = p
         /\ \A n \in Nat : n > Len(Problems(key)) => Before(key, n) = Before(key, 5)
         /\ \A at \in DOMAIN Problems(key) :
              /\ Problems(key)[at] \in Problem /\ Problems(key)[at] \in Before(key, 5)
              /\ Problems(key)[at] \notin Before(key, at)
              /\ Before(key, at + 1) = Before(key, at) \cup {Problems(key)[at]}
              /\ Before(key, at) \subseteq Before(key, 5)
PROOF
<1> DEFINE P == Problems(key)
<1>1. /\ P \in Seq(Problem) /\ Len(P) \in 1 .. 4 /\ DOMAIN P = 1 .. Len(P)
      /\ \A i, j \in DOMAIN P : P[i] = P[j] => i = j
  BY ProblemsTyped
<1>2. \A i \in DOMAIN P : P[i] \in Problem
  BY <1>1
<1> HIDE DEF P
<1>3. \A at : Before(key, at) = {P[i] : i \in {j \in DOMAIN P : j < at}}
  BY DEF Before, P
<1>4. Before(key, 1) = {}
  BY <1>1, <1>3
<1>5. \A at : Before(key, at) \subseteq Problem
  BY <1>2, <1>3
<1>6. \A p \in Before(key, 5) : \E i \in DOMAIN P : P[i] = p
  BY <1>3
<1>7. ASSUME NEW n \in Nat, n > Len(P) PROVE Before(key, n) = Before(key, 5)
  <2>1. \A j \in DOMAIN P : j < n /\ j < 5
    BY <1>1, <1>7
  <2> QED BY <1>3, <2>1
<1>8. ASSUME NEW at \in DOMAIN P
      PROVE  /\ P[at] \in Before(key, 5) /\ P[at] \notin Before(key, at)
             /\ Before(key, at + 1) = Before(key, at) \cup {P[at]}
             /\ Before(key, at) \subseteq Before(key, 5)
  <2>1. at \in Int /\ at < 5 /\ \A j \in DOMAIN P : j \in Int /\ j < 5
    BY <1>1
  <2>2. P[at] \in Before(key, 5) /\ Before(key, at) \subseteq Before(key, 5)
    BY <1>3, <2>1
  <2>3. P[at] \notin Before(key, at)
    BY <1>1, <1>3, <2>1
  <2>4. {j \in DOMAIN P : j < at + 1} = {j \in DOMAIN P : j < at} \cup {at}
    BY <2>1
  <2> HIDE DEF P
  <2>5. Before(key, at + 1) = Before(key, at) \cup {P[at]}
    BY <1>3, <2>4
  <2> QED BY <2>2, <2>3, <2>5
<1> QED BY <1>2, <1>4, <1>5, <1>6, <1>7, <1>8 DEF P

LEMMA OutputTyped ==
  ASSUME NEW key \in Key, NEW cost \in [Problem -> Cost]
  PROVE  Output(key, cost) \in Seq([key : Key, plan : Outcome])
PROOF
<1> DEFINE Made(k, problem, pass) ==
             [key |-> k, plan |-> [of |-> problem, pass |-> pass, cost |-> cost[problem]]]
           S == [key : Key, plan : Outcome]
<1>1. ASSUME NEW k \in Key, NEW problem \in Problem, NEW pass \in Pass
      PROVE  Made(k, problem, pass) \in S
  <2>1. cost[problem] \in Cost
    OBVIOUS
  <2>2. [of |-> problem, pass |-> pass, cost |-> cost[problem]] \in Outcome
    BY <2>1 DEF Outcome
  <2> QED BY <2>2
<1>2. /\ key.pass \in Pass /\ KeyOf("BWD") \in Key /\ KeyOf("WU") \in Key
      /\ {"FWD", "BWD", "WU"} = Pass /\ Pass \subseteq Problem /\ "joint" \in Problem
  BY DEF Key, KeyOf, Validated, Pass, Problem
<1>3. Output(key, cost) \in
        {<<Made(key, key.pass, key.pass)>>, <<Made(key, "joint", "FWD")>>,
         <<Made(KeyOf("BWD"), "BWD", "BWD"), Made(KeyOf("WU"), "WU", "WU"),
           Made(key, "FWD", "FWD")>>}
  BY DEF Output
<1>4. /\ Made(key, key.pass, key.pass) \in S /\ Made(key, "joint", "FWD") \in S
      /\ Made(KeyOf("BWD"), "BWD", "BWD") \in S /\ Made(KeyOf("WU"), "WU", "WU") \in S
      /\ Made(key, "FWD", "FWD") \in S
  BY <1>1, <1>2
<1>5. ASSUME NEW T, NEW x \in T, NEW y \in T, NEW z \in T
      PROVE  <<x>> \in Seq(T) /\ <<x, y, z>> \in Seq(T)
  OBVIOUS
<1> HIDE DEF S
<1>6. /\ <<Made(key, key.pass, key.pass)>> \in Seq(S)
      /\ <<Made(key, "joint", "FWD")>> \in Seq(S)
      /\ <<Made(KeyOf("BWD"), "BWD", "BWD"), Made(KeyOf("WU"), "WU", "WU"),
           Made(key, "FWD", "FWD")>> \in Seq(S)
  <2> HIDE DEF Made
  <2> QED BY <1>4, <1>5
<1> HIDE DEF Made
<1>7. Output(key, cost) \in Seq(S)
  BY <1>3, <1>6
<1> QED BY <1>7 DEF S

LEMMA FinishedRight ==
  ASSUME NEW key \in Key, NEW job \in Job, NEW cost \in [Problem -> Cost],
         cost = FinalCost(key)
  PROVE  JobRight(key, Finished(job, key, cost))
PROOF
<1> DEFINE output == Output(key, cost)
           pc == IF IsSet(Last(output).plan.cost) THEN "done" ELSE "failed"
           update == [cost |-> cost, output |-> output, pc |-> pc]
<1>1. Finished(job, key, cost) = With(job, update)
  BY DEF Finished
<1>2. output \in Seq([key : Key, plan : Outcome]) /\ pc \in {"done", "failed"}
  BY OutputTyped
<1> HIDE DEF output, pc
<1>3. /\ DOMAIN update = {"cost", "output", "pc"}
      /\ update.cost = cost /\ update.output = output /\ update.pc = pc
  OBVIOUS
<1> HIDE DEF update
<1>4. /\ With(job, update) \in Job
      /\ With(job, update).pc = FieldOf(job, update, "pc")
      /\ With(job, update).output = FieldOf(job, update, "output")
  BY <1>2, <1>3, WithTyped
<1>5. With(job, update).pc = pc /\ With(job, update).output = output
  BY <1>3, <1>4 DEF FieldOf
<1>6. Ended(key, With(job, update))
  BY <1>5 DEF Ended, FinalPlan, FinalOutput, output, pc
<1> QED BY <1>1, <1>2, <1>4, <1>5, <1>6 DEF JobRight

\* Nothing is searched again that has a plan.
LEMMA NothingAgain ==
  ASSUME layer \in Layers, NEW key \in Key, NEW n \in Nat, NEW m \in Nat, n <= m,
         \A i \in DOMAIN Problems(key) :
           n <= i /\ i < m => IsSet(CyclesCost(Problems(key)[i]))
  PROVE  MemoryCosts(key, m) = MemoryCosts(key, n)
PROOF
<1>1. ASSUME NEW p \in Problem PROVE MemoryCosts(key, m)[p] = MemoryCosts(key, n)[p]
  <2>1. IsSet(CyclesCost(p)) => MemoryCost(p) = CyclesCost(p)
    BY CostsTyped
  <2>2. \A i \in DOMAIN Problems(key) : i \in Int /\ i < 5
    BY ProblemsTyped
  <2>3. CASE p \in Before(key, n)
    <3>1. p \in Before(key, m)
      BY <2>2, <2>3 DEF Before
    <3> QED BY <2>3, <3>1 DEF MemoryCosts
  <2>4. CASE p \in Before(key, m) /\ p \notin Before(key, n)
    <3>1. PICK i \in DOMAIN Problems(key) : i < m /\ Problems(key)[i] = p
      BY <2>4 DEF Before
    <3>2. ~ (i < n)
      BY <2>4, <3>1 DEF Before
    <3>3. IsSet(CyclesCost(p))
      BY <2>2, <3>1, <3>2
    <3>4. p \in Before(key, 5)
      BY <2>2, <3>1 DEF Before
    <3> QED BY <2>1, <2>4, <3>3, <3>4 DEF MemoryCosts
  <2>5. CASE p \notin Before(key, m) /\ p \notin Before(key, n)
    BY <2>5 DEF MemoryCosts
  <2> QED BY <2>3, <2>4, <2>5
<1> QED BY <1>1 DEF MemoryCosts

LEMMA MemoryFromRight ==
  ASSUME layer \in Layers, NEW key \in Key, NEW job \in Job,
         NEW n \in 1 .. Len(Problems(key)) + 1, ~ MetByCycles(key),
         NEW cost \in [Problem -> Cost], cost = MemoryCosts(key, n)
  PROVE  JobRight(key, MinimizeMemoryFrom(job, key, cost, n))
PROOF
<1> DEFINE P == Problems(key)
           left == {i \in DOMAIN P : i >= n /\ ~ IsSet(cost[P[i]])}
           first == CHOOSE i \in left : \A j \in left : i <= j
           update == [cost |-> cost, pc |-> "find", round |-> "memory",
                      at |-> first, bound |-> FirstBound]
<1>1. /\ Len(P) \in 1 .. 4 /\ DOMAIN P = 1 .. Len(P)
      /\ \A i, j \in DOMAIN P : P[i] = P[j] => i = j
      /\ \A i \in DOMAIN P : P[i] \in Problem /\ P[i] \in Before(key, 5)
  BY ProblemsTyped, BeforeTyped
<1>2. MinimizeMemoryFrom(job, key, cost, n)
        = IF left = {} THEN Finished(job, key, cost) ELSE With(job, update)
  BY DEF MinimizeMemoryFrom, FirstBound
<1> HIDE DEF update
<1>3. ASSUME NEW i \in DOMAIN P, i >= n PROVE cost[P[i]] = CyclesCost(P[i])
  <2>1. P[i] \notin Before(key, n)
    BY <1>1, <1>3 DEF Before
  <2> QED BY <1>1, <2>1 DEF MemoryCosts
<1>4. CASE left = {}
  <2>1. \A i \in DOMAIN P : n <= i /\ i < 5 => IsSet(CyclesCost(P[i]))
    BY <1>1, <1>3, <1>4
  <2>2. cost = MemoryCosts(key, 5)
    <3>1. n \in Nat /\ n <= 5
      <4>1. Len(Problems(key)) \in 1 .. 4
        BY ProblemsTyped
      <4>2. n \in 1 .. Len(Problems(key)) + 1
        OBVIOUS
      <4> DEFINE len == Len(Problems(key))
      <4> HIDE DEF len, left, first, P
      <4>3. len \in 1 .. 4 /\ n \in 1 .. len + 1
        BY <4>1, <4>2 DEF len
      <4> QED BY <4>3
    <3>2. \A i \in DOMAIN Problems(key) :
            n <= i /\ i < 5 => IsSet(CyclesCost(Problems(key)[i]))
      BY <2>1
    <3>3. MemoryCosts(key, 5) = MemoryCosts(key, n)
      <4> HIDE DEF left, first, P
      <4> QED BY <3>1, <3>2, NothingAgain
    <3> QED BY <3>3
  <2>3. cost = FinalCost(key)
    BY <2>2 DEF FinalCost
  <2> HIDE DEF left
  <2> QED BY <1>2, <1>4, <2>3, FinishedRight
<1>5. CASE left # {}
  <2>1. left \subseteq Nat
    BY <1>1
  <2> HIDE DEF left
  <2>2. first \in left /\ \A j \in left : first <= j
    BY <1>5, <2>1, Smallest
  <2> USE DEF left
  <2>3. first \in DOMAIN P /\ first >= n /\ ~ IsSet(CyclesCost(P[first]))
    BY <1>3, <2>2
  <2>4. ASSUME NEW i \in DOMAIN P, n <= i, i < first PROVE IsSet(CyclesCost(P[i]))
    BY <1>1, <1>3, <2>2, <2>3, <2>4
  <2> HIDE DEF left, first, P
  <2>5. cost = MemoryCosts(key, first)
    BY <1>1, <2>3, <2>4, NothingAgain DEF P
  <2>6. FirstBound \in Nat /\ FirstBound \in Bounds(P[first])
    BY <1>1, <2>3, BoundsTyped
  <2>7. /\ DOMAIN update = {"cost", "pc", "round", "at", "bound"}
        /\ update.cost = cost /\ update.pc = "find" /\ update.round = "memory"
        /\ update.at = first /\ update.bound = FirstBound
    BY DEF update
  <2>8. first \in 1 .. 4
    BY <1>1, <2>3
  <2> DEFINE w == With(job, update)
  <2>9. /\ w \in Job /\ w.pc = FieldOf(job, update, "pc")
        /\ w.at = FieldOf(job, update, "at") /\ w.round = FieldOf(job, update, "round")
        /\ w.bound = FieldOf(job, update, "bound") /\ w.cost = FieldOf(job, update, "cost")
    BY <2>6, <2>7, <2>8, WithTyped
  <2>10. /\ w.pc = "find" /\ w.at = first /\ w.round = "memory"
         /\ w.bound = FirstBound /\ w.cost = cost
    BY <2>7, <2>9 DEF FieldOf
  <2> HIDE DEF w
  <2>11. Searching(key, w)
    BY <2>3, <2>5, <2>6, <2>10 DEF Searching, P
  <2>12. JobRight(key, w)
    BY <2>9, <2>10, <2>11 DEF JobRight
  <2> QED BY <1>2, <1>5, <2>12 DEF w
<1> QED BY <1>4, <1>5

\* A new job has found nothing yet.
LEMMA NewJobRight ==
  ASSUME layer \in Layers, NEW key \in Key
  PROVE  NewJob(key).pc = "find" /\ JobRight(key, NewJob(key))
PROOF
<1> DEFINE job == NewJob(key)
           cost == [p \in Problem |-> Unset]
<1>1. MemBound \in Nat /\ Unset \in Cost
  BY LayerTyped, CostsTyped DEF Problem
<1>2. /\ job.pc = "find" /\ job.at = 1 /\ job.bound = MemBound /\ job.estimate = 0
      /\ job.round = (IF HasMemBound THEN "cycles" ELSE "memory")
      /\ job.cost = cost /\ job.output = <<>>
  BY DEF NewJob
<1>3. job \in Job
  <2>1. cost \in [Problem -> Cost]
    BY <1>1
  <2>2. <<>> \in Seq([key : Key, plan : Outcome])
    OBVIOUS
  <2> HIDE DEF cost
  <2> QED BY <1>1, <2>1, <2>2 DEF NewJob, Job, cost
<1>4. Before(key, 1) = {} /\ 1 \in DOMAIN Problems(key) /\ Problems(key)[1] \in Problem
  BY BeforeTyped, ProblemsTyped
<1>5. CASE HasMemBound
  <2>1. cost = CyclesCosts(key, 1)
    BY <1>4 DEF CyclesCosts
  <2> HIDE DEF cost, job
  <2> QED BY <1>2, <1>3, <1>4, <1>5, <2>1 DEF JobRight, Searching, job
<1>6. CASE ~ HasMemBound
  <2>1. \A p \in Problem : CyclesCost(p) = Unset
    BY <1>6 DEF CyclesCost
  <2>2. cost = MemoryCosts(key, 1)
    BY <1>4, <2>1 DEF MemoryCosts
  <2>3. MemBound = FirstBound
    BY <1>6 DEF MemBound, FirstBound
  <2>4. FirstBound \in Bounds(Problems(key)[1])
    BY <1>4, BoundsTyped
  <2>5. ~ MetByCycles(key) /\ ~ IsSet(CyclesCost(Problems(key)[1]))
    BY <1>4, <1>6, <2>1 DEF MetByCycles, IsSet
  <2> HIDE DEF cost, job
  <2> QED BY <1>2, <1>3, <1>4, <1>6, <2>2, <2>3, <2>4, <2>5 DEF JobRight, Searching, job
<1> QED BY <1>2, <1>5, <1>6

LEMMA ContinueRight ==
  ASSUME layer \in Layers, NEW key \in Key, NEW job, JobRight(key, job),
         job.pc \in {"find", "insert"}
  PROVE  JobRight(key, Continue(job, key, CostAt(Problems(key)[job.at], job.bound)))
PROOF
<1> DEFINE P == Problems(key)
           p == P[job.at]
           c == CostAt(p, job.bound)
           cost == [job.cost EXCEPT ![p] = c]
           next == [cost |-> cost, pc |-> "find", at |-> job.at + 1]
           again == [pc |-> "find", bound |-> NextBound(job.bound)]
<1>1. /\ job \in Job /\ Searching(key, job)
      /\ job.bound \in Nat /\ job.cost \in [Problem -> Cost]
      /\ job.round \in {"cycles", "memory"}
  BY DEF JobRight, Job
<1>2. /\ job.at \in DOMAIN P /\ DOMAIN P = 1 .. Len(P) /\ Len(P) \in 1 .. 4
      /\ p \in Problem /\ p \in Before(key, 5) /\ p \notin Before(key, job.at)
      /\ Before(key, job.at + 1) = Before(key, job.at) \cup {p}
      /\ \A n \in Nat : n > Len(P) => Before(key, n) = Before(key, 5)
  BY <1>1, ProblemsTyped, BeforeTyped DEF Searching
<1>3. c \in Cost
  BY <1>1, <1>2, SearchRight
<1>4. cost \in [Problem -> Cost]
  BY <1>1, <1>2, <1>3
<1>5. Continue(job, key, c) =
        CASE job.round = "cycles" /\ job.at < Len(P) -> With(job, next)
          [] job.round = "cycles" /\ job.at = Len(P) ->
               IF Met(key, cost) THEN Finished(job, key, cost)
               ELSE MinimizeMemoryFrom(job, key, cost, 1)
          [] job.round = "memory" /\ ~ IsSet(c) /\ job.bound # MaxCost -> With(job, again)
          [] OTHER -> MinimizeMemoryFrom(job, key, cost, job.at + 1)
  BY DEF Continue, NextBound
<1> HIDE DEF c, p, P
<1>6. CASE job.round = "cycles"
  <2>1. HasMemBound /\ job.bound = MemBound /\ job.cost = CyclesCosts(key, job.at)
    BY <1>1, <1>6 DEF Searching
  <2>2. c = CyclesCost(p)
    BY <2>1 DEF c, CyclesCost
  <2>3. cost = CyclesCosts(key, job.at + 1)
    BY <1>2, <2>1, <2>2 DEF CyclesCosts
  <2>4. CASE job.at < Len(P)
    <3>1. /\ DOMAIN next = {"cost", "pc", "at"}
          /\ next.cost = cost /\ next.pc = "find" /\ next.at = job.at + 1
      OBVIOUS
    <3>2. job.at + 1 \in 1 .. 4 /\ job.at + 1 \in DOMAIN P
      BY <1>2, <2>4
    <3>3. Continue(job, key, c) = With(job, next)
      BY <1>5, <1>6, <2>4
    <3> HIDE DEF next, cost
    <3> DEFINE w == With(job, next)
    <3>4. /\ w \in Job /\ w.pc = FieldOf(job, next, "pc")
          /\ w.at = FieldOf(job, next, "at") /\ w.round = FieldOf(job, next, "round")
          /\ w.bound = FieldOf(job, next, "bound") /\ w.cost = FieldOf(job, next, "cost")
      BY <1>1, <1>4, <3>1, <3>2, WithTyped
    <3>5. /\ w.pc = "find" /\ w.at = job.at + 1 /\ w.round = "cycles"
          /\ w.bound = MemBound /\ w.cost = cost
      BY <1>6, <2>1, <3>1, <3>4 DEF FieldOf
    <3> HIDE DEF w
    <3>6. Searching(key, w)
      BY <2>1, <2>3, <3>2, <3>5 DEF Searching, P
    <3>7. JobRight(key, w)
      BY <3>4, <3>5, <3>6 DEF JobRight
    <3> QED BY <3>3, <3>7 DEF w, c, p, P
  <2>5. CASE job.at = Len(P)
    <3>1. cost = CyclesCosts(key, 5)
      BY <1>2, <2>3, <2>5 DEF CyclesCosts
    <3>2. CASE Met(key, cost)
      <4>1. cost = FinalCost(key)
        BY <2>1, <3>1, <3>2 DEF FinalCost, MetByCycles
      <4>2. Continue(job, key, c) = Finished(job, key, cost)
        BY <1>5, <1>6, <2>5, <3>2
      <4> HIDE DEF cost
      <4> QED BY <1>1, <1>4, <4>1, <4>2, FinishedRight DEF c, p, P
    <3>3. CASE ~ Met(key, cost)
      <4>1. ~ MetByCycles(key)
        BY <3>1, <3>3 DEF MetByCycles
      <4>2. cost = MemoryCosts(key, 1)
        <5>1. Before(key, 1) = {}
          BY BeforeTyped
        <5> QED BY <3>1, <5>1 DEF CyclesCosts, MemoryCosts
      <4>3. Continue(job, key, c) = MinimizeMemoryFrom(job, key, cost, 1)
        BY <1>5, <1>2, <1>6, <2>5, <3>3
      <4>4. 1 \in 1 .. Len(Problems(key)) + 1
        BY <1>2 DEF P
      <4> HIDE DEF cost
      <4> QED BY <1>1, <1>4, <4>1, <4>2, <4>3, <4>4, MemoryFromRight DEF c, p, P
    <3> QED BY <3>2, <3>3
  <2> QED BY <1>2, <2>4, <2>5
<1>7. CASE job.round = "memory"
  <2>1. /\ ~ MetByCycles(key) /\ job.cost = MemoryCosts(key, job.at)
        /\ ~ IsSet(CyclesCost(p)) /\ job.bound \in Bounds(p)
    BY <1>1, <1>7 DEF Searching, p, P
  <2>2. CASE ~ IsSet(c) /\ job.bound # MaxCost
    <3>1. NextBound(job.bound) \in Bounds(p) /\ NextBound(job.bound) \in Nat
      BY <1>2, <2>1, <2>2, BoundsTyped DEF Ends, c
    <3>2. /\ DOMAIN again = {"pc", "bound"}
          /\ again.pc = "find" /\ again.bound = NextBound(job.bound)
      OBVIOUS
    <3>3. Continue(job, key, c) = With(job, again)
      BY <1>5, <1>7, <2>2
    <3> HIDE DEF again
    <3> DEFINE w == With(job, again)
    <3>4. /\ w \in Job /\ w.pc = FieldOf(job, again, "pc")
          /\ w.at = FieldOf(job, again, "at") /\ w.round = FieldOf(job, again, "round")
          /\ w.bound = FieldOf(job, again, "bound") /\ w.cost = FieldOf(job, again, "cost")
      BY <1>1, <3>1, <3>2, WithTyped
    <3>5. /\ w.pc = "find" /\ w.at = job.at /\ w.round = "memory"
          /\ w.bound = NextBound(job.bound) /\ w.cost = job.cost
      BY <1>7, <3>2, <3>4 DEF FieldOf
    <3> HIDE DEF w
    <3>6. Searching(key, w)
      BY <1>2, <2>1, <3>1, <3>5 DEF Searching, p, P
    <3>7. JobRight(key, w)
      BY <3>4, <3>5, <3>6 DEF JobRight
    <3> QED BY <3>3, <3>7 DEF w, c, p, P
  <2>3. CASE ~ (~ IsSet(c) /\ job.bound # MaxCost)
    <3>1. c = MemoryCost(p)
      BY <1>2, <2>1, <2>3, MemoryFound DEF Ends, c
    <3>2. cost = MemoryCosts(key, job.at + 1)
      BY <1>2, <2>1, <3>1 DEF MemoryCosts
    <3>3. Continue(job, key, c) = MinimizeMemoryFrom(job, key, cost, job.at + 1)
      BY <1>5, <1>7, <2>3
    <3>4. job.at + 1 \in 1 .. Len(Problems(key)) + 1
      BY <1>2 DEF P
    <3> HIDE DEF cost
    <3> QED BY <1>1, <1>4, <2>1, <3>2, <3>3, <3>4, MemoryFromRight DEF c, p, P
  <2> QED BY <2>2, <2>3
<1> QED BY <1>1, <1>6, <1>7

-----------------------------------------------------------------------------
(* Plans *)

Better(key) == key.pass = "FWD" /\ SeparateIsBetter(FinalCost(key))
Made(key, of, pass) ==
  [key |-> key, plan |-> [of |-> of, pass |-> pass, cost |-> FinalCost(key)[of]]]

\* The plans of a job, by what it plans
LEMMA OutputForms ==
  ASSUME NEW key \in Key
  PROVE  /\ key.pass # "FWD" =>
              /\ FinalOutput(key) = <<Made(key, key.pass, key.pass)>>
              /\ FinalPlan(key) = Made(key, key.pass, key.pass).plan
         /\ key.pass = "FWD" /\ ~ Better(key) =>
              /\ FinalOutput(key) = <<Made(key, "joint", "FWD")>>
              /\ FinalPlan(key) = Made(key, "joint", "FWD").plan
         /\ Better(key) =>
              /\ \A p \in {"BWD", "WU"} :
                   \E i \in {1, 2} : FinalOutput(key)[i] =
                     [key |-> KeyOf(p),
                      plan |-> [of |-> p, pass |-> p, cost |-> FinalCost(key)[p]]]
              /\ \A i \in {1, 2} : \E p \in {"BWD", "WU"} : FinalOutput(key)[i] =
                     [key |-> KeyOf(p),
                      plan |-> [of |-> p, pass |-> p, cost |-> FinalCost(key)[p]]]
              /\ FinalOutput(key)[3] = Made(key, "FWD", "FWD")
              /\ DOMAIN FinalOutput(key) = 1 .. 3
              /\ FinalPlan(key) = Made(key, "FWD", "FWD").plan
PROOF
<1> DEFINE For(p) == [key |-> KeyOf(p),
                      plan |-> [of |-> p, pass |-> p, cost |-> FinalCost(key)[p]]]
<1>1. ASSUME key.pass # "FWD"
      PROVE  FinalOutput(key) = <<Made(key, key.pass, key.pass)>>
  BY <1>1 DEF FinalOutput, Output, Made
<1>2. ASSUME key.pass = "FWD", ~ Better(key)
      PROVE  FinalOutput(key) = <<Made(key, "joint", "FWD")>>
  BY <1>2 DEF FinalOutput, Output, Made, Better
<1>3. ASSUME Better(key)
      PROVE  FinalOutput(key) = <<For("BWD"), For("WU"), Made(key, "FWD", "FWD")>>
  BY <1>3 DEF FinalOutput, Output, Made, Better
<1>4. ASSUME NEW x, NEW y, NEW z
      PROVE  /\ Last(<<x>>) = x
             /\ Last(<<x, y, z>>) = z
             /\ <<x, y, z>>[1] = x /\ <<x, y, z>>[2] = y /\ <<x, y, z>>[3] = z
             /\ DOMAIN <<x, y, z>> = 1 .. 3
  <2>1. Len(<<x>>) = 1 /\ Len(<<x, y, z>>) = 3
    OBVIOUS
  <2>2. <<x>>[1] = x /\ <<x, y, z>>[1] = x /\ <<x, y, z>>[2] = y /\ <<x, y, z>>[3] = z
    OBVIOUS
  <2>3. DOMAIN <<x, y, z>> = 1 .. 3
    OBVIOUS
  <2> QED BY <2>1, <2>2, <2>3 DEF Last
<1> DEFINE out == FinalOutput(key)
           own == Made(key, key.pass, key.pass)
           joint == Made(key, "joint", "FWD")
           fwd == Made(key, "FWD", "FWD")
           bwd == For("BWD")
           wu == For("WU")
<1>5. ASSUME Better(key)
      PROVE  /\ out[1] = bwd /\ out[2] = wu /\ out[3] = fwd /\ DOMAIN out = 1 .. 3
             /\ Last(out) = fwd
  <2>1. out = <<bwd, wu, fwd>>
    BY <1>3, <1>5
  <2> HIDE DEF out, bwd, wu, fwd
  <2>2. Last(<<bwd, wu, fwd>>) = fwd
    <3>1. Len(<<bwd, wu, fwd>>) = 3 /\ <<bwd, wu, fwd>>[3] = fwd
      OBVIOUS
    <3> QED BY <3>1 DEF Last
  <2>4. DOMAIN <<bwd, wu, fwd>> = 1 .. 3
    OBVIOUS
  <2>3. <<bwd, wu, fwd>>[1] = bwd /\ <<bwd, wu, fwd>>[2] = wu /\ <<bwd, wu, fwd>>[3] = fwd
    BY <1>4
  <2> QED BY <2>1, <2>2, <2>3, <2>4
<1>6. ASSUME key.pass # "FWD" PROVE Last(out) = own
  <2>1. out = <<own>>
    BY <1>1, <1>6
  <2> HIDE DEF out, own
  <2> QED BY <1>4, <2>1
<1>7. ASSUME key.pass = "FWD", ~ Better(key) PROVE Last(out) = joint
  <2>1. out = <<joint>>
    BY <1>2, <1>7
  <2> HIDE DEF out, joint
  <2> QED BY <1>4, <2>1
<1>8. FinalPlan(key) = Last(out).plan
  BY DEF FinalPlan
<1>9. ASSUME Better(key)
      PROVE  /\ \A p \in {"BWD", "WU"} : \E i \in {1, 2} : out[i] = For(p)
             /\ \A i \in {1, 2} : \E p \in {"BWD", "WU"} : out[i] = For(p)
  BY <1>5, <1>9
<1>10. Better(key) => FinalPlan(key) = fwd.plan /\ out[3] = fwd /\ DOMAIN out = 1 .. 3
  BY <1>5, <1>8
<1>11. key.pass # "FWD" => FinalPlan(key) = own.plan
  BY <1>6, <1>8
<1>12. key.pass = "FWD" /\ ~ Better(key) => FinalPlan(key) = joint.plan
  BY <1>7, <1>8
<1> QED BY <1>1, <1>2, <1>9, <1>10, <1>11, <1>12

\* The options in a key make no difference.
LEMMA SameByPass ==
  ASSUME NEW k \in Key, NEW l \in Key, k.pass = l.pass
  PROVE  FinalCost(k) = FinalCost(l) /\ FinalPlan(k) = FinalPlan(l)
PROOF
<1>1. Problems(k) = Problems(l)
  BY DEF Problems
<1>2. \A at : Before(k, at) = Before(l, at)
  BY <1>1 DEF Before
<1>3. CyclesCosts(k, 5) = CyclesCosts(l, 5) /\ MemoryCosts(k, 5) = MemoryCosts(l, 5)
  BY <1>2 DEF CyclesCosts, MemoryCosts
<1>4. MetByCycles(k) = MetByCycles(l)
  BY <1>3 DEF MetByCycles, Met
<1>5. FinalCost(k) = FinalCost(l)
  BY <1>3, <1>4 DEF FinalCost
<1>6. Better(k) <=> Better(l)
  BY <1>5 DEF Better
<1>7. ASSUME NEW of, NEW pass PROVE Made(k, of, pass).plan = Made(l, of, pass).plan
  BY <1>5 DEF Made
<1>8. FinalPlan(k) = FinalPlan(l)
  <2>1. CASE k.pass # "FWD"
    <3>1. /\ FinalPlan(k) = Made(k, k.pass, k.pass).plan
          /\ FinalPlan(l) = Made(l, l.pass, l.pass).plan
      BY <2>1, OutputForms
    <3> QED BY <1>7, <3>1
  <2>2. CASE k.pass = "FWD" /\ ~ Better(k)
    <3>1. /\ FinalPlan(k) = Made(k, "joint", "FWD").plan
          /\ FinalPlan(l) = Made(l, "joint", "FWD").plan
      BY <1>6, <2>2, OutputForms
    <3> QED BY <1>7, <3>1
  <2>3. CASE Better(k)
    <3>1. /\ FinalPlan(k) = Made(k, "FWD", "FWD").plan
          /\ FinalPlan(l) = Made(l, "FWD", "FWD").plan
      BY <1>6, <2>3, OutputForms
    <3> QED BY <1>7, <3>1
  <2> QED BY <2>1, <2>2, <2>3 DEF Better
<1> QED BY <1>5, <1>8

LEMMA BeforeAll ==
  ASSUME NEW key \in Key
  PROVE  /\ key.pass = "FWD" => Before(key, 5) = Problem
         /\ key.pass # "FWD" => Before(key, 5) = {key.pass}
         /\ \A p \in Before(key, 5) :
              FinalCost(key)[p] = IF MetByCycles(key) THEN CyclesCost(p) ELSE MemoryCost(p)
PROOF
<1>1. ASSUME key.pass = "FWD" PROVE Before(key, 5) = Problem
  <2>1. Problems(key) = <<"joint", "FWD", "BWD", "WU">>
    BY <1>1 DEF Problems
  <2>2. Before(key, 5) = {Problems(key)[i] : i \in 1 .. 4}
    BY <2>1 DEF Before
  <2>3. 1 .. 4 = {1, 2, 3, 4}
    OBVIOUS
  <2>4. Before(key, 5)
          = {Problems(key)[1], Problems(key)[2], Problems(key)[3], Problems(key)[4]}
    BY <2>2, <2>3
  <2> QED BY <2>1, <2>4 DEF Problem, Pass
<1>2. ASSUME key.pass # "FWD" PROVE Before(key, 5) = {key.pass}
  <2>1. Problems(key) = <<key.pass>>
    BY <1>2 DEF Problems
  <2> QED BY <2>1 DEF Before
<1>3. ASSUME NEW p \in Before(key, 5)
      PROVE  FinalCost(key)[p] = IF MetByCycles(key) THEN CyclesCost(p) ELSE MemoryCost(p)
  <2>1. p \in Problem
    BY BeforeTyped
  <2> QED BY <1>3, <2>1 DEF FinalCost, CyclesCosts, MemoryCosts
<1> QED BY <1>1, <1>2, <1>3

\* Separate plans are better only if there are such.
LEMMA BetterAreSet ==
  ASSUME layer \in Layers, NEW cost \in [Problem -> Cost], SeparateIsBetter(cost)
  PROVE  \A p \in Pass : IsSet(cost[p])
PROOF
<1>1. /\ MaxCost \in Nat /\ MemBound \in Nat /\ MemBound <= MaxCost
      /\ cost["joint"].temp \in 0 .. MaxCost /\ cost["joint"].cycles \in 0 .. MaxCost
  <2>1. cost["joint"] \in Cost
    BY DEF Problem
  <2> QED BY <2>1, LayerTyped DEF Cost
<1>2. Unset.temp = MaxCost /\ Unset.cycles = MaxCost
  BY DEF Unset
<1>3. ASSUME NEW p \in Pass, ~ IsSet(cost[p]) PROVE FALSE
  <2>1. Separate(cost) = Unset
    BY <1>3 DEF Separate
  <2> QED BY <1>1, <1>2, <2>1 DEF SeparateIsBetter
<1> QED BY <1>3

\* A pass planned with the others, but apart from them, has the plan that it has
\* when it is planned on its own.
LEMMA PlannedAlike ==
  ASSUME layer \in Layers, NEW key \in Key, FinalCost(key) \in [Problem -> Cost],
         Better(key), NEW p \in {"BWD", "WU"}
  PROVE  /\ IsSet(FinalCost(key)[p])
         /\ KeyOf(p) \in Key
         /\ FinalPlan(KeyOf(p)) = [of |-> p, pass |-> p, cost |-> FinalCost(key)[p]]
PROOF
<1> DEFINE k == KeyOf(p)
<1>1. k \in Key /\ k.pass = p /\ p \in Problem /\ p \in Pass
  BY DEF KeyOf, Key, Validated, Pass, Problem
<1>2. IsSet(FinalCost(key)[p])
  BY <1>1, BetterAreSet DEF Better
<1>3. FinalPlan(k) = [of |-> p, pass |-> p, cost |-> FinalCost(k)[p]]
  <2>1. FinalPlan(k) = Made(k, p, p).plan
    BY <1>1, OutputForms, ZenonT(40)
  <2> QED BY <2>1 DEF Made
<1> HIDE DEF k
<1>4. FinalCost(k)[p] = IF MetByCycles(k) THEN CyclesCost(p) ELSE MemoryCost(p)
  BY <1>1, BeforeAll
<1>5. FinalCost(key)[p] = IF MetByCycles(key) THEN CyclesCost(p) ELSE MemoryCost(p)
  BY <1>1, BeforeAll DEF Better
<1>6. IsSet(CyclesCost(p)) => MemoryCost(p) = CyclesCost(p)
  BY <1>1, CostsTyped
<1>7. MetByCycles(k) <=> HasMemBound /\ IsSet(CyclesCost(p))
  <2>1. CyclesCosts(k, 5)[p] = CyclesCost(p)
    BY <1>1, BeforeAll DEF CyclesCosts
  <2> QED BY <1>1, <2>1 DEF MetByCycles, Met
<1>8. FinalCost(k)[p] = FinalCost(key)[p]
  BY <1>2, <1>4, <1>5, <1>6, <1>7 DEF MetByCycles
<1> QED BY <1>1, <1>2, <1>3, <1>8 DEF k

\* All that a job gives the cache is what the cache is to hold.
LEMMA OutputRight ==
  ASSUME layer \in Layers, NEW key \in Key, FinalCost(key) \in [Problem -> Cost],
         IsSet(FinalPlan(key).cost)
  PROVE  /\ \A k : Makes(FinalOutput(key), k) =>
              /\ k \in Key /\ (k.pass = "FWD" => k = key)
              /\ MadeFor(FinalOutput(key), k) = FinalPlan(k)
              /\ IsSet(FinalPlan(k).cost) /\ FinalPlan(k) \in Outcome
         /\ Makes(FinalOutput(key), key)
         /\ Better(key) => /\ Makes(FinalOutput(key), KeyOf("BWD"))
                           /\ Makes(FinalOutput(key), KeyOf("WU"))
PROOF
<1> DEFINE out == FinalOutput(key)
           Right(m) == /\ m.key \in Key /\ (m.key.pass = "FWD" => m.key = key)
                       /\ m.plan = FinalPlan(m.key) /\ IsSet(m.plan.cost)
<1>1. ASSUME NEW m, m.key = key, m.plan = FinalPlan(key) PROVE Right(m)
  BY <1>1
<1>2. ASSUME Better(key), NEW p \in {"BWD", "WU"}, NEW m,
             m = [key |-> KeyOf(p), plan |-> [of |-> p, pass |-> p, cost |-> FinalCost(key)[p]]]
      PROVE  Right(m)
  <2>1. /\ IsSet(FinalCost(key)[p]) /\ KeyOf(p) \in Key
        /\ FinalPlan(KeyOf(p)) = [of |-> p, pass |-> p, cost |-> FinalCost(key)[p]]
    BY <1>2, PlannedAlike
  <2>2. KeyOf(p).pass = p
    BY DEF KeyOf
  <2>3. m.key = KeyOf(p) /\ m.plan = FinalPlan(KeyOf(p)) /\ m.plan.cost = FinalCost(key)[p]
    BY <1>2, <2>1
  <2> QED BY <1>2, <2>1, <2>2, <2>3
<1>3. \A of, pass : /\ Made(key, of, pass).key = key
                    /\ Made(key, of, pass).plan.cost = FinalCost(key)[of]
  BY DEF Made
<1>4. (\A i \in DOMAIN out : Right(out[i])) /\ Makes(out, key)
  <2>1. CASE key.pass # "FWD"
    <3>1. out = <<Made(key, key.pass, key.pass)>> /\ FinalPlan(key) = Made(key, key.pass, key.pass).plan
      BY <2>1, OutputForms
    <3>2. DOMAIN out = {1} /\ out[1] = Made(key, key.pass, key.pass)
      BY <3>1
    <3> HIDE DEF out, Right
    <3> QED BY <1>1, <1>3, <3>1, <3>2 DEF Makes
  <2>2. CASE key.pass = "FWD" /\ ~ Better(key)
    <3>1. out = <<Made(key, "joint", "FWD")>> /\ FinalPlan(key) = Made(key, "joint", "FWD").plan
      BY <2>2, OutputForms
    <3>2. DOMAIN out = {1} /\ out[1] = Made(key, "joint", "FWD")
      BY <3>1
    <3> HIDE DEF out, Right
    <3> QED BY <1>1, <1>3, <3>1, <3>2 DEF Makes
  <2>3. CASE Better(key)
    <3>1. /\ \A i \in {1, 2} : \E p \in {"BWD", "WU"} : out[i] =
               [key |-> KeyOf(p), plan |-> [of |-> p, pass |-> p, cost |-> FinalCost(key)[p]]]
          /\ out[3] = Made(key, "FWD", "FWD") /\ DOMAIN out = 1 .. 3
          /\ FinalPlan(key) = Made(key, "FWD", "FWD").plan
      BY <2>3, OutputForms
    <3> HIDE DEF out, Right
    <3>2. Right(out[1]) /\ Right(out[2])
      BY <1>2, <2>3, <3>1
    <3>3. Right(out[3]) /\ out[3].key = key
      BY <1>1, <1>3, <3>1
    <3>4. DOMAIN out = {1, 2, 3}
      BY <3>1
    <3> QED BY <3>2, <3>3, <3>4 DEF Makes
  <2> QED BY <2>1, <2>2, <2>3 DEF Better
<1>5. Better(key) => Makes(out, KeyOf("BWD")) /\ Makes(out, KeyOf("WU"))
  <2>1. ASSUME Better(key), NEW p \in {"BWD", "WU"} PROVE Makes(out, KeyOf(p))
    <3>1. PICK i \in {1, 2} : out[i] =
            [key |-> KeyOf(p), plan |-> [of |-> p, pass |-> p, cost |-> FinalCost(key)[p]]]
      BY <2>1, OutputForms
    <3>2. i \in DOMAIN out
      <4>1. DOMAIN out = 1 .. 3
        BY <2>1, OutputForms
      <4>2. i \in 1 .. 3
        OBVIOUS
      <4> HIDE DEF out
      <4> QED BY <4>1, <4>2
    <3>3. out[i].key = KeyOf(p)
      BY <3>1
    <3> QED BY <3>2, <3>3 DEF Makes
  <2> QED BY <2>1
<1>6. \A i \in DOMAIN out : out[i].plan \in Outcome
  <2> DEFINE S == [key : Key, plan : Outcome]
  <2>1. out \in Seq(S)
    BY OutputTyped DEF FinalOutput
  <2> HIDE DEF out, S
  <2>2. \A i \in DOMAIN out : out[i] \in S
    BY <2>1
  <2> QED BY <2>2 DEF S
<1>7. ASSUME NEW k, Makes(out, k)
      PROVE  /\ k \in Key /\ (k.pass = "FWD" => k = key)
             /\ MadeFor(out, k) = FinalPlan(k)
             /\ IsSet(FinalPlan(k).cost) /\ FinalPlan(k) \in Outcome
  <2> DEFINE i == CHOOSE j \in DOMAIN out : out[j].key = k
  <2>1. i \in DOMAIN out /\ out[i].key = k
    BY <1>7 DEF Makes
  <2>2. MadeFor(out, k) = out[i].plan
    BY DEF MadeFor
  <2> HIDE DEF i, out
  <2>3. Right(out[i]) /\ out[i].plan \in Outcome
    BY <1>4, <1>6, <2>1
  <2> QED BY <2>1, <2>2, <2>3
<1> QED BY <1>4, <1>5, <1>7

-----------------------------------------------------------------------------
(* The invariant *)

\* What getPlan is to answer for a pass: the forward pass's joint plan, if it
\* has one, or the pass's own
AnswerFor(pass) ==
  IF FinalPlan(Given("FWD")).of = "joint" THEN Derived(FinalPlan(Given("FWD")), pass)
  ELSE FinalPlan(Given(pass))

RightJobs(key) == {job \in Job : JobRight(key, job)}
JobsRight == DOMAIN jobs \subseteq Key /\ \A key \in DOMAIN jobs : jobs[key] \in RightJobs(key)

\* A cache holds final plans, and with a plan of the forward pass that is apart
\* from those of the others, the others.
PlansRight ==
  /\ DOMAIN plans = Cache
  /\ \A c \in Cache : \A key \in DOMAIN plans[c] :
       /\ key \in Key /\ plans[c][key] = FinalPlan(key) /\ plans[c][key] \in Plan
       /\ key.pass = "FWD" => FinalCost(key) \in [Problem -> Cost]
       /\ Better(key) => KeyOf("BWD") \in DOMAIN plans[c] /\ KeyOf("WU") \in DOMAIN plans[c]

\* A call asks for the plan of the forward pass, or for that of its own pass when
\* the forward pass has no joint plan.
Asking ==
  /\ request \in [call : {"getPlan"}, cache : Cache, pass : Pass, key : Key]
  /\ \/ request.key.pass = "FWD"
     \/ request.key.pass = request.pass /\ FinalPlan(Given("FWD")).of # "joint"
  /\ jobs = <<>> \/ DOMAIN jobs = {request.key}
RequestRight ==
  \/ request = Idle
  \/ request = [call |-> "preplan", cache |-> "caller"]
  \/ Asking

AnswersRight == \A a \in answers : a \in Answer /\ a.plan = AnswerFor(a.pass)
Counted ==
  /\ layer \in Layers /\ requests \in 0 .. MaxRequests
  /\ \A c \in Cache : DOMAIN estimates[c] \subseteq Pass

PlansInv ==
  /\ Inv /\ Counted /\ JobsRight /\ PlansRight /\ RequestRight /\ AnswersRight

-----------------------------------------------------------------------------
\* All of it depends on the layer, which does not change.
LEMMA LayerStays ==
  ASSUME UNCHANGED layer
  PROVE  /\ \A key \in Key : /\ RightJobs(key)' = RightJobs(key)
                             /\ FinalPlan(key)' = FinalPlan(key)
                             /\ FinalCost(key)' = FinalCost(key)
                             /\ Better(key)' <=> Better(key)
         /\ \A pass : KeyOf(pass)' = KeyOf(pass)
         /\ \A pass \in Pass : AnswerFor(pass)' = AnswerFor(pass)
PROOF
<1>1. MemBound' = MemBound /\ (HasMemBound' <=> HasMemBound)
  BY DEF MemBound, HasMemBound
<1>2. ASSUME NEW p, NEW b PROVE CostAt(p, b)' = CostAt(p, b)
  <2> DEFINE Costs(l) == {[cycles |-> d.units * l.estimate[ShapeOf(p)], temp |-> d.temp] :
                            d \in {e \in l.candidates[p] : e.temp <= b}}
  <2>1. CostAt(p, b) = Cheapest(Costs(layer))
    BY DEF CostAt, Search
  <2>2. CostAt(p, b)' = Cheapest(Costs(layer'))
    BY DEF CostAt, Search, Cheapest, Unset, ShapeOf
  <2> HIDE DEF Costs
  <2> QED BY <2>1, <2>2
<1>3. FirstBound' = FirstBound
  BY <1>1 DEF FirstBound
<1>4. ASSUME NEW p PROVE /\ \A b : Ends(p, b)' <=> Ends(p, b)
                         /\ Bounds(p)' = Bounds(p) /\ EndBounds(p)' = EndBounds(p)
  <2>1. \A b : Ends(p, b)' <=> Ends(p, b)
    BY <1>2 DEF Ends, IsSet, Unset
  <2>2. Raised(p)' = Raised(p)
    BY <2>1 DEF Raised, NextBound
  <2>3. Bounds(p)' = Bounds(p)
    BY <1>3, <2>2 DEF Bounds, Reach, Closed
  <2>4. EndBounds(p)' = EndBounds(p)
    BY <2>1, <2>3 DEF EndBounds
  <2> QED BY <2>1, <2>3, <2>4
<1>5. ASSUME NEW p PROVE CyclesCost(p)' = CyclesCost(p) /\ MemoryCost(p)' = MemoryCost(p)
  <2>1. CyclesCost(p)' = CyclesCost(p)
    <3>1. PICK b : b = MemBound
      OBVIOUS
    <3>2. CostAt(p, b)' = CostAt(p, b) /\ b = MemBound'
      BY <1>1, <1>2, <3>1
    <3> QED BY <1>1, <3>1, <3>2 DEF CyclesCost, Unset
  <2>2. MemoryCost(p)' = MemoryCost(p)
    <3>1. PICK b : b = CHOOSE c \in EndBounds(p) : TRUE
      OBVIOUS
    <3>2. b = (CHOOSE c \in EndBounds(p) : TRUE)'
      BY <1>4, <3>1
    <3>3. CostAt(p, b)' = CostAt(p, b)
      BY <1>2
    <3> QED BY <1>4, <2>1, <3>1, <3>2, <3>3 DEF MemoryCost, IsSet, Unset
  <2> QED BY <2>1, <2>2
<1>6. ASSUME NEW key, NEW at
      PROVE  /\ CyclesCosts(key, at)' = CyclesCosts(key, at)
             /\ MemoryCosts(key, at)' = MemoryCosts(key, at)
  <2>1. Before(key, at)' = Before(key, at) /\ Before(key, 5)' = Before(key, 5)
    BY DEF Before, Problems
  <2> QED BY <1>5, <2>1 DEF CyclesCosts, MemoryCosts, Unset
<1>7. ASSUME NEW cost PROVE SeparateIsBetter(cost)' <=> SeparateIsBetter(cost)
  BY <1>1 DEF SeparateIsBetter, Separate, Unset, IsSet
<1>8. \A pass : KeyOf(pass)' = KeyOf(pass)
  BY DEF KeyOf, Validated
<1>9. ASSUME NEW key
      PROVE  /\ MetByCycles(key)' <=> MetByCycles(key)
             /\ FinalCost(key)' = FinalCost(key) /\ (Better(key)' <=> Better(key))
             /\ FinalOutput(key)' = FinalOutput(key) /\ FinalPlan(key)' = FinalPlan(key)
  <2>1. MetByCycles(key)' <=> MetByCycles(key)
    <3>1. PICK cost : cost = CyclesCosts(key, 5)
      OBVIOUS
    <3>2. cost = CyclesCosts(key, 5)'
      BY <1>6, <3>1
    <3>3. Met(key, cost)' <=> Met(key, cost)
      BY DEF Met, Separate, Unset, IsSet
    <3> QED BY <1>1, <3>1, <3>2, <3>3 DEF MetByCycles
  <2>2. FinalCost(key)' = FinalCost(key)
    BY <1>6, <2>1 DEF FinalCost
  <2>3. PICK cost : cost = FinalCost(key)
    OBVIOUS
  <2>4. cost = FinalCost(key)'
    BY <2>2, <2>3
  <2>5. Better(key)' <=> Better(key)
    BY <1>7, <2>3, <2>4 DEF Better
  <2>6. Output(key, cost)' = Output(key, cost)
    BY <1>7, <1>8 DEF Output
  <2>7. FinalOutput(key)' = FinalOutput(key)
    BY <2>3, <2>4, <2>6 DEF FinalOutput
  <2>8. FinalPlan(key)' = FinalPlan(key)
    BY <2>7 DEF FinalPlan, Last
  <2> QED BY <2>1, <2>2, <2>5, <2>7, <2>8
<1>10. ASSUME NEW key, NEW job PROVE JobRight(key, job)' <=> JobRight(key, job)
  <2>1. Searching(key, job)' <=> Searching(key, job)
    BY <1>1, <1>4, <1>5, <1>6, <1>9 DEF Searching, Problems, IsSet, Unset
  <2>2. Ended(key, job)' <=> Ended(key, job)
    BY <1>9 DEF Ended, IsSet, Unset, Problem, Pass, Cost
  <2>3. (job \in Job)' <=> job \in Job
    BY DEF Job, Key, Outcome, Problem, Pass, Cost
  <2> QED BY <2>1, <2>2, <2>3 DEF JobRight
<1>11. ASSUME NEW key PROVE RightJobs(key)' = RightJobs(key)
  BY <1>10 DEF RightJobs
<1>12. ASSUME NEW pass PROVE AnswerFor(pass)' = AnswerFor(pass)
  BY <1>9 DEF AnswerFor, Derived, Given
<1> QED BY <1>8, <1>9, <1>11, <1>12

-----------------------------------------------------------------------------
(* Steps of the jobs *)

\* A job that goes on with the estimate of its search stays right.
LEMMA SearchKeeps ==
  ASSUME PlansInv, NEW key \in DOMAIN jobs, jobs[key].pc \in {"find", "insert"},
         NEW n, n = layer.estimate[ShapeAt(key)], UNCHANGED layer,
         jobs' = [jobs EXCEPT ![key] = SearchWith(key, n)]
  PROVE  JobsRight' /\ DOMAIN jobs' = DOMAIN jobs
PROOF
<1>1. key \in Key /\ jobs[key] \in Job /\ JobRight(key, jobs[key]) /\ layer \in Layers
  BY DEF PlansInv, JobsRight, RightJobs, Counted
<1>2. SearchWith(key, n)
        = Continue(jobs[key], key, CostAt(Problems(key)[jobs[key].at], jobs[key].bound))
  BY DEF SearchWith, CostAt, ShapeAt
<1>3. JobRight(key, SearchWith(key, n))
  BY <1>1, <1>2, ContinueRight
<1>4. SearchWith(key, n) \in RightJobs(key)
  BY <1>3 DEF RightJobs, JobRight
<1>5. ASSUME NEW k \in DOMAIN jobs PROVE jobs'[k] \in RightJobs(k)
  BY <1>4 DEF PlansInv, JobsRight
<1>6. DOMAIN jobs' = DOMAIN jobs /\ DOMAIN jobs \subseteq Key
  BY DEF PlansInv, JobsRight
<1>7. \A k \in DOMAIN jobs : RightJobs(k)' = RightJobs(k)
  BY <1>6, LayerStays
<1> QED BY <1>5, <1>6, <1>7 DEF JobsRight

\* What a step of the jobs leaves alone
LEMMA OthersKeep ==
  ASSUME PlansInv, UNCHANGED <<layer, plans, answers>>
  PROVE  PlansRight' /\ AnswersRight'
PROOF
<1>1. PlansRight /\ AnswersRight
  BY DEF PlansInv
<1>2. PlansRight'
  <2>1. \A k \in Key : /\ FinalPlan(k)' = FinalPlan(k) /\ FinalCost(k)' = FinalCost(k)
                       /\ (Better(k)' <=> Better(k))
    BY LayerStays
  <2>2. \A p : KeyOf(p)' = KeyOf(p)
    BY LayerStays
  <2>3. \A c \in Cache : \A k \in DOMAIN plans[c] : k \in Key
    BY <1>1 DEF PlansRight
  <2> QED BY <1>1, <2>1, <2>2, <2>3 DEF PlansRight
<1>3. AnswersRight'
  <2>1. \A p \in Pass : AnswerFor(p)' = AnswerFor(p)
    BY LayerStays
  <2>2. \A a \in answers : a.pass \in Pass
    BY <1>1 DEF AnswersRight, Answer
  <2> QED BY <1>1, <2>1, <2>2 DEF AnswersRight
<1> QED BY <1>2, <1>3

LEMMA RequestKeeps ==
  ASSUME PlansInv, UNCHANGED <<layer, request>>,
         DOMAIN jobs' = DOMAIN jobs, jobs # <<>>
  PROVE  RequestRight'
PROOF
<1>1. RequestRight
  BY DEF PlansInv
<1>2. FinalPlan(Given("FWD"))' = FinalPlan(Given("FWD"))
  BY LayerStays DEF Given, Key, Pass
<1>3. Asking => Asking'
  BY <1>2 DEF Asking, Given
<1> QED BY <1>1, <1>3 DEF RequestRight, Idle

LEMMA PlannerKeeps ==
  ASSUME PlansInv, NEW key \in DOMAIN jobs, PlannerStep(key)
  PROVE  PlansInv'
PROOF
<1>1. key \in Key /\ jobs[key] \in Job /\ JobRight(key, jobs[key])
      /\ \A c \in Cache : DOMAIN estimates[c] \subseteq Pass
      /\ DOMAIN estimates = Cache
  BY DEF PlansInv, JobsRight, RightJobs, Counted, Inv, Shape
<1>2. Inv'
  BY FindKeeps, MissKeeps, InsertKeeps DEF PlannerStep, PlansInv
<1>3. UNCHANGED <<layer, plans, request, answers, requests>>
  BY DEF PlannerStep, FindEstimate, MissEstimate, InsertEstimate
<1>4. jobs[key].pc \in {"find", "insert"}
  BY DEF PlannerStep, FindEstimate, MissEstimate, InsertEstimate
<1>5. request # Idle /\ request.cache \in Cache /\ jobs # <<>>
  BY DEF PlansInv, Inv, Shape
<1>6. jobs[key].at \in DOMAIN Problems(key) /\ ShapeAt(key) \in Pass
  <2>1. Searching(key, jobs[key])
    BY <1>1, <1>4 DEF JobRight
  <2>2. jobs[key].at \in DOMAIN Problems(key)
    BY <2>1 DEF Searching
  <2>3. Problems(key)[jobs[key].at] \in Problem
    BY <1>1, <2>2, BeforeTyped
  <2> QED BY <2>2, <2>3, LayerTyped DEF ShapeAt, PlansInv, Counted
<1>7. JobsRight' /\ DOMAIN jobs' = DOMAIN jobs
  <2>1. CASE FindEstimate(key)
    <3>1. Table[ShapeAt(key)] = layer.estimate[ShapeAt(key)]
      BY <1>5, <2>1 DEF FindEstimate, Table, PlansInv, Inv, EstimatesExact
    <3>2. jobs' = [jobs EXCEPT ![key] = SearchWith(key, Table[ShapeAt(key)])]
      BY <2>1 DEF FindEstimate
    <3> QED BY <1>3, <1>4, <3>1, <3>2, SearchKeeps
  <2>2. CASE MissEstimate(key)
    <3> DEFINE update == [pc |-> "insert", estimate |-> layer.estimate[ShapeAt(key)]]
               w == With(jobs[key], update)
    <3>1. jobs' = [jobs EXCEPT ![key] = w]
      BY <2>2 DEF MissEstimate
    <3>2. /\ DOMAIN update = {"pc", "estimate"} /\ update.pc = "insert"
          /\ update.estimate \in Nat
      BY <1>6, LayerTyped DEF PlansInv, Counted
    <3> HIDE DEF update
    <3>3. /\ w \in Job /\ w.pc = FieldOf(jobs[key], update, "pc")
          /\ w.at = FieldOf(jobs[key], update, "at")
          /\ w.round = FieldOf(jobs[key], update, "round")
          /\ w.bound = FieldOf(jobs[key], update, "bound")
          /\ w.cost = FieldOf(jobs[key], update, "cost")
      BY <1>1, <3>2, WithTyped
    <3>4. /\ w.pc = "insert" /\ w.at = jobs[key].at /\ w.round = jobs[key].round
          /\ w.bound = jobs[key].bound /\ w.cost = jobs[key].cost
      BY <3>2, <3>3 DEF FieldOf
    <3> HIDE DEF w
    <3>5. Searching(key, jobs[key])
      BY <1>1, <1>4 DEF JobRight
    <3>6. Searching(key, w)
      BY <3>4, <3>5 DEF Searching
    <3>7. w \in RightJobs(key)
      BY <3>3, <3>4, <3>6 DEF RightJobs, JobRight
    <3>8. DOMAIN jobs' = DOMAIN jobs /\ DOMAIN jobs \subseteq Key
      BY <3>1 DEF PlansInv, JobsRight
    <3>9. \A k \in DOMAIN jobs : jobs'[k] \in RightJobs(k)
      BY <3>1, <3>7 DEF PlansInv, JobsRight
    <3>10. \A k \in DOMAIN jobs : RightJobs(k)' = RightJobs(k)
      BY <1>3, <3>8, LayerStays
    <3> QED BY <3>8, <3>9, <3>10 DEF JobsRight
  <2>3. CASE InsertEstimate(key)
    <3>1. jobs[key].estimate = layer.estimate[ShapeAt(key)]
      BY <2>3 DEF InsertEstimate, PlansInv, Inv, EstimatesExact
    <3>2. jobs' = [jobs EXCEPT ![key] = SearchWith(key, jobs[key].estimate)]
      BY <2>3 DEF InsertEstimate
    <3> QED BY <1>3, <1>4, <3>1, <3>2, SearchKeeps
  <2> QED BY <2>1, <2>2, <2>3 DEF PlannerStep
<1>8. Counted'
  <2>1. \A c \in Cache : DOMAIN estimates'[c] \subseteq Pass
    <3>1. CASE InsertEstimate(key)
      <4>1. estimates' = [estimates EXCEPT ![request.cache] =
                            Inserted(estimates[request.cache], ShapeAt(key), jobs[key].estimate)]
        BY <3>1 DEF InsertEstimate
      <4>2. DOMAIN Inserted(estimates[request.cache], ShapeAt(key), jobs[key].estimate)
              = DOMAIN estimates[request.cache] \cup {ShapeAt(key)}
        BY DEF Inserted
      <4> QED BY <1>1, <1>5, <1>6, <4>1, <4>2
    <3>2. CASE UNCHANGED estimates
      BY <1>1, <3>2
    <3> QED BY <3>1, <3>2 DEF PlannerStep, FindEstimate, MissEstimate
  <2> QED BY <1>3, <2>1 DEF Counted, PlansInv
<1>9. RequestRight'
  BY <1>3, <1>5, <1>7, RequestKeeps
<1>10. PlansRight' /\ AnswersRight'
  BY <1>3, OthersKeep
<1> QED BY <1>2, <1>7, <1>8, <1>9, <1>10 DEF PlansInv

-----------------------------------------------------------------------------
(* Steps of the calls *)

\* What a job that has ended gives the cache
LEMMA DoneRight ==
  ASSUME PlansInv, NEW key \in DOMAIN jobs, jobs[key].pc = "done"
  PROVE  /\ key \in Key /\ FinalCost(key) \in [Problem -> Cost]
         /\ jobs[key].output = FinalOutput(key) /\ IsSet(FinalPlan(key).cost)
PROOF
<1>1. key \in Key /\ JobRight(key, jobs[key])
  BY DEF PlansInv, JobsRight, RightJobs
<1> QED BY <1>1 DEF JobRight, Ended

\* The cache keeps final plans, whichever job is the first to give it one.
LEMMA WithPlansRight ==
  ASSUME PlansInv, NEW table, NEW c \in Cache, table = plans[c],
         NEW len \in Nat, NEW S, S = 1 .. len, NEW order \in [S -> DOMAIN jobs],
         \A key \in DOMAIN jobs : jobs[key].pc = "done",
         NEW new, new = WithPlans(table, [i \in DOMAIN order |-> jobs[order[i]].output])
  PROVE  \A key \in DOMAIN new :
           /\ key \in Key /\ new[key] = FinalPlan(key) /\ new[key] \in Plan
           /\ key.pass = "FWD" => FinalCost(key) \in [Problem -> Cost]
           /\ Better(key) => KeyOf("BWD") \in DOMAIN new /\ KeyOf("WU") \in DOMAIN new
PROOF
<1> DEFINE outputs == [i \in DOMAIN order |-> jobs[order[i]].output]
           Right(key) == /\ key \in Key /\ FinalPlan(key) \in Plan
                         /\ key.pass = "FWD" => FinalCost(key) \in [Problem -> Cost]
<1>1. DOMAIN outputs = S /\ \A i \in S : outputs[i] = FinalOutput(order[i])
  BY DoneRight
<1>2. ASSUME NEW i \in S, NEW k, Makes(outputs[i], k)
      PROVE  /\ Right(k) /\ MadeFor(outputs[i], k) = FinalPlan(k)
             /\ Better(k) => /\ Makes(outputs[i], KeyOf("BWD")) /\ KeyOf("BWD") \in Key
                             /\ Makes(outputs[i], KeyOf("WU")) /\ KeyOf("WU") \in Key
  <2> DEFINE o == order[i]
  <2>1. /\ layer \in Layers /\ o \in Key /\ FinalCost(o) \in [Problem -> Cost]
        /\ IsSet(FinalPlan(o).cost) /\ outputs[i] = FinalOutput(o)
    BY <1>1, DoneRight DEF PlansInv, Counted
  <2> HIDE DEF outputs, o
  <2>2. /\ k \in Key /\ (k.pass = "FWD" => k = o)
        /\ MadeFor(outputs[i], k) = FinalPlan(k)
        /\ IsSet(FinalPlan(k).cost) /\ FinalPlan(k) \in Outcome
    BY <1>2, <2>1, OutputRight
  <2>3. Better(o) => /\ Makes(outputs[i], KeyOf("BWD")) /\ Makes(outputs[i], KeyOf("WU"))
    BY <2>1, OutputRight
  <2>4. KeyOf("BWD") \in Key /\ KeyOf("WU") \in Key
    BY DEF KeyOf, Key, Validated, Pass
  <2>5. Better(k) => k = o
    BY <2>2 DEF Better
  <2> QED BY <2>1, <2>2, <2>3, <2>4, <2>5 DEF Plan
<1>3. /\ DOMAIN new = DOMAIN table \cup {k \in Key : \E i \in DOMAIN outputs : Makes(outputs[i], k)}
      /\ \A k \in DOMAIN new : new[k] =
           IF k \in DOMAIN table THEN table[k]
           ELSE LET first == CHOOSE i \in DOMAIN outputs : /\ Makes(outputs[i], k)
                                              /\ \A j \in 1 .. i - 1 : ~ Makes(outputs[j], k)
                IN MadeFor(outputs[first], k)
  <2> HIDE DEF outputs
  <2> DEFINE All == DOMAIN table \cup {k \in Key : \E i \in DOMAIN outputs : Makes(outputs[i], k)}
             At(k) == IF k \in DOMAIN table THEN table[k]
                      ELSE LET first == CHOOSE i \in DOMAIN outputs :
                                 /\ Makes(outputs[i], k)
                                 /\ \A j \in 1 .. i - 1 : ~ Makes(outputs[j], k)
                           IN MadeFor(outputs[first], k)
  <2>1. new = WithPlans(table, outputs)
    BY DEF outputs
  <2>2. new = [k \in All |-> At(k)]
    BY <2>1 DEF WithPlans
  <2> HIDE DEF All, At
  <2>3. DOMAIN new = All /\ \A k \in DOMAIN new : new[k] = At(k)
    BY <2>2
  <2> QED BY <2>3 DEF All, At
<1> HIDE DEF outputs
<1>4. ASSUME NEW k \in DOMAIN table
      PROVE  /\ Right(k) /\ table[k] = FinalPlan(k)
             /\ Better(k) => KeyOf("BWD") \in DOMAIN table /\ KeyOf("WU") \in DOMAIN table
  BY DEF PlansInv, PlansRight
<1> HIDE DEF Right
<1>5. ASSUME NEW k \in DOMAIN new, k \in DOMAIN table
      PROVE  /\ Right(k) /\ new[k] = FinalPlan(k)
             /\ Better(k) => KeyOf("BWD") \in DOMAIN new /\ KeyOf("WU") \in DOMAIN new
  BY <1>3, <1>4, <1>5
<1>6. ASSUME NEW k \in DOMAIN new, k \notin DOMAIN table
      PROVE  /\ Right(k) /\ new[k] = FinalPlan(k)
             /\ Better(k) => KeyOf("BWD") \in DOMAIN new /\ KeyOf("WU") \in DOMAIN new
  <2> DEFINE makers == {i \in S : Makes(outputs[i], k)}
             first == CHOOSE i \in DOMAIN outputs :
                        /\ Makes(outputs[i], k)
                        /\ \A j \in 1 .. i - 1 : ~ Makes(outputs[j], k)
  <2>1. makers # {} /\ makers \subseteq Nat
    BY <1>1, <1>3, <1>6
  <2>2. PICK n \in makers : \A m \in makers : n <= m
    BY <2>1, Smallest
  <2>3. n \in S /\ n \in Nat /\ Makes(outputs[n], k)
    BY <2>1, <2>2
  <2>4. ASSUME NEW j \in 1 .. n - 1 PROVE ~ Makes(outputs[j], k)
    <3>1. j \in S /\ j < n
      BY <2>3
    <3>2. ~ (n <= j)
      BY <2>3, <3>1
    <3> QED BY <2>2, <3>1, <3>2
  <2>5. first \in S /\ Makes(outputs[first], k)
    BY <1>1, <2>3, <2>4
  <2>6. new[k] = MadeFor(outputs[first], k)
    BY <1>3, <1>6
  <2> HIDE DEF first, makers
  <2>7. /\ Right(k) /\ MadeFor(outputs[first], k) = FinalPlan(k)
        /\ Better(k) => /\ Makes(outputs[first], KeyOf("BWD")) /\ KeyOf("BWD") \in Key
                        /\ Makes(outputs[first], KeyOf("WU")) /\ KeyOf("WU") \in Key
    BY <1>2, <2>5
  <2>8. first \in DOMAIN outputs
    BY <1>1, <2>5
  <2>9. \A l \in Key : Makes(outputs[first], l) => l \in DOMAIN new
    BY <1>3, <2>8
  <2> QED BY <2>6, <2>7, <2>9
<1> QED BY <1>5, <1>6 DEF Right

LEMMA PlanForms ==
  ASSUME NEW key \in Key
  PROVE  /\ FinalPlan(key).pass = key.pass
         /\ key.pass # "FWD" => FinalPlan(key).of = key.pass
         /\ key.pass = "FWD" => FinalPlan(key).of = IF Better(key) THEN "FWD" ELSE "joint"
PROOF
<1>1. \A of, pass : Made(key, of, pass).plan.of = of /\ Made(key, of, pass).plan.pass = pass
  BY DEF Made
<1>2. CASE key.pass # "FWD"
  <2>1. FinalPlan(key) = Made(key, key.pass, key.pass).plan
    BY <1>2, OutputForms
  <2> QED BY <1>1, <1>2, <2>1
<1>3. CASE key.pass = "FWD" /\ ~ Better(key)
  <2>1. FinalPlan(key) = Made(key, "joint", "FWD").plan
    BY <1>3, OutputForms
  <2> QED BY <1>1, <1>3, <2>1
<1>4. CASE Better(key)
  <2>1. FinalPlan(key) = Made(key, "FWD", "FWD").plan /\ key.pass = "FWD"
    BY <1>4, OutputForms DEF Better
  <2> QED BY <1>1, <1>4, <2>1
<1> QED BY <1>2, <1>3, <1>4 DEF Better

\* What getPlan does with the plan of its key
LEMMA RestRight ==
  ASSUME PlansInv, Asking, UNCHANGED layer, jobs' = <<>>,
         NEW plan \in Plan, plan = FinalPlan(request.key), Rest(plan)
  PROVE  AnswersRight' /\ RequestRight'
PROOF
<1> DEFINE key == request.key
           pass == request.pass
           fwd == FinalPlan(Given("FWD"))
<1>1. /\ key \in Key /\ pass \in Pass /\ Given("FWD") \in Key /\ Given("FWD").pass = "FWD"
      /\ Given(pass) \in Key /\ Given(pass).pass = pass
      /\ request \in [call : {"getPlan"}, cache : Cache, pass : Pass, key : Key]
      /\ key.pass = "FWD" \/ (key.pass = pass /\ fwd.of # "joint")
  BY DEF Asking, Given, Key, Pass
<1>2. key.pass = "FWD" => plan = fwd
  BY <1>1, SameByPass
<1>3. key.pass = pass => plan = FinalPlan(Given(pass))
  BY <1>1, SameByPass
<1>4. plan \in Outcome /\ plan.pass = key.pass /\ (key.pass # "FWD" => plan.of # "joint")
  BY <1>1, PlanForms DEF Plan, Pass
<1>5. \A a \in answers : a \in Answer /\ a.plan = AnswerFor(a.pass) /\ a.pass \in Pass
  BY DEF PlansInv, AnswersRight, Answer
<1>6. \A p \in Pass : AnswerFor(p)' = AnswerFor(p)
  BY LayerStays
<1>7. fwd' = fwd
  BY <1>1, LayerStays DEF Given
<1>8. CASE key.pass = pass \/ plan.of = "joint"
  <2> DEFINE a == [pass |-> pass, plan |-> Derived(plan, pass)]
  <2>1. answers' = answers \cup {a} /\ request' = Idle
    BY <1>8 DEF Rest
  <2>2. Derived(plan, pass) \in Plan
    BY <1>1, <1>4 DEF Derived, Plan, Outcome, IsSet
  <2>3. Derived(plan, pass) = AnswerFor(pass)
    <3>1. CASE fwd.of = "joint"
      <4>1. key.pass = "FWD"
        BY <1>1, <3>1
      <4> QED BY <1>2, <3>1, <4>1 DEF AnswerFor
    <3>2. CASE fwd.of # "joint"
      <4>1. key.pass = pass
        BY <1>2, <1>4, <1>8, <3>2
      <4>2. Derived(plan, pass) = plan
        BY <1>4, <4>1 DEF Derived, Outcome
      <4> QED BY <1>3, <3>2, <4>1, <4>2 DEF AnswerFor
    <3> QED BY <3>1, <3>2
  <2>4. a \in Answer /\ a.plan = AnswerFor(a.pass) /\ a.pass \in Pass
    BY <1>1, <2>2, <2>3 DEF Answer
  <2> HIDE DEF a, key, pass, fwd
  <2>5. \A b \in answers' : b \in Answer /\ b.plan = AnswerFor(b.pass) /\ b.pass \in Pass
    BY <1>5, <2>1, <2>4
  <2>6. AnswersRight'
    BY <1>6, <2>5 DEF AnswersRight, Answer, Pass, Plan, Outcome, Problem, Cost, IsSet, Unset
  <2> QED BY <2>1, <2>6 DEF RequestRight, Idle
<1>9. CASE ~ (key.pass = pass \/ plan.of = "joint")
  <2>1. answers' = answers /\ request' = [request EXCEPT !.key = Given(pass)]
    BY <1>9 DEF Rest
  <2>2. fwd.of # "joint"
    BY <1>1, <1>2, <1>9
  <2>3. /\ request' \in [call : {"getPlan"}, cache : Cache, pass : Pass, key : Key]
        /\ request'.key = Given(pass) /\ request'.pass = pass
    BY <1>1, <2>1
  <2>4. request'.key.pass = request'.pass
    BY <1>1, <2>3
  <2>5. FinalPlan(Given("FWD"))'.of # "joint"
    BY <1>7, <2>2
  <2> HIDE DEF key, pass, fwd
  <2>6. Asking'
    BY <2>3, <2>4, <2>5 DEF Asking, Cache, Pass, Key, Given
  <2>7. AnswersRight'
    BY <1>5, <1>6, <2>1 DEF AnswersRight, Answer, Pass, Plan, Outcome, Problem, Cost, IsSet, Unset
  <2> QED BY <2>6, <2>7 DEF RequestRight
<1> QED BY <1>8, <1>9

\* As many jobs as there are keys, at most
LEMMA CountOfKeys ==
  ASSUME NEW S \in SUBSET Key PROVE Cardinality(S) \in Nat
PROOF
<1> DEFINE K(p, o) == [pass |-> p, options |-> o]
<1>1. ASSUME NEW x, NEW y, NEW z PROVE IsFiniteSet({x, y, z})
  <2>1. IsFiniteSet({x})
    BY FS_Singleton
  <2>2. IsFiniteSet({x} \cup {y})
    BY <2>1, FS_AddElement
  <2>3. IsFiniteSet(({x} \cup {y}) \cup {z})
    BY <2>2, FS_AddElement
  <2>4. ({x} \cup {y}) \cup {z} = {x, y, z}
    OBVIOUS
  <2> QED BY <2>3, <2>4
<1> DEFINE given == {K("FWD", "given"), K("BWD", "given"), K("WU", "given")}
           valid == {K("FWD", "validated"), K("BWD", "validated"), K("WU", "validated")}
<1>2. IsFiniteSet(given \cup valid)
  <2>1. IsFiniteSet(given) /\ IsFiniteSet(valid)
    BY <1>1
  <2> HIDE DEF given, valid
  <2> QED BY <2>1, FS_Union
<1>3. ASSUME NEW k \in Key PROVE k \in given \cup valid
  <2>1. k = K(k.pass, k.options) /\ k.pass \in Pass /\ k.options \in {"given", "validated"}
    BY DEF Key
  <2> QED BY <2>1 DEF Pass
<1>4. S \in SUBSET (given \cup valid)
  BY <1>3
<1> HIDE DEF given, valid
<1> QED BY <1>2, <1>4, FS_Subset, FS_CardinalityType

LEMMA NewJobsRight ==
  ASSUME PlansInv, UNCHANGED layer, NEW keys \in SUBSET Key,
         jobs' = [key \in keys |-> NewJob(key)]
  PROVE  JobsRight'
PROOF
<1>1. \A key \in keys : NewJob(key) \in RightJobs(key)
  BY NewJobRight DEF PlansInv, Counted, RightJobs, JobRight
<1>2. \A key \in keys : RightJobs(key)' = RightJobs(key)
  BY LayerStays
<1>3. DOMAIN jobs' = keys /\ \A key \in keys : jobs'[key] \in RightJobs(key)
  BY <1>1
<1> QED BY <1>2, <1>3 DEF JobsRight, Key, Pass

LEMMA PreplanKeeps ==
  ASSUME PlansInv, NEW passes \in SUBSET Pass, passes # {}, Preplan(passes)
  PROVE  PlansInv'
PROOF
<1>1. /\ UNCHANGED <<layer, plans, estimates, answers>> /\ requests < MaxRequests
      /\ request' = [call |-> "preplan", cache |-> "caller"] /\ requests' = requests + 1
  BY DEF Preplan
<1>2. Inv'
  <2>1. passes \in (SUBSET Pass) \ {{}}
    OBVIOUS
  <2>2. \E s \in (SUBSET Pass) \ {{}} : Preplan(s)
    BY <2>1
  <2>3. Inv
    BY DEF PlansInv
  <2> QED BY <2>2, <2>3, CallsKeep
<1>3. {Given(p) : p \in passes} \in SUBSET Key
  BY DEF Given, Key
<1>4. JobsRight'
  BY <1>1, <1>3, NewJobsRight DEF Preplan
<1>5. Counted'
  BY <1>1, LayerTyped, BoundsAssumption DEF PlansInv, Counted
<1>6. RequestRight'
  BY <1>1 DEF RequestRight
<1> QED BY <1>1, <1>2, <1>4, <1>5, <1>6, OthersKeep DEF PlansInv

LEMMA GetPlanKeeps ==
  ASSUME PlansInv, NEW pass \in Pass, NEW cache \in Cache, GetPlan(pass, cache)
  PROVE  PlansInv'
PROOF
<1> DEFINE key == IF pass = "FWD" THEN Given("FWD") ELSE KeyOf("FWD")
<1>1. /\ UNCHANGED <<layer, plans, estimates, jobs, answers>> /\ requests < MaxRequests
      /\ request' = [call |-> "getPlan", cache |-> cache, pass |-> pass, key |-> key]
      /\ requests' = requests + 1 /\ request = Idle
  BY DEF GetPlan
<1>2. Inv'
  BY CallsKeep DEF PlansInv
<1>3. jobs = <<>>
  BY <1>1 DEF PlansInv, Inv, Shape
<1>4. key \in Key /\ key.pass = "FWD"
  BY DEF Given, KeyOf, Validated, Key, Pass
<1> HIDE DEF key
<1>5. /\ request' \in [call : {"getPlan"}, cache : Cache, pass : Pass, key : Key]
      /\ request'.key.pass = "FWD" /\ jobs' = <<>>
  BY <1>1, <1>3, <1>4
<1>6. RequestRight'
  BY <1>5 DEF RequestRight, Asking, Cache, Pass, Key
<1>7. Counted'
  BY <1>1, BoundsAssumption DEF PlansInv, Counted
<1>8. JobsRight'
  <2>1. \A k \in Key : RightJobs(k)' = RightJobs(k)
    BY <1>1, LayerStays
  <2> QED BY <1>1, <2>1 DEF PlansInv, JobsRight, Key, Pass
<1> QED BY <1>1, <1>2, <1>6, <1>7, <1>8, OthersKeep DEF PlansInv

\* No job is left.
LEMMA NoJobs ==
  ASSUME jobs' = <<>>
  PROVE  JobsRight'
PROOF
<1>1. DOMAIN jobs' = {}
  OBVIOUS
<1> QED BY <1>1 DEF JobsRight

\* A call that asks does so with all that is known of it.
LEMMA AsksRight ==
  ASSUME PlansInv, request.call = "getPlan"
  PROVE  /\ Asking /\ request.key \in Key /\ request.cache \in Cache
         /\ request.pass \in Pass /\ request # Idle
PROOF
<1>1. request # Idle /\ request # [call |-> "preplan", cache |-> "caller"]
  BY DEF Idle
<1>2. Asking
  BY <1>1 DEF PlansInv, RequestRight
<1> QED BY <1>1, <1>2 DEF Asking

LEMMA FindPlanKeeps ==
  ASSUME PlansInv, FindPlan
  PROVE  PlansInv'
PROOF
<1>1. /\ request.call = "getPlan" /\ jobs = <<>> /\ request.key \in DOMAIN plans["caller"]
      /\ Rest(plans["caller"][request.key])
      /\ UNCHANGED <<layer, plans, estimates, jobs, requests>>
  BY DEF FindPlan
<1>2. Inv'
  BY CallsKeep DEF PlansInv
<1>3. Asking
  BY <1>1, AsksRight
<1>4. /\ plans["caller"][request.key] = FinalPlan(request.key)
      /\ plans["caller"][request.key] \in Plan
  BY <1>1 DEF PlansInv, PlansRight, Cache
<1>5. AnswersRight' /\ RequestRight'
  BY <1>1, <1>3, <1>4, RestRight
<1>6. PlansRight'
  <2>1. \A k \in Key : /\ FinalPlan(k)' = FinalPlan(k) /\ FinalCost(k)' = FinalCost(k)
                       /\ (Better(k)' <=> Better(k))
    BY <1>1, LayerStays
  <2>2. \A p : KeyOf(p)' = KeyOf(p)
    BY <1>1, LayerStays
  <2>3. \A c \in Cache : \A k \in DOMAIN plans[c] : k \in Key
    BY DEF PlansInv, PlansRight
  <2> QED BY <1>1, <2>1, <2>2, <2>3 DEF PlansInv, PlansRight
<1>7. Counted'
  BY <1>1 DEF PlansInv, Counted
<1> QED BY <1>1, <1>2, <1>5, <1>6, <1>7, NoJobs DEF PlansInv

LEMMA MissPlanKeeps ==
  ASSUME PlansInv, MissPlan
  PROVE  PlansInv'
PROOF
<1>1. /\ request.call = "getPlan"
      /\ plans' = [plans EXCEPT !["temp"] = <<>>]
      /\ estimates' = [estimates EXCEPT !["temp"] = <<>>]
      /\ jobs' = [key \in {request.key} |-> NewJob(key)]
      /\ UNCHANGED <<layer, request, answers, requests>>
  BY DEF MissPlan
<1>2. Inv'
  BY CallsKeep DEF PlansInv
<1>3. Asking /\ request.key \in Key
  BY <1>1, AsksRight
<1>4. JobsRight'
  BY <1>1, <1>3, NewJobsRight
<1>5. Counted'
  <2>1. \A c \in Cache : DOMAIN estimates'[c] \subseteq Pass
    <3>1. DOMAIN estimates = Cache /\ \A c \in Cache : DOMAIN estimates[c] \subseteq Pass
      BY DEF PlansInv, Inv, Shape, Counted
    <3>2. DOMAIN <<>> = {}
      OBVIOUS
    <3> QED BY <1>1, <3>1, <3>2
  <2> QED BY <1>1, <2>1 DEF PlansInv, Counted, Cache
<1>6. RequestRight'
  <2>1. FinalPlan(Given("FWD"))' = FinalPlan(Given("FWD"))
    BY <1>1, LayerStays DEF Given, Key, Pass
  <2>2. DOMAIN jobs' = {request.key}
    BY <1>1
  <2>3. Asking'
    BY <1>1, <1>3, <2>1, <2>2 DEF Asking, Given, Cache, Pass, Key
  <2> QED BY <2>3 DEF RequestRight
<1>7. AnswersRight'
  <2>1. \A p \in Pass : AnswerFor(p)' = AnswerFor(p)
    BY <1>1, LayerStays
  <2>2. \A a \in answers : a.pass \in Pass
    BY DEF PlansInv, AnswersRight, Answer
  <2> QED BY <1>1, <2>1, <2>2
      DEF PlansInv, AnswersRight, Answer, Pass, Plan, Outcome, Problem, Cost, IsSet, Unset
<1>8. PlansRight'
  <2>1. \A k \in Key : /\ FinalPlan(k)' = FinalPlan(k) /\ FinalCost(k)' = FinalCost(k)
                       /\ (Better(k)' <=> Better(k))
    BY <1>1, LayerStays
  <2>2. \A p : KeyOf(p)' = KeyOf(p)
    BY <1>1, LayerStays
  <2>3. DOMAIN plans = Cache
    BY DEF PlansInv, PlansRight
  <2>4. /\ DOMAIN plans' = Cache
        /\ \A c \in Cache : c # "temp" => plans'[c] = plans[c]
        /\ DOMAIN plans'["temp"] = {}
    BY <1>1, <2>3 DEF Cache
  <2>5. ASSUME NEW c \in Cache, NEW k \in DOMAIN plans'[c]
        PROVE  k \in DOMAIN plans[c] /\ plans'[c] = plans[c]
    BY <2>4, <2>5
  <2>6. \A c \in Cache : \A k \in DOMAIN plans[c] : k \in Key
    BY DEF PlansInv, PlansRight
  <2>7. PlansRight
    BY DEF PlansInv
  <2> QED BY <2>1, <2>2, <2>4, <2>5, <2>6, <2>7
      DEF PlansRight, Cache, Plan, Outcome, Problem, Pass, Cost, IsSet, Unset, Key
<1> QED BY <1>2, <1>4, <1>5, <1>6, <1>7, <1>8 DEF PlansInv

LEMMA ThrowKeeps ==
  ASSUME PlansInv, Throw
  PROVE  PlansInv'
PROOF
<1>1. jobs' = <<>> /\ request' = Idle /\ UNCHANGED <<layer, plans, estimates, answers, requests>>
  BY DEF Throw
<1>2. Inv'
  BY CallsKeep DEF PlansInv
<1>3. RequestRight' /\ Counted'
  BY <1>1 DEF PlansInv, RequestRight, Counted, Idle
<1> QED BY <1>1, <1>2, <1>3, OthersKeep, NoJobs DEF PlansInv

LEMMA CommitKeeps ==
  ASSUME PlansInv, Commit
  PROVE  PlansInv'
PROOF
<1>1. /\ jobs # <<>> /\ \A key \in DOMAIN jobs : jobs[key].pc = "done"
      /\ jobs' = <<>> /\ UNCHANGED <<layer, estimates, requests>>
  BY DEF Commit
<1>2. Inv'
  BY CallsKeep DEF PlansInv
<1>3. request # Idle /\ request.cache \in Cache
  BY <1>1 DEF PlansInv, Inv, Shape
<1>4. PlansRight'
  <2>1. PICK order \in Bijection(1 .. Cardinality(DOMAIN jobs), DOMAIN jobs) :
          plans' = [plans EXCEPT ![request.cache] =
                      WithPlans(plans[request.cache],
                                [i \in DOMAIN order |-> jobs[order[i]].output])]
    BY DEF Commit
  <2> DEFINE table == plans[request.cache]
             new == WithPlans(table, [i \in DOMAIN order |-> jobs[order[i]].output])
  <2>2. /\ order \in [1 .. Cardinality(DOMAIN jobs) -> DOMAIN jobs]
        /\ Cardinality(DOMAIN jobs) \in Nat
    BY CountOfKeys DEF Bijection, Injection, PlansInv, JobsRight
  <2>3. \A key \in DOMAIN new :
           /\ key \in Key /\ new[key] = FinalPlan(key) /\ new[key] \in Plan
           /\ key.pass = "FWD" => FinalCost(key) \in [Problem -> Cost]
           /\ Better(key) => KeyOf("BWD") \in DOMAIN new /\ KeyOf("WU") \in DOMAIN new
    <3>1. PICK len \in Nat : len = Cardinality(DOMAIN jobs)
      BY <2>2
    <3>2. PICK S : S = 1 .. len
      OBVIOUS
    <3>3. PICK t : t = table
      OBVIOUS
    <3>4. order \in [S -> DOMAIN jobs]
      BY <2>2, <3>1, <3>2
    <3>5. PICK n : n = new
      OBVIOUS
    <3>6. n = WithPlans(t, [i \in DOMAIN order |-> jobs[order[i]].output])
      BY <3>3, <3>5
    <3>7. PICK c \in Cache : c = request.cache
      BY <1>3
    <3>8. t = plans[c]
      BY <3>3, <3>7
    <3> HIDE DEF new, table
    <3>9. \A key \in DOMAIN n :
           /\ key \in Key /\ n[key] = FinalPlan(key) /\ n[key] \in Plan
           /\ key.pass = "FWD" => FinalCost(key) \in [Problem -> Cost]
           /\ Better(key) => KeyOf("BWD") \in DOMAIN n /\ KeyOf("WU") \in DOMAIN n
      BY <1>1, <3>2, <3>4, <3>6, <3>8, WithPlansRight, SMTT(40), ZenonT(40)
    <3> QED BY <3>5, <3>9
  <2>4. DOMAIN plans = Cache /\ PlansRight
    BY DEF PlansInv, PlansRight
  <2> HIDE DEF new
  <2>5. plans' = [plans EXCEPT ![request.cache] = new]
    BY <2>1 DEF new
  <2>6. /\ DOMAIN plans' = Cache /\ plans'[request.cache] = new
        /\ \A c \in Cache : c # request.cache => plans'[c] = plans[c]
    BY <1>3, <2>4, <2>5
  <2>7. ASSUME NEW c \in Cache, NEW key \in DOMAIN plans'[c]
        PROVE  /\ key \in Key /\ plans'[c][key] = FinalPlan(key) /\ plans'[c][key] \in Plan
               /\ key.pass = "FWD" => FinalCost(key) \in [Problem -> Cost]
               /\ Better(key) => /\ KeyOf("BWD") \in DOMAIN plans'[c]
                                 /\ KeyOf("WU") \in DOMAIN plans'[c]
    <3>1. CASE c = request.cache
      BY <2>3, <2>6, <2>7, <3>1
    <3>2. CASE c # request.cache
      BY <2>4, <2>6, <2>7, <3>2 DEF PlansRight
    <3> QED BY <3>1, <3>2
  <2>8. \A k \in Key : /\ FinalPlan(k)' = FinalPlan(k) /\ FinalCost(k)' = FinalCost(k)
                       /\ (Better(k)' <=> Better(k))
    BY <1>1, LayerStays
  <2>9. \A p : KeyOf(p)' = KeyOf(p)
    BY <1>1, LayerStays
  <2> QED BY <2>6, <2>7, <2>8, <2>9
      DEF PlansRight, Cache, Plan, Outcome, Problem, Pass, Cost, IsSet, Unset, Key
<1>5. RequestRight' /\ AnswersRight'
  <2>1. CASE request.call = "preplan"
    <3>1. request' = Idle /\ UNCHANGED answers
      BY <2>1 DEF Commit
    <3>2. \A p \in Pass : AnswerFor(p)' = AnswerFor(p)
      BY <1>1, LayerStays
    <3>3. \A a \in answers : a.pass \in Pass
      BY DEF PlansInv, AnswersRight, Answer
    <3>4. AnswersRight'
      BY <3>1, <3>2, <3>3
        DEF PlansInv, AnswersRight, Answer, Pass, Plan, Outcome, Problem, Cost, IsSet, Unset
    <3> QED BY <3>1, <3>4 DEF RequestRight, Idle
  <2>2. CASE request.call # "preplan"
    <3>1. Asking
      BY <1>3, <2>2 DEF PlansInv, RequestRight
    <3>2. request.key \in DOMAIN jobs
      BY <1>1, <3>1 DEF Asking
    <3>3. Rest(Last(jobs[request.key].output).plan)
      BY <2>2 DEF Commit
    <3>4. /\ request.key \in Key /\ FinalCost(request.key) \in [Problem -> Cost]
          /\ jobs[request.key].output = FinalOutput(request.key)
          /\ IsSet(FinalPlan(request.key).cost)
      BY <1>1, <3>2, DoneRight
    <3>5. Last(jobs[request.key].output).plan = FinalPlan(request.key)
      BY <3>4 DEF FinalPlan
    <3>6. FinalPlan(request.key) \in Plan
      <4>1. layer \in Layers
        BY DEF PlansInv, Counted
      <4>2. Makes(FinalOutput(request.key), request.key)
        BY <3>4, <4>1, OutputRight
      <4> QED BY <3>4, <4>1, <4>2, OutputRight DEF Plan
    <3> QED BY <1>1, <3>1, <3>3, <3>5, <3>6, RestRight
  <2> QED BY <2>1, <2>2
<1>6. Counted'
  BY <1>1 DEF PlansInv, Counted
<1> QED BY <1>1, <1>2, <1>4, <1>5, <1>6, NoJobs DEF PlansInv

-----------------------------------------------------------------------------
(* Theorems *)

LEMMA InitPlans == Init => PlansInv
PROOF
<1> SUFFICES ASSUME Init PROVE PlansInv
  OBVIOUS
<1>1. Inv
  BY InitExact
<1>2. DOMAIN <<>> = {}
  OBVIOUS
<1>3. Counted /\ PlansRight
  BY <1>2, BoundsAssumption DEF Init, Counted, PlansRight
<1>4. JobsRight
  BY <1>2 DEF Init, JobsRight
<1>5. RequestRight /\ AnswersRight
  BY DEF Init, RequestRight, AnswersRight
<1> QED BY <1>1, <1>3, <1>4, <1>5 DEF PlansInv

LEMMA StepPlans == PlansInv /\ [Next]_vars => PlansInv'
PROOF
<1> SUFFICES ASSUME PlansInv, [Next]_vars PROVE PlansInv'
  OBVIOUS
<1>1. ASSUME NEW passes \in (SUBSET Pass) \ {{}}, Preplan(passes) PROVE PlansInv'
  BY <1>1, PreplanKeeps
<1>2. ASSUME NEW pass \in Pass, NEW cache \in Cache, GetPlan(pass, cache) PROVE PlansInv'
  BY <1>2, GetPlanKeeps
<1>3. ASSUME NEW key \in DOMAIN jobs, PlannerStep(key) PROVE PlansInv'
  BY <1>3, PlannerKeeps
<1>4. CASE UNCHANGED vars
  <2>1. UNCHANGED <<layer, plans, estimates, request, jobs, answers, requests>>
    BY <1>4 DEF vars
  <2>2. Inv'
    <3>1. \A key : ShapeAt(key)' = ShapeAt(key)
      BY <2>1 DEF ShapeAt
    <3> QED BY <2>1, <3>1 DEF PlansInv, Inv, Shape, EstimatesExact
  <2>3. Counted'
    BY <2>1 DEF PlansInv, Counted
  <2>4. JobsRight'
    <3>1. \A k \in Key : RightJobs(k)' = RightJobs(k)
      BY <2>1, LayerStays
    <3> QED BY <2>1, <3>1 DEF PlansInv, JobsRight, Key, Pass
  <2>5. RequestRight'
    <3>1. FinalPlan(Given("FWD"))' = FinalPlan(Given("FWD"))
      BY <2>1, LayerStays DEF Given, Key, Pass
    <3> QED BY <2>1, <3>1 DEF PlansInv, RequestRight, Asking, Given, Idle
  <2> QED BY <2>1, <2>2, <2>3, <2>4, <2>5, OthersKeep DEF PlansInv
<1> QED BY <1>1, <1>2, <1>3, <1>4, FindPlanKeeps, MissPlanKeeps, CommitKeeps, ThrowKeeps
    DEF Next

\* Whatever was planned before, by which calls, jobs and caches, what getPlan
\* answers and what a cache holds is the plan that the layer alone determines
\* (ConvPlan.cpp:1692-1753, PlanningCache.hpp).
THEOREM PlansAreDetermined == Spec => []PlansInv
PROOF BY InitPlans, StepPlans, PTL DEF Spec

LEMMA AnswersAgree == PlansInv => SameAnswer /\ PassesAgree
PROOF
<1> SUFFICES ASSUME PlansInv PROVE SameAnswer /\ PassesAgree
  OBVIOUS
<1>1. \A a \in answers : a.pass \in Pass /\ a.plan = AnswerFor(a.pass)
  BY DEF PlansInv, AnswersRight, Answer
<1>2. SameAnswer
  BY <1>1 DEF SameAnswer
<1>3. ASSUME NEW a \in answers
      PROVE  IF FinalPlan(Given("FWD")).of = "joint"
             THEN a.plan.of = "joint" /\ a.plan.cost = FinalPlan(Given("FWD")).cost
             ELSE a.plan.of # "joint"
  <2>1. Given("FWD") \in Key /\ Given(a.pass) \in Key /\ Given(a.pass).pass = a.pass
        /\ Given("FWD").pass = "FWD" /\ a.pass \in Pass
    BY <1>1 DEF Given, Key, Pass
  <2>2. CASE FinalPlan(Given("FWD")).of = "joint"
    <3>1. a.plan = Derived(FinalPlan(Given("FWD")), a.pass)
      BY <1>1, <2>2 DEF AnswerFor
    <3> DEFINE fwd == FinalPlan(Given("FWD"))
    <3>2. fwd = Made(Given("FWD"), "joint", "FWD").plan
      BY <2>1, <2>2, PlanForms, OutputForms DEF Better
    <3>3. fwd.of = "joint" /\ DOMAIN fwd = {"of", "pass", "cost"}
      BY <3>2 DEF Made
    <3> HIDE DEF fwd
    <3>4. Derived(fwd, a.pass).of = fwd.of /\ Derived(fwd, a.pass).cost = fwd.cost
      BY <3>3 DEF Derived
    <3> QED BY <2>2, <3>1, <3>3, <3>4 DEF fwd
  <2>3. CASE FinalPlan(Given("FWD")).of # "joint"
    <3>1. a.plan = FinalPlan(Given(a.pass))
      BY <1>1, <2>3 DEF AnswerFor
    <3>2. a.pass # "FWD" => FinalPlan(Given(a.pass)).of = a.pass
      BY <2>1, PlanForms
    <3> QED BY <2>1, <2>3, <3>1, <3>2 DEF Pass
  <2> QED BY <2>2, <2>3
<1>4. PassesAgree
  BY <1>3 DEF PassesAgree
<1> QED BY <1>2, <1>4

LEMMA PlansTyped == PlansInv => TypeOK
PROOF
<1> SUFFICES ASSUME PlansInv PROVE TypeOK
  OBVIOUS
<1>1. layer \in Layers /\ requests \in 0 .. MaxRequests
  BY DEF PlansInv, Counted
<1>2. ASSUME NEW c \in Cache
      PROVE  /\ DOMAIN plans[c] \subseteq Key
             /\ \A key \in DOMAIN plans[c] : plans[c][key] \in Plan
             /\ DOMAIN estimates[c] \subseteq Pass
             /\ \A p \in DOMAIN estimates[c] : estimates[c][p] \in Nat
  <2>1. DOMAIN estimates[c] \subseteq Pass
    BY DEF PlansInv, Counted
  <2>2. \A p \in DOMAIN estimates[c] : estimates[c][p] = layer.estimate[p]
    BY DEF PlansInv, Inv, EstimatesExact
  <2> QED BY <1>1, <2>1, <2>2, LayerTyped DEF PlansInv, PlansRight
<1>3. DOMAIN jobs \subseteq Key /\ \A key \in DOMAIN jobs : jobs[key] \in Job
  BY DEF PlansInv, JobsRight, RightJobs
<1>4. answers \subseteq Answer
  BY DEF PlansInv, AnswersRight
<1> QED BY <1>1, <1>2, <1>3, <1>4 DEF TypeOK

\* The plan of a pass does not depend on what was planned before, in which order,
\* by which job or with which cache, and the plans of a layer's passes are all
\* derived from one joint plan, or none is (ConvPlan.cpp:1714-1745).
THEOREM PlansAlwaysAgree == Spec => []PlansAgree
PROOF
<1>1. PlansInv => PlansAgree
  BY AnswersAgree, PlansTyped DEF PlansAgree
<1> QED BY <1>1, PlansAreDetermined, PTL

-----------------------------------------------------------------------------
(* The bound on memory *)

\* The cost of passes that each have a plan
LEMMA SeparateSums ==
  ASSUME NEW cost, NEW bound \in Nat,
         \A p \in Pass : /\ IsSet(cost[p]) /\ cost[p].cycles \in Nat
                         /\ cost[p].temp \in Nat
  PROVE  /\ Separate(cost).cycles
              = cost["FWD"].cycles + cost["BWD"].cycles + cost["WU"].cycles
         /\ Separate(cost).temp \in Nat
         /\ Separate(cost).temp <= bound <=> \A p \in Pass : cost[p].temp <= bound
PROOF
<1> DEFINE temps == {cost[p].temp : p \in Pass}
           most == CHOOSE m \in temps : \A p \in Pass : cost[p].temp <= m
           sum == cost["FWD"].cycles + cost["BWD"].cycles + cost["WU"].cycles
<1>1. Separate(cost) = [cycles |-> sum, temp |-> most]
  BY DEF Separate
<1>2. \E m \in temps : \A p \in Pass : cost[p].temp <= m
  <2> DEFINE f == cost["FWD"].temp
             b == cost["BWD"].temp
             w == cost["WU"].temp
  <2>1. f \in Nat /\ b \in Nat /\ w \in Nat /\ f \in temps /\ b \in temps /\ w \in temps
    BY DEF Pass
  <2>2. \A m : f <= m /\ b <= m /\ w <= m => \A p \in Pass : cost[p].temp <= m
    <3> SUFFICES ASSUME NEW m, f <= m, b <= m, w <= m, NEW p \in Pass
                 PROVE  cost[p].temp <= m
      OBVIOUS
    <3> QED BY DEF Pass
  <2> HIDE DEF f, b, w, temps
  <2>3. \E m \in {f, b, w} : f <= m /\ b <= m /\ w <= m
    BY <2>1
  <2> QED BY <2>1, <2>2, <2>3
<1>3. most \in temps /\ \A p \in Pass : cost[p].temp <= most
  BY <1>2
<1>4. most \in Nat
  BY <1>3
<1>5. most <= bound <=> \A p \in Pass : cost[p].temp <= bound
  <2>1. PICK q \in Pass : most = cost[q].temp
    BY <1>3
  <2>2. \A p \in Pass : cost[p].temp \in Nat /\ cost[p].temp <= most
    BY <1>3
  <2> HIDE DEF most
  <2> QED BY <1>4, <2>1, <2>2
<1> HIDE DEF most, sum
<1> QED BY <1>1, <1>4, <1>5 DEF sum

\* What a search within the bound finds
LEMMA WithinBound ==
  ASSUME layer \in Layers, NEW p \in Problem
  PROVE  LET c == CostAt(p, MemBound)
         IN /\ c.cycles \in Nat /\ c.temp \in Nat
            /\ IsSet(c) => c.temp <= MemBound /\ 3 * c.cycles < MaxCost /\ c.temp < MaxCost
            /\ ~ IsSet(c) => c = Unset /\ c.temp = MaxCost /\ c.cycles = MaxCost
            /\ \A d \in layer.candidates[p] :
                 d.temp <= MemBound => IsSet(c) /\ c.cycles <= CyclesOf(p, d)
PROOF
<1> DEFINE c == CostAt(p, MemBound)
<1>1. /\ MemBound \in Nat /\ MaxCost \in Nat
      /\ \A d \in layer.candidates[p] :
           d.temp < MaxCost /\ CyclesOf(p, d) \in Nat /\ 3 * CyclesOf(p, d) < MaxCost
  BY LayerTyped
<1>2. /\ c \in Cost
      /\ IsSet(c) => \E d \in layer.candidates[p] :
           d.temp <= MemBound /\ c = [cycles |-> CyclesOf(p, d), temp |-> d.temp]
      /\ \A d \in layer.candidates[p] :
           d.temp <= MemBound => IsSet(c) /\ c.cycles <= CyclesOf(p, d)
  BY <1>1, SearchRight
<1> HIDE DEF c
<1>3. c.cycles \in Nat /\ c.temp \in Nat
  BY <1>1, <1>2 DEF Cost
<1>4. ASSUME IsSet(c)
      PROVE  c.temp <= MemBound /\ 3 * c.cycles < MaxCost /\ c.temp < MaxCost
  <2>1. PICK d \in layer.candidates[p] :
          d.temp <= MemBound /\ c = [cycles |-> CyclesOf(p, d), temp |-> d.temp]
    BY <1>2, <1>4
  <2>2. c.cycles = CyclesOf(p, d) /\ c.temp = d.temp
    BY <2>1
  <2> QED BY <1>1, <2>1, <2>2
<1>5. ~ IsSet(c) => c = Unset /\ c.temp = MaxCost /\ c.cycles = MaxCost
  BY DEF IsSet, Unset
<1> QED BY <1>2, <1>3, <1>4, <1>5 DEF c

Fitting == {c \in JointCosts \cup SeparateCosts : c.temp <= MemBound}

\* A cost that fits is that of a joint plan that fits, or of one per pass.
LEMMA FittingForms ==
  ASSUME layer \in Layers, NEW c \in Fitting
  PROVE  \/ \E d \in layer.candidates["joint"] :
              d.temp <= MemBound /\ c.cycles = CyclesOf("joint", d)
         \/ \E f, b, w :
              /\ f \in layer.candidates["FWD"] /\ f.temp <= MemBound
              /\ b \in layer.candidates["BWD"] /\ b.temp <= MemBound
              /\ w \in layer.candidates["WU"] /\ w.temp <= MemBound
              /\ c.cycles = CyclesOf("FWD", f) + CyclesOf("BWD", b) + CyclesOf("WU", w)
PROOF
<1>1. CASE c \in JointCosts
  <2>1. PICK d \in layer.candidates["joint"] :
          c = [cycles |-> d.units * layer.estimate["FWD"], temp |-> d.temp]
    BY <1>1 DEF JointCosts
  <2>2. c.cycles = CyclesOf("joint", d) /\ c.temp = d.temp
    BY <2>1 DEF CyclesOf, ShapeOf
  <2> QED BY <2>2 DEF Fitting
<1>2. CASE c \in SeparateCosts
  <2>1. PICK choice : /\ \A p \in Pass : choice[p] \in layer.candidates[p]
                      /\ c = Separate([p \in Problem |->
                               IF p = "joint" THEN Unset
                               ELSE [cycles |-> choice[p].units * layer.estimate[p],
                                     temp |-> choice[p].temp]])
    BY <1>2 DEF SeparateCosts
  <2> DEFINE cost == [p \in Problem |->
                        IF p = "joint" THEN Unset
                        ELSE [cycles |-> choice[p].units * layer.estimate[p],
                              temp |-> choice[p].temp]]
  <2>2. ASSUME NEW p \in Pass
        PROVE  /\ IsSet(cost[p]) /\ cost[p].cycles \in Nat /\ cost[p].temp \in Nat
               /\ cost[p].cycles = CyclesOf(p, choice[p]) /\ cost[p].temp = choice[p].temp
    <3>1. p \in Problem /\ p # "joint" /\ ShapeOf(p) = p
      BY DEF Problem, Pass, ShapeOf
    <3>2. cost[p] = [cycles |-> choice[p].units * layer.estimate[p], temp |-> choice[p].temp]
      BY <3>1
    <3> HIDE DEF cost
    <3>3. cost[p].cycles = CyclesOf(p, choice[p]) /\ cost[p].temp = choice[p].temp
      BY <3>1, <3>2 DEF CyclesOf
    <3>4. /\ CyclesOf(p, choice[p]) \in Nat /\ choice[p].temp \in Nat
          /\ choice[p].temp < MaxCost /\ MaxCost \in Nat
      BY <2>1, <3>1, LayerTyped
    <3>5. Unset.temp = MaxCost
      BY DEF Unset
    <3>6. cost[p].temp # Unset.temp
      BY <3>3, <3>4, <3>5
    <3> QED BY <3>3, <3>4, <3>6 DEF IsSet
  <2>3. c = Separate(cost)
    BY <2>1
  <2> HIDE DEF cost
  <2>4. MemBound \in Nat /\ c.temp <= MemBound
    BY LayerTyped DEF Fitting
  <2>5. /\ c.cycles = cost["FWD"].cycles + cost["BWD"].cycles + cost["WU"].cycles
        /\ \A p \in Pass : cost[p].temp <= MemBound
    <3>1. \A p \in Pass : IsSet(cost[p]) /\ cost[p].cycles \in Nat /\ cost[p].temp \in Nat
      BY <2>2
    <3> QED BY <2>3, <2>4, <3>1, SeparateSums
  <2>6. \A p \in {"FWD", "BWD", "WU"} :
          /\ choice[p] \in layer.candidates[p] /\ choice[p].temp <= MemBound
          /\ cost[p].cycles = CyclesOf(p, choice[p])
    BY <2>1, <2>2, <2>5 DEF Pass
  <2> QED BY <2>5, <2>6
<1> QED BY <1>1, <1>2 DEF Fitting

\* If something fits, the plan of the forward pass is chosen among what the
\* searches within the bound have found.
LEMMA ChosenWithinBound ==
  ASSUME layer \in Layers, NEW key \in Key, key.pass = "FWD", Fitting # {}
  PROVE  \A p \in Problem : FinalCost(key)[p] = CostAt(p, MemBound)
PROOF
<1>1. \A p \in Problem : FinalCost(key)[p] =
         IF MetByCycles(key) THEN CyclesCost(p) ELSE MemoryCost(p)
  BY BeforeAll
<1>2. CASE HasMemBound
  <2>1. \A p \in Problem : CyclesCosts(key, 5)[p] = CostAt(p, MemBound)
    BY <1>2, BeforeAll DEF CyclesCosts, CyclesCost
  <2>2. MetByCycles(key)
    <3> DEFINE costs == CyclesCosts(key, 5)
    <3>1. PICK c \in Fitting : TRUE
      OBVIOUS
    <3>2. CASE \E d \in layer.candidates["joint"] : d.temp <= MemBound
      <4>1. IsSet(CostAt("joint", MemBound))
        BY <3>2, WithinBound DEF Problem
      <4>2. IsSet(costs["joint"])
        BY <2>1, <4>1 DEF Problem
      <4> QED BY <1>2, <4>2 DEF MetByCycles, Met
    <3>3. CASE \A p \in {"FWD", "BWD", "WU"} :
                 \E d \in layer.candidates[p] : d.temp <= MemBound
      <4>1. ASSUME NEW p \in Pass
            PROVE  /\ IsSet(costs[p]) /\ costs[p].cycles \in Nat /\ costs[p].temp \in Nat
                   /\ costs[p].temp < MaxCost /\ 3 * costs[p].cycles < MaxCost
        <5>1. p \in {"FWD", "BWD", "WU"} /\ p \in Problem
          BY DEF Pass, Problem
        <5>2. IsSet(CostAt(p, MemBound))
          BY <3>3, <5>1, WithinBound
        <5>3. costs[p] = CostAt(p, MemBound)
          BY <2>1, <5>1
        <5> HIDE DEF costs
        <5> QED BY <5>1, <5>2, <5>3, WithinBound
      <4> HIDE DEF costs
      <4>2. Separate(costs).cycles
              = costs["FWD"].cycles + costs["BWD"].cycles + costs["WU"].cycles
        <5>1. \A p \in Pass : IsSet(costs[p]) /\ costs[p].cycles \in Nat
                              /\ costs[p].temp \in Nat
          BY <4>1
        <5> QED BY <5>1, SeparateSums
      <4>3. Separate(costs).cycles # Unset.cycles
        <5>1. /\ costs["FWD"].cycles \in Nat /\ 3 * costs["FWD"].cycles < MaxCost
              /\ costs["BWD"].cycles \in Nat /\ 3 * costs["BWD"].cycles < MaxCost
              /\ costs["WU"].cycles \in Nat /\ 3 * costs["WU"].cycles < MaxCost
          BY <4>1 DEF Pass
        <5>2. MaxCost \in Nat /\ Unset.cycles = MaxCost
          BY LayerTyped DEF Unset
        <5> QED BY <4>2, <5>1, <5>2
      <4>4. IsSet(Separate(costs))
        BY <4>3 DEF IsSet
      <4> QED BY <1>2, <4>4 DEF MetByCycles, Met, costs
    <3>4. \/ \E d \in layer.candidates["joint"] : d.temp <= MemBound
          \/ \A p \in {"FWD", "BWD", "WU"} :
               \E d \in layer.candidates[p] : d.temp <= MemBound
      BY <3>1, FittingForms
    <3> QED BY <3>2, <3>3, <3>4
  <2> QED BY <1>1, <1>2, <2>2 DEF CyclesCost
<1>3. CASE ~ HasMemBound
  <2>1. FirstBound = MaxCost /\ MemBound = MaxCost
    BY <1>3 DEF FirstBound, MemBound
  <2>2. ASSUME NEW p \in Problem PROVE MemoryCost(p) = CostAt(p, MemBound)
    <3>1. ~ IsSet(CyclesCost(p))
      BY <1>3 DEF CyclesCost, IsSet
    <3>2. MemBound \in Bounds(p) /\ Ends(p, MemBound)
      BY <2>1, BoundsTyped DEF Ends
    <3> QED BY <3>1, <3>2, MemoryFound
  <2> QED BY <1>1, <1>3, <2>2 DEF MetByCycles
<1> QED BY <1>2, <1>3

\* What fits has no fewer cycles than the plans found, jointly or one by one.
LEMMA NoneIsBetter ==
  ASSUME layer \in Layers, NEW cost,
         \A p \in Problem : cost[p] = CostAt(p, MemBound), NEW c \in Fitting
  PROVE  /\ c.cycles \in Nat
         /\ \/ IsSet(cost["joint"]) /\ cost["joint"].cycles <= c.cycles
            \/ (\A p \in Pass : IsSet(cost[p])) /\ Separate(cost).cycles <= c.cycles
PROOF
<1>1. \A p \in Problem : \A d \in layer.candidates[p] : CyclesOf(p, d) \in Nat
  BY LayerTyped
<1>2. ASSUME NEW p \in Problem
      PROVE  /\ cost[p].cycles \in Nat /\ cost[p].temp \in Nat
             /\ \A d \in layer.candidates[p] :
                  d.temp <= MemBound => IsSet(cost[p]) /\ cost[p].cycles <= CyclesOf(p, d)
  BY WithinBound
<1>3. "joint" \in Problem /\ "FWD" \in Problem /\ "BWD" \in Problem /\ "WU" \in Problem
      /\ Pass = {"FWD", "BWD", "WU"}
  BY DEF Problem, Pass
<1>4. CASE \E d \in layer.candidates["joint"] :
             d.temp <= MemBound /\ c.cycles = CyclesOf("joint", d)
  BY <1>1, <1>2, <1>3, <1>4
<1>5. CASE \E f, b, w :
             /\ f \in layer.candidates["FWD"] /\ f.temp <= MemBound
             /\ b \in layer.candidates["BWD"] /\ b.temp <= MemBound
             /\ w \in layer.candidates["WU"] /\ w.temp <= MemBound
             /\ c.cycles = CyclesOf("FWD", f) + CyclesOf("BWD", b) + CyclesOf("WU", w)
  <2>1. PICK f, b, w :
             /\ f \in layer.candidates["FWD"] /\ f.temp <= MemBound
             /\ b \in layer.candidates["BWD"] /\ b.temp <= MemBound
             /\ w \in layer.candidates["WU"] /\ w.temp <= MemBound
             /\ c.cycles = CyclesOf("FWD", f) + CyclesOf("BWD", b) + CyclesOf("WU", w)
    BY <1>5
  <2>2. /\ IsSet(cost["FWD"]) /\ cost["FWD"].cycles <= CyclesOf("FWD", f)
        /\ IsSet(cost["BWD"]) /\ cost["BWD"].cycles <= CyclesOf("BWD", b)
        /\ IsSet(cost["WU"]) /\ cost["WU"].cycles <= CyclesOf("WU", w)
    BY <1>2, <1>3, <2>1
  <2>3. \A p \in Pass : IsSet(cost[p]) /\ cost[p].cycles \in Nat /\ cost[p].temp \in Nat
    BY <1>2, <1>3, <2>2
  <2>4. MemBound \in Nat
    BY LayerTyped
  <2>5. Separate(cost).cycles
          = cost["FWD"].cycles + cost["BWD"].cycles + cost["WU"].cycles
    BY <2>3, <2>4, SeparateSums
  <2>6. /\ cost["FWD"].cycles \in Nat /\ cost["BWD"].cycles \in Nat
        /\ cost["WU"].cycles \in Nat /\ CyclesOf("FWD", f) \in Nat
        /\ CyclesOf("BWD", b) \in Nat /\ CyclesOf("WU", w) \in Nat
    BY <1>1, <1>2, <1>3, <2>1
  <2> QED BY <2>1, <2>2, <2>3, <2>5, <2>6
<1> QED BY <1>4, <1>5, FittingForms

\* The choice between the joint plan and the separate ones is right.
LEMMA ChoiceRight ==
  ASSUME layer \in Layers, NEW cost \in [Problem -> Cost],
         \A p \in Problem : cost[p] = CostAt(p, MemBound), NEW c \in Fitting
  PROVE  /\ SeparateIsBetter(cost) =>
              Separate(cost).temp <= MemBound /\ Separate(cost).cycles <= c.cycles
         /\ ~ SeparateIsBetter(cost) =>
              cost["joint"].temp <= MemBound /\ cost["joint"].cycles <= c.cycles
PROOF
<1> DEFINE joint == cost["joint"]
           sep == Separate(cost)
           All == \A p \in Pass : IsSet(cost[p])
<1>1. /\ MemBound \in Nat /\ MaxCost \in Nat /\ MemBound <= MaxCost
  BY LayerTyped
<1>2. ASSUME NEW p \in Problem
      PROVE  /\ cost[p].cycles \in Nat /\ cost[p].temp \in Nat
             /\ IsSet(cost[p]) => cost[p].temp <= MemBound /\ 3 * cost[p].cycles < MaxCost
             /\ ~ IsSet(cost[p]) => cost[p].temp = MaxCost /\ cost[p].cycles = MaxCost
  BY WithinBound
<1>3. /\ joint.cycles \in Nat /\ joint.temp \in Nat
      /\ IsSet(joint) => joint.temp <= MemBound
      /\ ~ IsSet(joint) => joint.temp = MaxCost /\ joint.cycles = MaxCost
  BY <1>2 DEF Problem
<1>4. ASSUME All
      PROVE  sep.temp \in Nat /\ sep.temp <= MemBound /\ sep.cycles \in Nat
             /\ sep.cycles < MaxCost
  <2>1. \A p \in Pass : p \in Problem
    BY DEF Problem
  <2>2. \A p \in Pass : /\ IsSet(cost[p]) /\ cost[p].cycles \in Nat /\ cost[p].temp \in Nat
                        /\ cost[p].temp <= MemBound
    BY <1>2, <1>4, <2>1
  <2>3. /\ cost["FWD"].cycles \in Nat /\ 3 * cost["FWD"].cycles < MaxCost
        /\ cost["BWD"].cycles \in Nat /\ 3 * cost["BWD"].cycles < MaxCost
        /\ cost["WU"].cycles \in Nat /\ 3 * cost["WU"].cycles < MaxCost
    BY <1>2, <1>4, <2>1 DEF Pass
  <2>4. /\ sep.cycles = cost["FWD"].cycles + cost["BWD"].cycles + cost["WU"].cycles
        /\ sep.temp \in Nat /\ sep.temp <= MemBound
    <3>1. \A p \in Pass : IsSet(cost[p]) /\ cost[p].cycles \in Nat /\ cost[p].temp \in Nat
      BY <2>2
    <3> HIDE DEF sep
    <3>2. /\ sep.cycles = cost["FWD"].cycles + cost["BWD"].cycles + cost["WU"].cycles
          /\ sep.temp \in Nat
          /\ sep.temp <= MemBound <=> \A p \in Pass : cost[p].temp <= MemBound
      BY <1>1, <3>1, SeparateSums DEF sep
    <3> QED BY <2>2, <3>2
  <2> HIDE DEF sep
  <2> QED BY <1>1, <2>3, <2>4
<1>5. /\ c.cycles \in Nat
      /\ \/ IsSet(joint) /\ joint.cycles <= c.cycles
         \/ All /\ sep.cycles <= c.cycles
  BY NoneIsBetter
<1>6. SeparateIsBetter(cost) => All
  BY BetterAreSet
<1>7. SeparateIsBetter(cost) <=>
        IF sep.temp <= MemBound THEN joint.temp > MemBound \/ sep.cycles < joint.cycles
        ELSE joint.temp > MemBound /\ sep.temp < joint.temp
  BY DEF SeparateIsBetter
<1> HIDE DEF sep, joint, All
<1>8. ASSUME SeparateIsBetter(cost) PROVE sep.temp <= MemBound /\ sep.cycles <= c.cycles
  <2>1. All /\ sep.temp <= MemBound /\ sep.cycles \in Nat
    BY <1>4, <1>6, <1>8
  <2>2. joint.temp > MemBound \/ sep.cycles < joint.cycles
    BY <1>7, <1>8, <2>1
  <2> QED BY <1>1, <1>3, <1>5, <2>1, <2>2
<1>9. ASSUME ~ SeparateIsBetter(cost)
      PROVE  joint.temp <= MemBound /\ joint.cycles <= c.cycles
  <2>1. CASE All
    <3>1. ~ (joint.temp > MemBound) /\ ~ (sep.cycles < joint.cycles) /\ sep.cycles \in Nat
      BY <1>4, <1>7, <1>9, <2>1
    <3> QED BY <1>1, <1>3, <1>5, <3>1
  <2>2. CASE ~ All
    BY <1>3, <1>5, <2>2
  <2> QED BY <2>1, <2>2
<1> QED BY <1>8, <1>9 DEF sep, joint

LEMMA FitsWhenItCan == PlansInv => FitsWithFewestCycles
PROOF
<1> DEFINE table == plans["caller"]
           Apart(key) == Separate([p \in Problem |->
               CASE p = "joint" -> Unset
                 [] p = "FWD"   -> table[key].cost
                 [] OTHER       -> table[KeyOf(p)].cost])
           CostOf(key) == IF table[key].of = "joint" THEN table[key].cost ELSE Apart(key)
<1> SUFFICES ASSUME PlansInv, Fitting # {}, NEW key \in DOMAIN table, key.pass = "FWD",
                    NEW c \in Fitting
             PROVE  CostOf(key).temp <= MemBound /\ CostOf(key).cycles <= c.cycles
  BY DEF FitsWithFewestCycles, Fitting
<1> DEFINE cost == FinalCost(key)
<1>1. /\ layer \in Layers /\ key \in Key /\ table[key] = FinalPlan(key)
      /\ cost \in [Problem -> Cost]
      /\ Better(key) => KeyOf("BWD") \in DOMAIN table /\ KeyOf("WU") \in DOMAIN table
      /\ \A k \in DOMAIN table : table[k] = FinalPlan(k)
  BY DEF PlansInv, Counted, PlansRight, Cache
<1>2. \A p \in Problem : cost[p] = CostAt(p, MemBound)
  BY <1>1, ChosenWithinBound
<1>3. /\ SeparateIsBetter(cost) =>
           Separate(cost).temp <= MemBound /\ Separate(cost).cycles <= c.cycles
      /\ ~ SeparateIsBetter(cost) =>
           cost["joint"].temp <= MemBound /\ cost["joint"].cycles <= c.cycles
  <2> HIDE DEF cost, table
  <2> QED BY <1>1, <1>2, ChoiceRight
<1>4. CASE ~ Better(key)
  <2>1. table[key].of = "joint" /\ table[key].cost = cost["joint"]
    <3>1. FinalPlan(key) = Made(key, "joint", "FWD").plan
      BY <1>1, <1>4, OutputForms
    <3>2. table[key] = Made(key, "joint", "FWD").plan
      BY <1>1, <3>1
    <3> HIDE DEF table
    <3> QED BY <3>2 DEF Made
  <2>2. ~ SeparateIsBetter(cost)
    BY <1>4 DEF Better
  <2> QED BY <1>3, <2>1, <2>2
<1>5. CASE Better(key)
  <2>1. table[key].of = "FWD" /\ table[key].cost = cost["FWD"]
    <3>1. FinalPlan(key) = Made(key, "FWD", "FWD").plan
      BY <1>1, <1>5, OutputForms
    <3>2. table[key] = Made(key, "FWD", "FWD").plan
      BY <1>1, <3>1
    <3> HIDE DEF table
    <3> QED BY <3>2 DEF Made
  <2>2. ASSUME NEW p \in {"BWD", "WU"} PROVE table[KeyOf(p)].cost = cost[p]
    <3>1. FinalPlan(KeyOf(p)) = [of |-> p, pass |-> p, cost |-> FinalCost(key)[p]]
      BY <1>1, <1>5, PlannedAlike
    <3>2. table[KeyOf(p)] = FinalPlan(KeyOf(p))
      BY <1>1, <1>5
    <3> HIDE DEF table, cost
    <3>3. table[KeyOf(p)].cost = FinalCost(key)[p]
      BY <3>1, <3>2
    <3> QED BY <3>3 DEF cost
  <2> DEFINE apart == [p \in Problem |->
               CASE p = "joint" -> Unset
                 [] p = "FWD"   -> table[key].cost
                 [] OTHER       -> table[KeyOf(p)].cost]
  <2>3. \A p \in Pass : apart[p] = cost[p]
    BY <2>1, <2>2 DEF Pass, Problem
  <2>4. Separate(apart) = Separate(cost)
    <3>1. "FWD" \in Pass /\ "BWD" \in Pass /\ "WU" \in Pass
      BY DEF Pass
    <3> HIDE DEF apart, cost, table
    <3> QED BY <2>3, <3>1, ZenonT(40) DEF Separate
  <2>5. CostOf(key) = Separate(cost)
    BY <2>1, <2>4
  <2>6. SeparateIsBetter(cost)
    BY <1>5 DEF Better
  <2> HIDE DEF CostOf, cost
  <2> QED BY <1>3, <2>5, <2>6
<1> QED BY <1>4, <1>5

\* If a layer can be planned within the bound on temporary memory, it is, with
\* the fewest cycles there are, counting the three passes together
\* (ConvPlan.cpp:1273-1432).
THEOREM AlwaysFitsWithFewestCycles == Spec => []FitsWithFewestCycles
PROOF BY FitsWhenItCan, PlansAreDetermined, PTL

-----------------------------------------------------------------------------
(* Parallel convolutions: arithmetic *)

LEMMA DivMod ==
  ASSUME NEW n \in Nat, NEW m \in Nat \ {0}
  PROVE  /\ n \div m \in Nat /\ n = (n \div m) * m + (n % m)
         /\ n % m \in 0 .. m - 1
PROOF BY Z3

LEMMA MultipleMod ==
  ASSUME NEW k \in Nat, NEW m \in Nat \ {0}
  PROVE  (k * m) % m = 0
PROOF BY Z3

LEMMA SmallMod ==
  ASSUME NEW n \in Nat, NEW m \in Nat, n < m
  PROVE  n % m = n
PROOF BY Z3

\* One share less is set aside for one convolution less.
LEMMA ShareLess ==
  ASSUME NEW k \in Int, NEW p \in Nat
  PROVE  /\ (k - 1) * p = k * p - p /\ k * p \in Int
         /\ k >= 0 => k * p >= 0
         /\ k >= 1 => k * p >= p
PROOF
<1>1. (k - 1) * p = k * p - p
  BY Z3
<1>2. k * p \in Int
  OBVIOUS
<1>3. ASSUME k >= 0 PROVE k * p >= 0
  BY <1>3, Z3
<1>4. ASSUME k >= 1 PROVE k * p >= p
  <2>1. (k - 1) * p >= 0
    BY <1>4, Z3
  <2> QED BY <1>1, <1>2, <2>1
<1> QED BY <1>1, <1>2, <1>3, <1>4

\* A number that unsigned holds does not wrap.
LEMMA Unwrapped ==
  ASSUME Enough, NEW n \in Nat, n < 2^UnsignedBits
  PROVE  AsUnsigned(n) = n
PROOF
<1>1. 2^UnsignedBits \in Nat
  BY DEF Enough
<1> QED BY <1>1, SmallMod DEF AsUnsigned

\* Rounding up goes to the next bus, and no further.
LEMMA RoundedUp ==
  ASSUME Enough, NEW used \in Nat
  PROVE  LET r == RoundUp(used, TilesPerBus)
         IN /\ r \in Nat /\ r >= used /\ r <= used + TilesPerBus - 1
            /\ \E k \in Nat : r = k * TilesPerBus
PROOF
<1>1. TilesPerBus \in Nat \ {0}
  BY DEF Enough
<1> DEFINE n == used + TilesPerBus - 1
           k == n \div TilesPerBus
<1>2. n \in Nat
  BY <1>1
<1>3. /\ k \in Nat /\ n = k * TilesPerBus + (n % TilesPerBus)
      /\ n % TilesPerBus \in 0 .. TilesPerBus - 1
  BY <1>1, <1>2, DivMod
<1>4. RoundUp(used, TilesPerBus) = k * TilesPerBus
  BY DEF RoundUp
<1> HIDE DEF k
<1>5. k * TilesPerBus \in Nat
  BY <1>1, <1>3
<1> QED BY <1>1, <1>3, <1>4, <1>5

LEMMA OnBusAfter ==
  ASSUME Enough, NEW n \in Nat, OnBus(n), NEW k \in Nat
  PROVE  OnBus(n + k * TilesPerBus)
PROOF
<1>1. TilesPerBus \in Nat \ {0}
  BY DEF Enough
<1>2. PICK bus \in 0 .. n : n = bus * TilesPerBus
  BY DEF OnBus
<1>3. n + k * TilesPerBus = (bus + k) * TilesPerBus
  BY <1>1, <1>2, Z3
<1>4. (bus + k) * TilesPerBus >= bus + k
  BY <1>1, <1>2, Z3
<1>5. n + k * TilesPerBus \in Nat /\ bus + k \in 0 .. n + k * TilesPerBus
  BY <1>1, <1>2, <1>3, <1>4
<1> QED BY <1>3, <1>5 DEF OnBus

LEMMA OnBusMod ==
  ASSUME Enough, NEW n \in Nat, OnBus(n)
  PROVE  n % TilesPerBus = 0
PROOF BY MultipleMod DEF OnBus, Enough

\* The share of a convolution: all of the shares fit, or there is one tile too few
\* and the largest convolution is offered none.
LEMMA Shares ==
  ASSUME Enough, NEW n \in TileCounts, NEW count \in ConvCounts,
         NEW option \in PerConvOptions
  PROVE  LET p == PerConv(n, count, option)
         IN /\ p \in Nat /\ p + 1 >= TilesPerBus
            /\ n = (count - 1) * p \/ n >= (count - 1) * p + p
PROOF
<1> DEFINE d == n \div count
<1>1. /\ n \in Nat \ {0} /\ count \in Nat \ {0} /\ option \in Nat /\ TilesPerBus \in Nat
      /\ n + 1 >= count /\ PerConv(n, count, option) + 1 >= TilesPerBus
  BY DEF Enough
<1>2. /\ d \in Nat /\ n = d * count + (n % count) /\ n % count \in 0 .. count - 1
  BY <1>1, DivMod
<1>3. \A p \in Nat : (count - 1) * p + p = count * p /\ count * p \in Nat
  BY <1>1, Z3
<1> HIDE DEF d
<1>4. CASE ~ (n < count * option)
  <2>1. PerConv(n, count, option) = option
    BY <1>4 DEF PerConv
  <2> QED BY <1>1, <1>3, <1>4, <2>1
<1>5. CASE n < count * option /\ d = 0
  <2>1. PerConv(n, count, option) = 1
    BY <1>5 DEF PerConv, Larger, d
  <2>2. n = count - 1
    BY <1>1, <1>2, <1>5
  <2> QED BY <1>1, <2>1, <2>2
<1>6. CASE n < count * option /\ d # 0
  <2>1. PerConv(n, count, option) = d
    BY <1>2, <1>6 DEF PerConv, Larger, d
  <2>2. count * d = d * count
    BY <1>1, <1>2, Z3
  <2>3. n >= count * d
    BY <1>1, <1>2, <1>3, <2>2
  <2> QED BY <1>1, <1>2, <1>3, <2>1, <2>3
<1> QED BY <1>2, <1>4, <1>5, <1>6

-----------------------------------------------------------------------------
(* One convolution more *)

\* The next convolution starts on a bus, behind the tiles this one uses.
LEMMA NextStartRight ==
  ASSUME Enough, tiles \in TileCounts, start \in Nat, OnBus(start),
         NEW used \in Nat, start + used <= tiles
  PROVE  /\ NextStart(used) \in Nat /\ OnBus(NextStart(used))
         /\ start + used <= NextStart(used)
         /\ NextStart(used) <= start + used + TilesPerBus - 1
PROOF
<1> DEFINE r == RoundUp(used, TilesPerBus)
<1>1. /\ tiles \in Nat /\ TilesPerBus \in Nat \ {0} /\ 2^UnsignedBits \in Nat
      /\ tiles + TilesPerBus <= 2^UnsignedBits
  BY DEF Enough
<1>2. /\ r \in Nat /\ r >= used /\ r <= used + TilesPerBus - 1
      /\ \E k \in Nat : r = k * TilesPerBus
  BY RoundedUp
<1> HIDE DEF r
<1>3. start + r \in Nat /\ start + r < 2^UnsignedBits
  BY <1>1, <1>2
<1>4. NextStart(used) = start + r
  BY <1>3, Unwrapped DEF NextStart, r
<1>5. OnBus(start + r)
  BY <1>2, OnBusAfter
<1> QED BY <1>1, <1>2, <1>3, <1>4, <1>5

\* A convolution planned on tiles from start on is apart from those before it.
LEMMA OneMore ==
  ASSUME Enough, tiles \in TileCounts, start \in Nat, OnBus(start),
         \A c \in DOMAIN multiPlans : PlanRight(multiPlans[c]), InTurn,
         \A c \in DOMAIN multiPlans : multiPlans[c].start + multiPlans[c].used <= start,
         NEW conv, conv \notin DOMAIN multiPlans,
         NEW offered \in Nat, start + offered <= tiles,
         offered + TilesPerBus - 1 >= Smaller(perConv, tiles),
         NEW used \in 1 .. offered,
         multiPlans' = Planned(conv, offered, used), UNCHANGED <<tiles, perConv>>
  PROVE  /\ DOMAIN multiPlans' = DOMAIN multiPlans \cup {conv}
         /\ (\A c \in DOMAIN multiPlans : PlanRight(multiPlans[c]))'
         /\ \A c \in DOMAIN multiPlans' : multiPlans'[c].start + multiPlans'[c].used <= start + used
         /\ \A c, d \in DOMAIN multiPlans' :
              c = d \/ multiPlans'[c].start + multiPlans'[c].used <= multiPlans'[d].start
                    \/ multiPlans'[d].start + multiPlans'[d].used <= multiPlans'[c].start
PROOF
<1> DEFINE new == [start |-> start, offered |-> offered, used |-> used]
<1>1. DOMAIN multiPlans' = DOMAIN multiPlans \cup {conv}
  BY DEF Planned
<1>2. multiPlans'[conv] = new
  BY DEF Planned
<1>3. \A c \in DOMAIN multiPlans : multiPlans'[c] = multiPlans[c]
  BY DEF Planned
<1>4. TilesPerBus \in Nat \ {0} /\ tiles \in Nat \ {0}
  BY DEF Enough
<1>5. new.start = start /\ new.offered = offered /\ new.used = used
  OBVIOUS
<1>6. PlanRight(new)
  BY <1>4, <1>5 DEF PlanRight
<1>7. \A c \in DOMAIN multiPlans :
        /\ multiPlans[c].start \in Nat /\ multiPlans[c].used \in Nat
        /\ multiPlans[c].start + multiPlans[c].used <= start
  BY DEF PlanRight
<1> HIDE DEF new
<1>8. \A c \in DOMAIN multiPlans' : PlanRight(multiPlans'[c])
  BY <1>1, <1>2, <1>3, <1>6
<1>10. (\A c \in DOMAIN multiPlans : PlanRight(multiPlans[c]))'
  BY <1>8 DEF PlanRight
<1>11. \A c \in DOMAIN multiPlans' : multiPlans'[c].start + multiPlans'[c].used <= start + used
  BY <1>1, <1>2, <1>3, <1>5, <1>7
<1>12. ASSUME NEW c \in DOMAIN multiPlans', NEW d \in DOMAIN multiPlans', c # d
       PROVE  \/ multiPlans'[c].start + multiPlans'[c].used <= multiPlans'[d].start
              \/ multiPlans'[d].start + multiPlans'[d].used <= multiPlans'[c].start
  <2>1. CASE c = conv
    BY <1>1, <1>2, <1>3, <1>5, <1>7, <1>12, <2>1
  <2>2. CASE d = conv
    BY <1>1, <1>2, <1>3, <1>5, <1>7, <1>12, <2>2
  <2>3. CASE c # conv /\ d # conv
    BY <1>1, <1>3, <1>12, <2>3 DEF InTurn
  <2> QED BY <2>1, <2>2, <2>3
<1> QED BY <1>1, <1>10, <1>11, <1>12

-----------------------------------------------------------------------------
(* The steps of the planning *)

LEMMA InitDeals == ASSUME Enough, MultiInit PROVE DealInv
PROOF
<1>1. PICK n \in TileCounts, count \in ConvCounts, option \in PerConvOptions :
        InitWith(n, count, option)
  BY DEF MultiInit
<1>2. perConv = PerConv(n, count, option) /\ tiles = n /\ convs = count
  BY <1>1 DEF InitWith
<1>3. /\ perConv \in Nat /\ perConv + 1 >= TilesPerBus
      /\ tiles = (convs - 1) * perConv \/ tiles >= (convs - 1) * perConv + perConv
  BY <1>2, Shares
<1>4. /\ step = "largest" /\ asserts = TRUE /\ start = 0
      /\ reserved = (convs - 1) * perConv /\ DOMAIN multiPlans = {}
  BY <1>1 DEF InitWith
<1> QED BY <1>2, <1>3, <1>4 DEF DealInv, InTurn

\* What holds of the numbers throughout
LEMMA Numbers ==
  ASSUME Enough, DealInv
  PROVE  /\ tiles \in Nat \ {0} /\ convs \in Nat \ {0} /\ perConv \in Nat
         /\ perConv + 1 >= TilesPerBus /\ TilesPerBus \in Nat \ {0}
         /\ 2^UnsignedBits \in Nat /\ tiles + TilesPerBus <= 2^UnsignedBits
PROOF BY DEF Enough, DealInv

\* Whoever gives up parallel plans keeps the invariant.
LEMMA SerialDeals ==
  ASSUME Enough, DealInv, step' = "serial", asserts' = TRUE,
         UNCHANGED <<tiles, convs, perConv, multiPlans>>
  PROVE  DealInv'
PROOF
<1>1. InTurn'
  BY DEF DealInv, InTurn
<1>2. (\A c \in DOMAIN multiPlans : PlanRight(multiPlans[c]))'
  BY DEF DealInv, PlanRight
<1> QED BY <1>1, <1>2 DEF DealInv

\* The next step, when so many convolutions have been planned
LEMMA GoesOn ==
  ASSUME Enough, DealInv, NEW planned \in 1 .. convs, step' = StepAfter(planned),
         asserts' = TRUE, UNCHANGED <<tiles, convs, perConv>>,
         (\A c \in DOMAIN multiPlans : PlanRight(multiPlans[c]))',
         \A c, d \in DOMAIN multiPlans' :
           c = d \/ multiPlans'[c].start + multiPlans'[c].used <= multiPlans'[d].start
                 \/ multiPlans'[d].start + multiPlans'[d].used <= multiPlans'[c].start,
         \A c \in DOMAIN multiPlans' : multiPlans'[c].start + multiPlans'[c].used <= start',
         planned = convs => DOMAIN multiPlans' = Conv,
         planned < convs => Progress(planned)'
  PROVE  DealInv'
PROOF
<1>1. convs \in Nat \ {0}
  BY Numbers
<1>2. InTurn'
  BY DEF InTurn
<1>3. CASE planned = convs
  <2>1. step' = "parallel" /\ DOMAIN multiPlans' = Conv'
    BY <1>3 DEF StepAfter, Conv
  <2> QED BY <1>2, <2>1 DEF DealInv
<1>4. CASE planned = convs - 1
  <2>1. step' = "last" /\ convs' > 1 /\ Progress(convs - 1)'
    BY <1>1, <1>4 DEF StepAfter
  <2> QED BY <1>2, <2>1 DEF DealInv
<1>5. CASE planned \in 1 .. convs - 2
  <2>1. step' = "next" /\ (\E m \in 1 .. convs - 2 : Progress(m))'
    BY <1>1, <1>5 DEF StepAfter
  <2> QED BY <1>2, <2>1 DEF DealInv
<1> QED BY <1>1, <1>3, <1>4, <1>5

LEMMA LargestDeals == ASSUME Enough, DealInv, PlanLargest PROVE DealInv'
PROOF
<1> DEFINE offered == AsUnsigned(tiles - reserved)
<1>1. /\ step = "largest" /\ UNCHANGED <<tiles, convs, perConv>>
      /\ asserts' = (tiles >= reserved)
  BY DEF PlanLargest
<1>2. /\ tiles \in Nat \ {0} /\ convs \in Nat \ {0} /\ perConv \in Nat
      /\ perConv + 1 >= TilesPerBus /\ TilesPerBus \in Nat \ {0}
      /\ 2^UnsignedBits \in Nat /\ tiles + TilesPerBus <= 2^UnsignedBits
  BY Numbers
<1>3. /\ DOMAIN multiPlans = {} /\ start = 0 /\ reserved = (convs - 1) * perConv
      /\ tiles = reserved \/ tiles >= reserved + perConv
  BY <1>1 DEF DealInv
<1>4. /\ reserved \in Nat /\ tiles >= reserved
      /\ convs >= 2 => reserved >= perConv
      /\ (convs - 1 - 1) * perConv = reserved - perConv
  BY <1>2, <1>3, ShareLess
<1>5. asserts' = TRUE
  BY <1>1, <1>4
<1>6. tiles - reserved \in Nat /\ offered = tiles - reserved
  BY <1>2, <1>4, Unwrapped
<1> HIDE DEF offered
<1>7. \/ step' = "serial" /\ UNCHANGED multiPlans
      \/ /\ offered # 0 /\ reserved' = GivenBack /\ step' = StepAfter(1)
         /\ \E used \in 1 .. offered :
              multiPlans' = Planned(convs - 1, offered, used) /\ start' = NextStart(used)
  BY DEF PlanLargest, offered
<1>8. CASE step' = "serial" /\ UNCHANGED multiPlans
  BY <1>1, <1>5, <1>8, SerialDeals
<1>9. ASSUME offered # 0, reserved' = GivenBack, step' = StepAfter(1),
             NEW used \in 1 .. offered,
             multiPlans' = Planned(convs - 1, offered, used), start' = NextStart(used)
      PROVE  DealInv'
  <2>1. OnBus(start) /\ start \in Nat
    BY <1>2, <1>3 DEF OnBus
  <2>2. offered \in Nat /\ start + offered <= tiles
        /\ offered + TilesPerBus - 1 >= Smaller(perConv, tiles)
    BY <1>2, <1>3, <1>4, <1>6, <1>9 DEF Smaller
  <2>3. tiles \in TileCounts /\ InTurn /\ \A c \in DOMAIN multiPlans : PlanRight(multiPlans[c])
    BY DEF DealInv
  <2>4. /\ DOMAIN multiPlans' = DOMAIN multiPlans \cup {convs - 1}
        /\ (\A c \in DOMAIN multiPlans : PlanRight(multiPlans[c]))'
        /\ \A c \in DOMAIN multiPlans' : multiPlans'[c].start + multiPlans'[c].used <= start + used
        /\ \A c, d \in DOMAIN multiPlans' :
             c = d \/ multiPlans'[c].start + multiPlans'[c].used <= multiPlans'[d].start
                   \/ multiPlans'[d].start + multiPlans'[d].used <= multiPlans'[c].start
    BY <1>1, <1>3, <1>9, <2>1, <2>2, <2>3, OneMore
  <2>5. /\ start' \in Nat /\ OnBus(start') /\ start + used <= start'
        /\ start' <= start + used + TilesPerBus - 1
    BY <1>2, <1>9, <2>1, <2>2, <2>3, NextStartRight
  <2>6. DOMAIN multiPlans' = {convs - 1}
    BY <1>3, <2>4
  <2>7. convs = 1 => DOMAIN multiPlans' = Conv
    BY <1>2, <2>6 DEF Conv
  <2>8. ASSUME 1 < convs PROVE Progress(1)'
    <3>1. reserved' = reserved - perConv
      <4>1. reserved - perConv \in Nat /\ reserved - perConv < 2^UnsignedBits
        BY <1>2, <1>4, <2>8
      <4> QED BY <1>9, <4>1, Unwrapped DEF GivenBack
    <3>2. DOMAIN multiPlans' = {convs - 1} \cup 0 .. 1 - 2
      BY <2>6
    <3>3. OnBus(start)'
      BY <2>5 DEF OnBus
    <3>4. /\ start' + reserved' <= tiles
          /\ start' + reserved' + perConv <= tiles + TilesPerBus - 1
      BY <1>2, <1>3, <1>4, <1>6, <1>9, <2>5, <3>1, SMTT(40)
    <3>5. reserved' = (convs' - 1 - 1) * perConv'
      BY <1>1, <1>4, <3>1
    <3>6. start' \in Nat /\ UNCHANGED <<tiles, convs, perConv>>
      BY <1>1, <2>5
    <3> QED BY <3>2, <3>3, <3>4, <3>5, <3>6 DEF Progress
  <2>9. \A c \in DOMAIN multiPlans' : multiPlans'[c].start + multiPlans'[c].used <= start'
    <3>1. \A c \in DOMAIN multiPlans' : multiPlans'[c].start \in Nat /\ multiPlans'[c].used \in Nat
      BY <2>4 DEF PlanRight
    <3> QED BY <1>2, <1>3, <2>4, <2>5, <3>1, SMTT(40)
  <2>10. 1 \in 1 .. convs
    BY <1>2
  <2> QED BY <1>1, <1>5, <1>9, <2>4, <2>7, <2>8, <2>9, <2>10, GoesOn
<1> QED BY <1>7, <1>8, <1>9

LEMMA NextDeals == ASSUME Enough, DealInv, PlanNext PROVE DealInv'
PROOF
<1> DEFINE offered == AsUnsigned(tiles - start - reserved)
           left == Conv \ DOMAIN multiPlans
           conv == CHOOSE c \in left : \A d \in left : c <= d
           enough == tiles >= reserved /\ AsUnsigned(tiles - reserved) >= start
<1>1. step = "next" /\ UNCHANGED <<tiles, convs, perConv>>
  BY DEF PlanNext
<1>2. /\ tiles \in Nat \ {0} /\ convs \in Nat \ {0} /\ perConv \in Nat
      /\ perConv + 1 >= TilesPerBus /\ TilesPerBus \in Nat \ {0}
      /\ 2^UnsignedBits \in Nat /\ tiles + TilesPerBus <= 2^UnsignedBits
  BY Numbers
<1>3. PICK planned \in 1 .. convs - 2 : Progress(planned)
  BY <1>1 DEF DealInv
<1>4. /\ DOMAIN multiPlans = {convs - 1} \cup 0 .. planned - 2
      /\ reserved = (convs - 1 - planned) * perConv
      /\ start \in Nat /\ OnBus(start) /\ start + reserved <= tiles
      /\ start + reserved + perConv <= tiles + TilesPerBus - 1
  BY <1>3 DEF Progress
<1>5. /\ reserved \in Nat /\ reserved >= perConv
      /\ (convs - 1 - planned - 1) * perConv = reserved - perConv
  BY <1>2, <1>3, <1>4, ShareLess
<1>6. tiles - reserved \in Nat /\ AsUnsigned(tiles - reserved) = tiles - reserved
  BY <1>2, <1>4, <1>5, Unwrapped
<1>7. enough
  BY <1>2, <1>4, <1>5, <1>6
<1>8. tiles - start - reserved \in Nat /\ offered = tiles - start - reserved
  BY <1>2, <1>4, <1>5, Unwrapped
\* The smallest convolution without a plan
<1>9. conv = planned - 1
  <2>1. planned - 1 \in Conv \ DOMAIN multiPlans
    BY <1>2, <1>3, <1>4 DEF Conv
  <2>2. \A d \in Conv \ DOMAIN multiPlans : d \in Int /\ planned - 1 <= d
    BY <1>2, <1>3, <1>4 DEF Conv
  <2>3. \A c \in Conv \ DOMAIN multiPlans :
          (\A d \in Conv \ DOMAIN multiPlans : c <= d) => c = planned - 1
    BY <1>3, <2>1, <2>2
  <2> QED BY <2>1, <2>2, <2>3
<1> HIDE DEF offered, conv, enough
<1>10. \/ /\ ~ enough \/ offered = 0
          /\ asserts' = enough /\ step' = "serial" /\ UNCHANGED multiPlans
       \/ /\ \E used \in 1 .. offered :
               multiPlans' = Planned(conv, offered, used) /\ start' = NextStart(used)
          /\ asserts' = (reserved >= perConv)
          /\ reserved' = GivenBack /\ step' = StepAfter(conv + 2)
  BY DEF PlanNext, offered, conv, enough
<1>11. CASE asserts' = enough /\ step' = "serial" /\ UNCHANGED multiPlans
  <2>1. asserts' = TRUE
    BY <1>7, <1>11 DEF enough
  <2> QED BY <1>1, <1>11, <2>1, SerialDeals
<1>12. ASSUME asserts' = (reserved >= perConv), reserved' = GivenBack,
              step' = StepAfter(conv + 2), NEW used \in 1 .. offered,
              multiPlans' = Planned(conv, offered, used), start' = NextStart(used)
       PROVE  DealInv'
  <2>1. asserts' = TRUE
    BY <1>5, <1>12
  <2>2. /\ offered \in Nat /\ start + offered <= tiles /\ start + used <= tiles
        /\ used \in Nat
        /\ offered + TilesPerBus - 1 >= Smaller(perConv, tiles)
    BY <1>2, <1>4, <1>5, <1>8, <1>12 DEF Smaller
  <2>3. /\ tiles \in TileCounts /\ InTurn /\ \A c \in DOMAIN multiPlans : PlanRight(multiPlans[c])
        /\ \A c \in DOMAIN multiPlans : multiPlans[c].start + multiPlans[c].used <= start
    BY <1>1 DEF DealInv, InTurn
  <2>4. conv \notin DOMAIN multiPlans
    BY <1>2, <1>3, <1>4, <1>9
  <2>5. /\ DOMAIN multiPlans' = DOMAIN multiPlans \cup {conv}
        /\ (\A c \in DOMAIN multiPlans : PlanRight(multiPlans[c]))'
        /\ \A c \in DOMAIN multiPlans' : multiPlans'[c].start + multiPlans'[c].used <= start + used
        /\ \A c, d \in DOMAIN multiPlans' :
             c = d \/ multiPlans'[c].start + multiPlans'[c].used <= multiPlans'[d].start
                   \/ multiPlans'[d].start + multiPlans'[d].used <= multiPlans'[c].start
    BY <1>1, <1>4, <1>12, <2>2, <2>3, <2>4, OneMore
  <2>6. /\ start' \in Nat /\ OnBus(start') /\ start + used <= start'
        /\ start' <= start + used + TilesPerBus - 1
    BY <1>4, <1>12, <2>2, <2>3, NextStartRight
  <2>7. \A c \in DOMAIN multiPlans' : multiPlans'[c].start + multiPlans'[c].used <= start'
    <3>1. \A c \in DOMAIN multiPlans' : multiPlans'[c].start \in Nat /\ multiPlans'[c].used \in Nat
      BY <2>5 DEF PlanRight
    <3> QED BY <1>4, <2>2, <2>5, <2>6, <3>1
  <2>8. Progress(planned + 1)'
    <3>1. reserved' = reserved - perConv
      <4>1. reserved - perConv \in Nat /\ reserved - perConv < 2^UnsignedBits
        BY <1>2, <1>4, <1>5
      <4> QED BY <1>12, <4>1, Unwrapped DEF GivenBack
    <3>2. DOMAIN multiPlans' = {convs - 1} \cup 0 .. planned + 1 - 2
      BY <1>3, <1>4, <1>9, <2>5
    <3>3. OnBus(start)'
      BY <2>6 DEF OnBus
    <3>4. /\ start' + reserved' <= tiles
          /\ start' + reserved' + perConv <= tiles + TilesPerBus - 1
      BY <1>2, <1>4, <1>5, <1>8, <1>12, <2>6, <3>1
    <3>5. reserved' = (convs' - 1 - (planned + 1)) * perConv'
      <4>1. convs - 1 - (planned + 1) = convs - 1 - planned - 1
        BY <1>2, <1>3
      <4> QED BY <1>1, <1>5, <3>1, <4>1
    <3>6. start' \in Nat /\ UNCHANGED <<tiles, convs, perConv>>
      BY <1>1, <2>6
    <3> QED BY <3>2, <3>3, <3>4, <3>5, <3>6 DEF Progress
  <2>9. planned + 1 \in 1 .. convs /\ planned + 1 # convs /\ conv + 2 = planned + 1
    BY <1>2, <1>3, <1>9
  <2> QED BY <1>1, <1>12, <2>1, <2>5, <2>7, <2>8, <2>9, GoesOn
<1> QED BY <1>10, <1>11, <1>12

LEMMA LastDeals == ASSUME Enough, DealInv, PlanLast PROVE DealInv'
PROOF
<1> DEFINE offered == AsUnsigned(tiles - start)
<1>1. /\ step = "last" /\ UNCHANGED <<tiles, convs, perConv, reserved, start>>
      /\ asserts' = (reserved = 0 /\ tiles >= start)
  BY DEF PlanLast
<1>2. /\ tiles \in Nat \ {0} /\ convs \in Nat \ {0} /\ perConv \in Nat
      /\ perConv + 1 >= TilesPerBus /\ TilesPerBus \in Nat \ {0}
      /\ 2^UnsignedBits \in Nat /\ tiles + TilesPerBus <= 2^UnsignedBits
  BY Numbers
<1>3. /\ convs > 1 /\ DOMAIN multiPlans = {convs - 1} \cup 0 .. convs - 1 - 2
      /\ reserved = (convs - 1 - (convs - 1)) * perConv
      /\ start \in Nat /\ OnBus(start) /\ start + reserved <= tiles
      /\ start + reserved + perConv <= tiles + TilesPerBus - 1
  BY <1>1 DEF DealInv, Progress
<1>4. reserved = 0
  <2>1. convs - 1 - (convs - 1) = 0 /\ 0 * perConv = 0
    BY <1>2
  <2> QED BY <1>3, <2>1
<1>5. asserts' = TRUE
  <2>1. (reserved = 0 /\ tiles >= start) = TRUE
    BY <1>2, <1>3, <1>4
  <2> QED BY <1>1, <2>1
<1>6. tiles - start \in Nat /\ offered = tiles - start
  BY <1>2, <1>3, <1>4, Unwrapped
<1> HIDE DEF offered
<1>7. \/ step' = "serial" /\ UNCHANGED multiPlans
      \/ /\ step' = "parallel"
         /\ \E used \in 1 .. offered : multiPlans' = Planned(convs - 2, offered, used)
  BY DEF PlanLast, offered
<1>8. CASE step' = "serial" /\ UNCHANGED multiPlans
  BY <1>1, <1>5, <1>8, SerialDeals
<1>9. ASSUME step' = "parallel", NEW used \in 1 .. offered,
             multiPlans' = Planned(convs - 2, offered, used)
      PROVE  DealInv'
  <2>1. /\ offered \in Nat /\ start + offered <= tiles
        /\ offered + TilesPerBus - 1 >= Smaller(perConv, tiles)
    BY <1>2, <1>3, <1>4, <1>6 DEF Smaller
  <2>2. /\ tiles \in TileCounts /\ InTurn /\ \A c \in DOMAIN multiPlans : PlanRight(multiPlans[c])
        /\ \A c \in DOMAIN multiPlans : multiPlans[c].start + multiPlans[c].used <= start
    BY <1>1 DEF DealInv, InTurn
  <2>3. convs - 2 \notin DOMAIN multiPlans
    BY <1>2, <1>3
  <2>4. /\ DOMAIN multiPlans' = DOMAIN multiPlans \cup {convs - 2}
        /\ (\A c \in DOMAIN multiPlans : PlanRight(multiPlans[c]))'
        /\ \A c, d \in DOMAIN multiPlans' :
             c = d \/ multiPlans'[c].start + multiPlans'[c].used <= multiPlans'[d].start
                   \/ multiPlans'[d].start + multiPlans'[d].used <= multiPlans'[c].start
    BY <1>1, <1>3, <1>9, <2>1, <2>2, <2>3, OneMore
  <2>5. DOMAIN multiPlans' = Conv'
    BY <1>1, <1>2, <1>3, <2>4 DEF Conv
  <2>6. InTurn'
    BY <1>9, <2>4 DEF InTurn
  <2> QED BY <1>1, <1>5, <1>9, <2>4, <2>5, <2>6 DEF DealInv
<1> QED BY <1>7, <1>8, <1>9

LEMMA StepDeals == ASSUME Enough, DealInv, [MultiNext]_multiVars PROVE DealInv'
PROOF
<1>1. ASSUME SerialPlan PROVE DealInv'
  BY <1>1, SerialDeals DEF SerialPlan, DealInv
<1>2. CASE UNCHANGED multiVars
  <2>1. InTurn' /\ (\A c \in DOMAIN multiPlans : PlanRight(multiPlans[c]))'
    BY <1>2 DEF multiVars, DealInv, InTurn, PlanRight
  <2>2. \A m : Progress(m) => Progress(m)'
    BY <1>2 DEF multiVars, Progress, OnBus
  <2>3. UNCHANGED <<tiles, convs, perConv, reserved, start, multiPlans, step, asserts>>
    BY <1>2 DEF multiVars
  <2>4. Conv' = Conv
    BY <2>3 DEF Conv
  <2>5. /\ step' = "next" => (\E m \in 1 .. convs - 2 : Progress(m))'
        /\ step' = "last" => convs' > 1 /\ Progress(convs - 1)'
    BY <2>2, <2>3 DEF DealInv
  <2> QED BY <2>1, <2>3, <2>4, <2>5 DEF DealInv
<1> QED BY <1>1, <1>2, LargestDeals, NextDeals, LastDeals DEF MultiNext

-----------------------------------------------------------------------------
(* What the invariant implies *)

\* Plans that lie one after the other within the IPU share no tile.
LEMMA Disjoint ==
  ASSUME Enough, DealInv, NEW c \in DOMAIN multiPlans, NEW d \in DOMAIN multiPlans, c # d
  PROVE  TilesOf(c) \cap TilesOf(d) = {}
PROOF
<1>1. tiles \in Nat \ {0}
  BY Numbers
<1>2. \A e \in DOMAIN multiPlans :
        /\ multiPlans[e].start \in Nat /\ multiPlans[e].used \in Nat \ {0}
        /\ multiPlans[e].start + multiPlans[e].used <= tiles
  BY DEF DealInv, PlanRight
<1>3. \A e \in DOMAIN multiPlans : \A t \in 0 .. multiPlans[e].used - 1 :
        (multiPlans[e].start + t) % tiles = multiPlans[e].start + t
  <2> SUFFICES ASSUME NEW e \in DOMAIN multiPlans, NEW t \in 0 .. multiPlans[e].used - 1
               PROVE  (multiPlans[e].start + t) % tiles = multiPlans[e].start + t
    OBVIOUS
  <2>1. multiPlans[e].start + t \in Nat /\ multiPlans[e].start + t < tiles
    BY <1>1, <1>2
  <2> QED BY <1>1, <2>1, SmallMod
<1>4. ASSUME NEW t \in 0 .. multiPlans[c].used - 1, NEW u \in 0 .. multiPlans[d].used - 1
      PROVE  (multiPlans[c].start + t) % tiles # (multiPlans[d].start + u) % tiles
  <2>1. \/ multiPlans[c].start + multiPlans[c].used <= multiPlans[d].start
        \/ multiPlans[d].start + multiPlans[d].used <= multiPlans[c].start
    BY DEF DealInv, InTurn
  <2>2. multiPlans[c].start + t # multiPlans[d].start + u
    BY <1>2, <1>4, <2>1
  <2> QED BY <1>3, <2>2
<1> QED BY <1>4 DEF TilesOf

LEMMA InvariantDeals == ASSUME Enough, DealInv PROVE TilesDealtOut
PROOF
<1>1. TilesPerBus \in Nat \ {0} /\ tiles \in Nat \ {0}
  BY Numbers
<1>2. NoOverlap
  <2>1. ASSUME NEW c \in DOMAIN multiPlans
        PROVE  multiPlans[c].start % TilesPerBus = 0 /\ multiPlans[c].start < tiles
    <3>1. PlanRight(multiPlans[c])
      BY DEF DealInv
    <3>2. multiPlans[c].start % TilesPerBus = 0
      BY <3>1, OnBusMod DEF PlanRight
    <3>3. PICK a, b \in Nat : a = multiPlans[c].start /\ b = multiPlans[c].used /\ b > 0 /\ a + b <= tiles
      BY <3>1 DEF PlanRight
    <3>4. a < tiles
      BY <1>1, <3>3
    <3> QED BY <3>2, <3>3, <3>4
  <2> QED BY <2>1, Disjoint DEF NoOverlap
<1>3. AssertsHold
  BY DEF AssertsHold, DealInv
<1>4. EveryConvServed
  BY DEF EveryConvServed, DealInv, PlanRight, Conv
<1> QED BY <1>2, <1>3, <1>4 DEF TilesDealtOut

\* The invariant on which it rests: the plans lie one after the other on whole
\* buses, the tiles after them hold what is set aside for the convolutions still
\* to be planned, and the share that the next one takes makes up for the tiles
\* that rounding takes away (ConvPlan.cpp:1857-1960).
THEOREM PlansLieInTurn == Enough /\ MultiSpec => []DealInv
PROOF
<1> SUFFICES ASSUME Enough PROVE MultiSpec => []DealInv
  OBVIOUS
<1>1. MultiInit => DealInv
  BY InitDeals
<1>2. DealInv /\ [MultiNext]_multiVars => DealInv'
  BY StepDeals
<1> QED BY <1>1, <1>2, PTL DEF MultiSpec

\* Convolutions that run at the same time have tiles of their own, within the IPU
\* and from a whole bus on; the asserts of getParallelMultiPlan hold; and if all
\* are planned each was offered its share, but for rounding
\* (MultiConvolution.cpp:136-137).
THEOREM TilesAreDealtOut == Enough /\ MultiSpec => []TilesDealtOut
PROOF
<1> SUFFICES ASSUME Enough PROVE MultiSpec => []TilesDealtOut
  OBVIOUS
<1>1. DealInv => TilesDealtOut
  BY InvariantDeals
<1>2. MultiSpec => []DealInv
  BY PlansLieInTurn
<1> QED BY <1>1, <1>2, PTL
=============================================================================
