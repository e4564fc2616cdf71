----------------------------- MODULE PlanCache -----------------------------
(***************************************************************************)
(* The planning cache of poplin (PlanningCache.hpp, ConvPlan.cpp and       *)
(* Memoize.hpp): plans made ahead of time by parallel jobs that share the  *)
(* memo tables of cycle estimates, plans made when they are asked for, and *)
(* the three passes of a fully connected layer, which are planned together *)
(* and asked for one by one.                                               *)
(*                                                                         *)
(* A search of popsolver is a choice among candidate plans of known cycles *)
(* and temporary memory (Optimizer says why it may be), after one look-up  *)
(* in a memo table that stands for the many a search makes.                *)
(***************************************************************************)
EXTENDS Integers, Sequences, FiniteSets, Functions, SequencesExt

CONSTANTS
  Layers,        \* the layers to plan, see Layer
  BytesPerTile,  \* Target::getBytesPerTile
  MaxCost,       \* DataType::max, more than any cost
  MaxRequests    \* bound on the calls of preplan and getPlan

Pass == {"FWD", "BWD", "WU"}
\* What createPlan searches: a plan for the three passes together, or for one
Problem == Pass \cup {"joint"}

Candidate == [units : Nat, temp : Nat]

\* available: bytes of temporary memory allowed, 0 to optimise for memory;
\* narrow: a partials type is narrower than the output, so that
\* validateLayerParams changes the options; candidates: what a search chooses
\* from; estimate: the cycles per unit of work, by the convolution's shape.
Layer == [available : Nat, narrow : BOOLEAN,
          candidates : [Problem -> SUBSET Candidate], estimate : [Pass -> Nat]]

\* A joint plan is searched with the estimates of the forward pass.
ShapeOf(problem) == IF problem = "joint" THEN "FWD" ELSE problem

\* DataType holds the cycles of any plan, of three passes too.
CostsFit(l) ==
  /\ l.available < MaxCost
  /\ \A p \in Problem : \A c \in l.candidates[p] :
       3 * (c.units * l.estimate[ShapeOf(p)]) < MaxCost /\ c.temp < MaxCost

ASSUME LayersAssumption ==
  Layers \subseteq Layer /\ \A l \in Layers : CostsFit(l)
ASSUME BoundsAssumption ==
  BytesPerTile \in Nat /\ MaxCost \in Nat \ {0} /\ MaxRequests \in Nat

VARIABLES
  layer,     \* the layer that is planned
  plans,     \* planCache of the caller's cache, and of the one a call makes
  estimates, \* the memo tables of the two
  request,   \* the call of preplan or getPlan that runs, or Idle
  jobs,      \* the runs of the planner, by the key they plan
  answers,   \* what getPlan has returned, per call
  requests   \* the number of calls made

vars == <<layer, plans, estimates, request, jobs, answers, requests>>

-----------------------------------------------------------------------------
(* Costs *)

Cost == [cycles : 0 .. MaxCost, temp : 0 .. MaxCost]

\* highestCost: no plan
Unset == [cycles |-> MaxCost, temp |-> MaxCost]
IsSet(c) == c # Unset

HasMemBound == layer.available # 0
MemBound == IF HasMemBound THEN layer.available ELSE MaxCost

\* The cost with the fewest cycles, and of those with the least memory
Cheapest(costs) ==
  IF costs = {} THEN Unset
  ELSE CHOOSE c \in costs :
         \A d \in costs : c.cycles < d.cycles
                          \/ (c.cycles = d.cycles /\ c.temp <= d.temp)

\* createPlan with the objective minimizeCycles and a bound on temporary memory
Search(problem, bound, cyclesPerUnit) ==
  Cheapest({[cycles |-> d.units * cyclesPerUnit, temp |-> d.temp] :
              d \in {e \in layer.candidates[problem] : e.temp <= bound}})

\* separateCost: of the passes planned one by one
Separate(cost) ==
  IF \E p \in Pass : ~ IsSet(cost[p]) THEN Unset
  ELSE [cycles |-> cost["FWD"].cycles + cost["BWD"].cycles + cost["WU"].cycles,
        temp |-> CHOOSE m \in {cost[p].temp : p \in Pass} :
                   \A p \in Pass : cost[p].temp <= m]

\* Mutant: the cycles are compared only if the joint plan does not fit.
SeparateAsLastResort(cost) == cost["joint"].temp > MemBound

\* separatePlanHasLowerCost
SeparateIsBetter(cost) ==
  LET separate == Separate(cost)
      joint == cost["joint"]
  IN IF separate.temp <= MemBound
       THEN joint.temp > MemBound \/ separate.cycles < joint.cycles
       ELSE joint.temp > MemBound /\ separate.temp < joint.temp

-----------------------------------------------------------------------------
(* Keys, plans and jobs *)

\* The options a key holds: those of the call, or as validation leaves them
Validated == IF layer.narrow THEN "validated" ELSE "given"
Key == [pass : Pass, options : {"given", "validated"}]
Given(pass) == [pass |-> pass, options |-> "given"]
KeyOf(pass) == [pass |-> pass, options |-> Validated]

\* What a run of the planner ends with, and what is a plan
Outcome == [of : Problem, pass : Pass, cost : Cost]
Plan == {o \in Outcome : IsSet(o.cost)}

\* What createPlan searches in turn for a key.  Only the forward pass is
\* planned jointly.
Problems(key) ==
  IF key.pass = "FWD" THEN <<"joint", "FWD", "BWD", "WU">> ELSE <<key.pass>>

\* at: the index in Problems of the search; round: minimizeCycles or
\* minimizeMemory; bound: on its temporary memory; estimate: fn's result when
\* the memo table had none
Job == [pc : {"find", "insert", "done", "failed"}, at : 1 .. 4,
        round : {"cycles", "memory"}, bound : Nat, estimate : Nat,
        cost : [Problem -> Cost], output : Seq([key : Key, plan : Outcome])]

NewJob(key) ==
  [pc |-> "find", at |-> 1, round |-> IF HasMemBound THEN "cycles" ELSE "memory",
   bound |-> MemBound, estimate |-> 0, cost |-> [p \in Problem |-> Unset],
   output |-> <<>>]

\* job with the fields of update changed
With(job, update) ==
  [f \in DOMAIN job |-> IF f \in DOMAIN update THEN update[f] ELSE job[f]]

\* Neither is it worth minimising memory for a joint plan when the separate
\* ones fit, nor the other way round.
Met(key, cost) ==
  IF key.pass = "FWD" THEN IsSet(cost["joint"]) \/ IsSet(Separate(cost))
  ELSE IsSet(cost[key.pass])

\* plansToCache: the other passes' plans if they are planned separately, and
\* last the plan for the key
Output(key, cost) ==
  LET Made(k, problem, pass) ==
        [key |-> k, plan |-> [of |-> problem, pass |-> pass, cost |-> cost[problem]]]
  IN IF key.pass # "FWD" THEN <<Made(key, key.pass, key.pass)>>
     ELSE IF ~ SeparateIsBetter(cost) THEN <<Made(key, "joint", "FWD")>>
     ELSE <<Made(KeyOf("BWD"), "BWD", "BWD"), Made(KeyOf("WU"), "WU", "WU"),
            Made(key, "FWD", "FWD")>>

\* The end of createPlan and of runPlanner, which throws if there is no plan
Finished(job, key, cost) ==
  LET output == Output(key, cost)
  IN With(job, [cost |-> cost, output |-> output,
      pc |-> IF IsSet(Last(output).plan.cost) THEN "done" ELSE "failed"])

\* minimizeMemory for the first problem from index n on that has no plan yet
MinimizeMemoryFrom(job, key, cost, n) ==
  LET left == {i \in DOMAIN Problems(key) : i >= n /\ ~ IsSet(cost[Problems(key)[i]])}
  IN IF left = {} THEN Finished(job, key, cost)
     ELSE With(job, [cost |-> cost, pc |-> "find", round |-> "memory",
           at |-> CHOOSE i \in left : \A j \in left : i <= j,
           bound |-> IF HasMemBound THEN MemBound * 2 ELSE MaxCost])

\* Mutant: the bound is not raised when a search fails.
ContinueAtOneBound(job, key, c) ==
  LET problems == Problems(key)
      cost == [job.cost EXCEPT ![problems[job.at]] = c]
  IN CASE job.round = "cycles" /\ job.at < Len(problems) ->
            With(job, [cost |-> cost, pc |-> "find", at |-> job.at + 1])
       [] job.round = "cycles" /\ job.at = Len(problems) ->
            IF Met(key, cost) THEN Finished(job, key, cost)
            ELSE MinimizeMemoryFrom(job, key, cost, 1)
       [] job.round = "memory" /\ ~ IsSet(c) /\ job.bound # MaxCost ->
            With(job, [pc |-> "find"])
       [] OTHER -> MinimizeMemoryFrom(job, key, cost, job.at + 1)

\* createPlan goes on after the search it is at gave the cost c.
Continue(job, key, c) ==
  LET problems == Problems(key)
      cost == [job.cost EXCEPT ![problems[job.at]] = c]
  IN CASE job.round = "cycles" /\ job.at < Len(problems) ->
            With(job, [cost |-> cost, pc |-> "find", at |-> job.at + 1])
       [] job.round = "cycles" /\ job.at = Len(problems) ->
            IF Met(key, cost) THEN Finished(job, key, cost)
            ELSE MinimizeMemoryFrom(job, key, cost, 1)
       [] job.round = "memory" /\ ~ IsSet(c) /\ job.bound # MaxCost ->
            With(job, [pc |-> "find",
             bound |-> IF job.bound < BytesPerTile * 2 THEN job.bound * 2 ELSE MaxCost])
       [] OTHER -> MinimizeMemoryFrom(job, key, cost, job.at + 1)

-----------------------------------------------------------------------------
(* The calls *)

Idle == [call |-> "none"]
Cache == {"caller", "temp"}

Init ==
  /\ layer \in Layers
  /\ plans = [c \in Cache |-> <<>>]
  /\ estimates = [c \in Cache |-> <<>>]
  /\ request = Idle
  /\ jobs = <<>>
  /\ answers = {}
  /\ requests = 0

\* preplan: a job for each key, all at once
Preplan(passes) ==
  /\ request = Idle /\ requests < MaxRequests
  /\ request' = [call |-> "preplan", cache |-> "caller"]
  /\ jobs' = [key \in {Given(p) : p \in passes} |-> NewJob(key)]
  /\ requests' = requests + 1
  /\ UNCHANGED <<layer, plans, estimates, answers>>

\* getPlan: for a backward or weight update pass, first the plan of the forward
\* pass, with the options as validation leaves them
GetPlan(pass, cache) ==
  /\ request = Idle /\ requests < MaxRequests
  /\ request' = [call |-> "getPlan", cache |-> cache, pass |-> pass,
                 key |-> IF pass = "FWD" THEN Given("FWD") ELSE KeyOf("FWD")]
  /\ requests' = requests + 1
  /\ UNCHANGED <<layer, plans, estimates, jobs, answers>>

\* Mutant: a joint plan of the forward pass is not looked at.
RestIgnoringJoint(plan) ==
  IF request.key.pass = request.pass
    THEN /\ answers' = answers \cup {[pass |-> request.pass, plan |-> plan]}
         /\ request' = Idle
    ELSE request' = [request EXCEPT !.key = Given(request.pass)] /\ UNCHANGED answers

\* getFullyConnectedWUPlan, getFullyConnectedBwdPlan: the joint plan with the
\* splits of its dimensions exchanged, for the dimensions of the pass
Derived(plan, pass) == [plan EXCEPT !.pass = pass]

\* getPlan has the plan for its key.  The plan of a pass is derived from that of
\* the forward pass, if it is joint; if not, the pass's own is asked for.
Rest(plan) ==
  IF request.key.pass = request.pass \/ plan.of = "joint"
    THEN /\ answers' = answers \cup {[pass |-> request.pass,
                                      plan |-> Derived(plan, request.pass)]}
         /\ request' = Idle
    ELSE request' = [request EXCEPT !.key = Given(request.pass)] /\ UNCHANGED answers

\* The key is in the cache; a call without one makes its own, which is empty.
FindPlan ==
  /\ request.call = "getPlan" /\ jobs = <<>>
  /\ request.cache = "caller"
  /\ request.key \in DOMAIN plans["caller"]
  /\ Rest(plans["caller"][request.key])
  /\ UNCHANGED <<layer, plans, estimates, jobs, requests>>

MissPlan ==
  /\ request.call = "getPlan" /\ jobs = <<>>
  /\ request.cache = "caller" => request.key \notin DOMAIN plans["caller"]
  /\ plans' = [plans EXCEPT !["temp"] = <<>>]
  /\ estimates' = [estimates EXCEPT !["temp"] = <<>>]
  /\ jobs' = [key \in {request.key} |-> NewJob(key)]
  /\ UNCHANGED <<layer, request, answers, requests>>

-----------------------------------------------------------------------------
(* The jobs *)

Table == estimates[request.cache]

ShapeAt(key) == ShapeOf(Problems(key)[jobs[key].at])
SearchWith(key, cyclesPerUnit) ==
  Continue(jobs[key], key,
           Search(Problems(key)[jobs[key].at], jobs[key].bound, cyclesPerUnit))

\* Memo: the table has the estimate, and the search goes on with it.
FindEstimate(key) ==
  /\ jobs[key].pc = "find"
  /\ ShapeAt(key) \in DOMAIN Table
  /\ jobs' = [jobs EXCEPT ![key] = SearchWith(key, Table[ShapeAt(key)])]
  /\ UNCHANGED <<layer, plans, estimates, request, answers, requests>>

\* table.insert: what is there already stays.
Inserted(table, k, value) ==
  [x \in DOMAIN table \cup {k} |-> IF x \in DOMAIN table THEN table[x] ELSE value]

\* Mutant: an entry is made before its value is known.
MissEstimateWithEntry(key) ==
  /\ jobs[key].pc = "find"
  /\ ShapeAt(key) \notin DOMAIN Table
  /\ jobs' = [jobs EXCEPT ![key] =
                With(@, [pc |-> "insert", estimate |-> layer.estimate[ShapeAt(key)]])]
  /\ estimates' = [estimates EXCEPT ![request.cache] = Inserted(@, ShapeAt(key), 0)]
  /\ UNCHANGED <<layer, plans, request, answers, requests>>

\* Memo: the table has none, and fn is called.
MissEstimate(key) ==
  /\ jobs[key].pc = "find"
  /\ ShapeAt(key) \notin DOMAIN Table
  /\ jobs' = [jobs EXCEPT ![key] =
                With(@, [pc |-> "insert", estimate |-> layer.estimate[ShapeAt(key)]])]
  /\ UNCHANGED <<layer, plans, estimates, request, answers, requests>>

\* Memo: the result is inserted, unless another thread was first, and is what
\* this thread goes on with.
InsertEstimate(key) ==
  /\ jobs[key].pc = "insert"
  /\ estimates' = [estimates EXCEPT ![request.cache] =
                     Inserted(@, ShapeAt(key), jobs[key].estimate)]
  /\ jobs' = [jobs EXCEPT ![key] = SearchWith(key, jobs[key].estimate)]
  /\ UNCHANGED <<layer, plans, request, answers, requests>>

Makes(output, key) == \E i \in DOMAIN output : output[i].key = key
MadeFor(output, key) == output[CHOOSE i \in DOMAIN output : output[i].key = key].plan

\* The cache keeps the first plan it is given for a key.
WithPlans(table, outputs) ==
  [key \in DOMAIN table \cup {k \in Key : \E i \in DOMAIN outputs : Makes(outputs[i], k)} |->
     IF key \in DOMAIN table THEN table[key]
     ELSE LET first == CHOOSE i \in DOMAIN outputs :
                         /\ Makes(outputs[i], key)
                         /\ \A j \in 1 .. i - 1 : ~ Makes(outputs[j], key)
          IN MadeFor(outputs[first], key)]

\* The jobs' plans are put into the cache when all have ended, in the order of
\* the set of keys, which depends on the layer's shape.
Commit ==
  /\ jobs # <<>>
  /\ \A key \in DOMAIN jobs : jobs[key].pc = "done"
  /\ \E order \in Bijection(1 .. Cardinality(DOMAIN jobs), DOMAIN jobs) :
       plans' = [plans EXCEPT ![request.cache] =
                   WithPlans(@, [i \in DOMAIN order |-> jobs[order[i]].output])]
  /\ jobs' = <<>>
  /\ IF request.call = "preplan" THEN request' = Idle /\ UNCHANGED answers
     ELSE Rest(Last(jobs[request.key].output).plan)
  /\ UNCHANGED <<layer, estimates, requests>>

\* A job found no plan and threw.  Jobs that have not begun are given up, the
\* others are waited for, and no plan is kept.
Throw ==
  /\ \E key \in DOMAIN jobs : jobs[key].pc = "failed"
  /\ \A key \in DOMAIN jobs : jobs[key].pc \in {"done", "failed"} \/ jobs[key] = NewJob(key)
  /\ jobs' = <<>>
  /\ request' = Idle
  /\ UNCHANGED <<layer, plans, estimates, answers, requests>>

PlannerStep(key) == FindEstimate(key) \/ MissEstimate(key) \/ InsertEstimate(key)

Next ==
  \/ \E passes \in (SUBSET Pass) \ {{}} : Preplan(passes)
  \/ \E pass \in Pass, cache \in Cache : GetPlan(pass, cache)
  \/ FindPlan \/ MissPlan
  \/ \E key \in DOMAIN jobs : PlannerStep(key)
  \/ Commit \/ Throw

\* The calls run to their ends and so do the threads of parallel_for; nobody has
\* to call.
Spec ==
  /\ Init /\ [][Next]_vars
  /\ WF_vars(FindPlan) /\ WF_vars(MissPlan) /\ WF_vars(Commit) /\ WF_vars(Throw)
  /\ \A key \in Key : WF_vars(key \in DOMAIN jobs /\ PlannerStep(key))

-----------------------------------------------------------------------------
Answer == [pass : Pass, plan : Plan]

TypeOK ==
  /\ layer \in Layers
  /\ \A c \in Cache :
       /\ DOMAIN plans[c] \subseteq Key
       /\ \A key \in DOMAIN plans[c] : plans[c][key] \in Plan
       /\ DOMAIN estimates[c] \subseteq Pass
       /\ \A p \in DOMAIN estimates[c] : estimates[c][p] \in Nat
  /\ DOMAIN jobs \subseteq Key
  /\ \A key \in DOMAIN jobs : jobs[key] \in Job
  /\ answers \subseteq Answer
  /\ requests \in 0 .. MaxRequests

\* "another thread may have updated with the same key - in which case it should
\* be with the same value" (Memoize.hpp:26-27): whatever threads do with a memo
\* table at the same time, what it holds, and what a thread is about to insert,
\* is what the function returns.
EstimatesExact ==
  /\ \A c \in Cache : \A p \in DOMAIN estimates[c] : estimates[c][p] = layer.estimate[p]
  /\ \A key \in DOMAIN jobs :
       jobs[key].pc = "insert" => jobs[key].estimate = layer.estimate[ShapeAt(key)]

\* The plan of a pass does not depend on what was planned before, in which order,
\* by which job, or with which cache: two answers for a pass are the same plan.
SameAnswer ==
  \A a, b \in answers : a.pass = b.pass => a.plan = b.plan

\* The passes of a layer share its weights, so that their plans have to agree:
\* either all are derived from one joint plan, or none is.
PassesAgree ==
  \A a, b \in answers :
    a.plan.of = "joint" => b.plan.of = "joint" /\ a.plan.cost = b.plan.cost

\* Passes that are planned together, apart, ahead or on demand fit together.
PlansAgree == TypeOK /\ SameAnswer /\ PassesAgree

\* The costs a layer could have, planned jointly or each pass on its own
JointCosts ==
  {[cycles |-> d.units * layer.estimate["FWD"], temp |-> d.temp] :
     d \in layer.candidates["joint"]}
SeparateCosts ==
  {Separate([p \in Problem |->
      IF p = "joint" THEN Unset
      ELSE [cycles |-> choice[p].units * layer.estimate[p], temp |-> choice[p].temp]]) :
     choice \in {f \in [Pass -> UNION {layer.candidates[p] : p \in Pass}] :
                   \A p \in Pass : f[p] \in layer.candidates[p]}}

\* If a layer can be planned within the bound on memory, it is, and with the
\* fewest cycles, counting the three passes together.
FitsWithFewestCycles ==
  LET fitting == {c \in JointCosts \cup SeparateCosts : c.temp <= MemBound}
      fwd == {key \in DOMAIN plans["caller"] : key.pass = "FWD"}
      CostOf(key) ==
        IF plans["caller"][key].of = "joint" THEN plans["caller"][key].cost
        ELSE Separate([p \in Problem |->
               CASE p = "joint" -> Unset
                 [] p = "FWD"   -> plans["caller"][key].cost
                 [] OTHER       -> plans["caller"][KeyOf(p)].cost])
  IN fitting # {} =>
       \A key \in fwd : CostOf(key).temp <= MemBound
                        /\ \A c \in fitting : CostOf(key).cycles <= c.cycles

\* Every call returns or throws.
EveryCallEnds == (request # Idle) ~> (request = Idle)

=============================================================================
