----------------------------- MODULE MultiPlan -----------------------------
(***************************************************************************)
(* Multi-convolutions of poplin (getParallelMultiPlan and getMultiPlan in  *)
(* ConvPlan.cpp): the tiles of an IPU are dealt out to convolutions that   *)
(* run at the same time, the largest first, then from the smallest up, so  *)
(* that no two of them share a tile.                                       *)
(*                                                                         *)
(* A run of the planner is a choice of how many of the tiles it is offered *)
(* the plan uses, or an error.  PlanCache is about how it is cached.       *)
(***************************************************************************)
EXTENDS Integers, Sequences

CONSTANTS
  TileCounts,      \* what Target::getTilesPerIPU may be
  ConvCounts,      \* how many convolutions
  PerConvOptions,  \* values of the option perConvReservedTiles
  TilesPerBus,     \* Target::getTilesPerSharedExchangeBus
  UnsignedBits     \* the width of unsigned

VARIABLES
  tiles,         \* tiles per IPU
  convs,         \* the number of convolutions, 0 .. convs - 1 by their size
  perConv,       \* perConvReservedTiles
  reserved,      \* reservedTiles
  start,         \* startTileIdxForVirtualHierarchy
  multiPlans,    \* the plan of each convolution planned: where, and how many tiles
  step,          \* what is done next
  asserts        \* whether every assert so far has held

multiVars == <<tiles, convs, perConv, reserved, start, multiPlans, step, asserts>>

AsUnsigned(n) == n % 2^UnsignedBits
RoundUp(n, multiple) == ((n + multiple - 1) \div multiple) * multiple

Conv == 0 .. convs - 1

Smaller(a, b) == IF a < b THEN a ELSE b
Larger(a, b) == IF a < b THEN b ELSE a

\* perConvReservedTiles, less than the option if there are too few tiles
PerConv(n, count, option) ==
  IF n < count * option THEN Larger(1, n \div count) ELSE option

InitWith(n, count, option) ==
  /\ tiles = n /\ convs = count
  /\ perConv = PerConv(tiles, convs, option)
  /\ reserved = (convs - 1) * perConv
  /\ start = 0
  /\ multiPlans = <<>>
  /\ step = "largest"
  /\ asserts = TRUE

MultiInit ==
  \E n \in TileCounts, count \in ConvCounts, option \in PerConvOptions :
    InitWith(n, count, option)

\* The convolution's plan: it begins at start, and uses at most n tiles.
Planned(conv, n, used) ==
  [c \in DOMAIN multiPlans \cup {conv} |->
     IF c = conv THEN [start |-> start, offered |-> n, used |-> used] ELSE multiPlans[c]]

\* Mutant: the next convolution may start in the middle of an exchange bus.
NextStartOnAnyTile(used) == AsUnsigned(start + used)

\* The start of the next convolution
NextStart(used) == AsUnsigned(start + RoundUp(used, TilesPerBus))

\* Mutant: the share stays set aside.
NothingGivenBack == reserved

\* The tiles set aside, without the share of the convolution just planned
GivenBack == AsUnsigned(reserved - perConv)

\* What comes after so many convolutions have been planned
StepAfter(planned) ==
  CASE planned = convs     -> "parallel"
    [] planned = convs - 1 -> "last"
    [] OTHER               -> "next"

\* Steps 1 and 2: the largest convolution, for speed and then for fewer tiles,
\* beside what is reserved for the others
PlanLargest ==
  /\ step = "largest"
  /\ asserts' = (tiles >= reserved)
  /\ LET offered == AsUnsigned(tiles - reserved)
     IN \/ /\ offered = 0 \/ ~ asserts'
           /\ step' = "serial"
           /\ UNCHANGED <<multiPlans, start, reserved>>
        \/ /\ offered # 0 /\ asserts'
           /\ \E used \in 1 .. offered :
                /\ multiPlans' = Planned(convs - 1, offered, used)
                /\ start' = NextStart(used)
           /\ reserved' = GivenBack
           /\ step' = StepAfter(1)
  /\ UNCHANGED <<tiles, convs, perConv>>

\* Step 3: the smallest convolution that has no plan yet
PlanNext ==
  /\ step = "next"
  /\ LET offered == AsUnsigned(tiles - start - reserved)
         left == Conv \ DOMAIN multiPlans
         conv == CHOOSE c \in left : \A d \in left : c <= d
         enough == tiles >= reserved /\ AsUnsigned(tiles - reserved) >= start
     IN \/ /\ enough /\ offered # 0
           /\ \E used \in 1 .. offered :
                /\ multiPlans' = Planned(conv, offered, used)
                /\ start' = NextStart(used)
           /\ asserts' = (reserved >= perConv)
           /\ reserved' = GivenBack
           /\ step' = StepAfter(conv + 2)
        \/ /\ ~ enough \/ offered = 0
           /\ asserts' = enough /\ step' = "serial"
           /\ UNCHANGED <<multiPlans, start, reserved>>
  /\ UNCHANGED <<tiles, convs, perConv>>

\* Step 4: the last but one in size, on the tiles that are left
PlanLast ==
  /\ step = "last"
  /\ asserts' = (reserved = 0 /\ tiles >= start)
  /\ LET offered == AsUnsigned(tiles - start)
     IN \/ /\ asserts' /\ offered # 0
           /\ \E used \in 1 .. offered : multiPlans' = Planned(convs - 2, offered, used)
           /\ step' = "parallel"
        \/ /\ ~ asserts' \/ offered = 0
           /\ step' = "serial"
           /\ UNCHANGED multiPlans
  /\ UNCHANGED <<tiles, convs, perConv, reserved, start>>

\* The planner throws, as it finds no plan, and the convolutions are planned one
\* after the other instead, each on all tiles.
SerialPlan ==
  /\ step \in {"largest", "next", "last"}
  /\ step' = "serial"
  /\ UNCHANGED <<tiles, convs, perConv, reserved, start, multiPlans, asserts>>

MultiNext == PlanLargest \/ PlanNext \/ PlanLast \/ SerialPlan

MultiSpec == MultiInit /\ [][MultiNext]_multiVars

-----------------------------------------------------------------------------
\* linearizeTileIndices: a plan's tiles, round the end of the IPU if it came to it
TilesOf(c) == {(multiPlans[c].start + t) % tiles : t \in 0 .. multiPlans[c].used - 1}

\* "each plan will be allocated to a different tile range to guarantee that these
\* convs don't overlap" (MultiConvolution.cpp:136-137), with its start on a whole
\* exchange bus (Convolution.cpp:237).
NoOverlap ==
  \A c, d \in DOMAIN multiPlans :
    /\ multiPlans[c].start % TilesPerBus = 0 /\ multiPlans[c].start < tiles
    /\ c # d => TilesOf(c) \cap TilesOf(d) = {}

\* The asserts of getParallelMultiPlan hold: the tiles set aside for the
\* convolutions still to be planned are given back one share at a time, neither
\* running out nor running below zero, whatever the others leave unused.
AssertsHold == asserts

\* A parallel plan is a plan for every convolution, and none is offered fewer
\* tiles than it has a share in, but for those that rounding takes away.
EveryConvServed ==
  step = "parallel" =>
    /\ DOMAIN multiPlans = Conv
    /\ \A c \in Conv : multiPlans[c].offered + TilesPerBus - 1 >= Smaller(perConv, tiles)

\* Convolutions that run at the same time have tiles of their own, enough of them,
\* and the accounts of tiles set aside balance.
TilesDealtOut == NoOverlap /\ AssertsHold /\ EveryConvServed

-----------------------------------------------------------------------------
(* Why the tiles are dealt out without overlap *)

\* A tile for every convolution but one, a share that makes up for what rounding
\* to a whole bus takes, and numbers of tiles that unsigned holds: an IPU has more
\* than a thousand tiles, two to a bus, and the share is 50 by default.
Enough ==
  /\ TileCounts \subseteq Nat \ {0} /\ ConvCounts \subseteq Nat \ {0}
  /\ PerConvOptions \subseteq Nat /\ TilesPerBus \in Nat \ {0}
  /\ 2^UnsignedBits \in Nat
  /\ \A n \in TileCounts :
       /\ n + TilesPerBus <= 2^UnsignedBits
       /\ \A count \in ConvCounts :
            /\ n + 1 >= count
            /\ \A option \in PerConvOptions : PerConv(n, count, option) + 1 >= TilesPerBus

OnBus(n) == \E bus \in 0 .. n : n = bus * TilesPerBus

\* A plan lies within the IPU, and was offered its share.
PlanRight(plan) ==
  /\ plan.start \in Nat /\ plan.offered \in Nat /\ plan.used \in Nat \ {0}
  /\ OnBus(plan.start) /\ plan.start + plan.used <= tiles
  /\ plan.offered + TilesPerBus - 1 >= Smaller(perConv, tiles)

\* The plans lie one after the other, and before the tiles not dealt out yet.
InTurn ==
  /\ \A c, d \in DOMAIN multiPlans :
       c = d \/ multiPlans[c].start + multiPlans[c].used <= multiPlans[d].start
             \/ multiPlans[d].start + multiPlans[d].used <= multiPlans[c].start
  /\ step \in {"next", "last"} =>
       \A c \in DOMAIN multiPlans : multiPlans[c].start + multiPlans[c].used <= start

\* Of so many convolutions planned, the largest was the first, and a share is set
\* aside for each of the others but the next.
Progress(planned) ==
  /\ DOMAIN multiPlans = {convs - 1} \cup 0 .. planned - 2
  /\ reserved = (convs - 1 - planned) * perConv
  /\ start \in Nat /\ OnBus(start)
  /\ start + reserved <= tiles
  /\ start + reserved + perConv <= tiles + TilesPerBus - 1

\* The inductive invariant of the planning
DealInv ==
  /\ tiles \in TileCounts /\ convs \in ConvCounts
  /\ perConv \in Nat /\ perConv + 1 >= TilesPerBus
  /\ asserts = TRUE
  /\ step \in {"largest", "next", "last", "parallel", "serial"}
  /\ \A c \in DOMAIN multiPlans : PlanRight(multiPlans[c])
  /\ InTurn
  /\ step = "largest" =>
       /\ DOMAIN multiPlans = {} /\ start = 0
       /\ reserved = (convs - 1) * perConv
       /\ tiles = reserved \/ tiles >= reserved + perConv
  /\ step = "next" => \E planned \in 1 .. convs - 2 : Progress(planned)
  /\ step = "last" => convs > 1 /\ Progress(convs - 1)
  /\ step = "parallel" => DOMAIN multiPlans = Conv
=============================================================================
