----------------------------- MODULE AllReduce -----------------------------
(***************************************************************************)
(* All-reduce with one IPU per rank, step by step round the ring           *)
(* (RingCollectives), or over ranks of several IPUs, where what matters is *)
(* how tensors are cut up and put together (RankCollectives).  A behaviour *)
(* is of one or of the other.                                              *)
(***************************************************************************)
EXTENDS RingCollectives

CONSTANTS RankCalls, Thresholds

VARIABLES
  rankCall, rankPhase, methods, fragments, rankChunks, rankGathered, result,
  ranks       \* what the ranks of the behaviour are of

rankVars == <<rankCall, rankPhase, methods, fragments, rankChunks, rankGathered, result>>

Ranks == INSTANCE RankCollectives
           WITH Calls <- RankCalls, UnsignedBits <- WordBits, call <- rankCall, phase <- rankPhase,
                chunks <- rankChunks, gathered <- rankGathered

CollectivesAssumption ==
  /\ RingAssumption
  /\ RankCalls \subseteq Ranks!Call
  /\ \A c \in RankCalls :
       Ranks!FragmentsArrive(c) /\ \A e \in DOMAIN c.ipuOf : c.ipuOf[e] < c.ipus

\* Where both are when neither is what a behaviour is of
IdleAt(c, rankC) == RingInitOf(c) /\ Ranks!InitOf(rankC) /\ ranks = "none"

\* The one that a behaviour is not of stays at the call given.
CollectivesInit(c, rankC) ==
  \/ ranks = "of one IPU" /\ RingInit /\ Ranks!InitOf(rankC)
  \/ ranks = "of several IPUs" /\ RingInitOf(c) /\ \E r \in RankCalls : Ranks!InitOf(r)

RingsNext == ranks = "of one IPU" /\ RingNext /\ UNCHANGED <<rankVars, ranks>>
RanksNext == ranks = "of several IPUs" /\ Ranks!Next /\ UNCHANGED <<ringVars, ranks>>

-----------------------------------------------------------------------------
\* The program of a ring comes to its end: no rank waits for a chunk that neither
\* direction brings it.
RingTerminates == (ranks = "of one IPU") ~> (ringPhase = "done")

\* Ranks of several IPUs have what they cut up in the order of the input
\* (RankCollectives).
RanksInOrder == Ranks!RanksInOrder
=============================================================================
