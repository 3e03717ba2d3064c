------------------------------ MODULE MCPreempt ------------------------------
(***************************************************************************)
(* Instances of Preempt: the ranks share a queue; a worker was given the   *)
(* thread_info of the rank of its name.                                    *)
(***************************************************************************)
EXTENDS Preempt

CONSTANTS r1, r2, q1, d1

OneQueueOf == [r \in Rank |-> q1]
RankTarget == {All}
ListOrder == [r \in Rank |-> CHOOSE i \in 1..NrRanks : RankAt[i] = r]
OneWorkerEach == [w \in Worker |-> w]
OneRank == <<r1>>
TwoRanks == <<r1, r2>>
====
