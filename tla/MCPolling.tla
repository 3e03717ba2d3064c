------------------------------ MODULE MCPolling ------------------------------
(***************************************************************************)
(* Instances of Polling: two ranks share the polling thread of one queue.  *)
(***************************************************************************)
EXTENDS Polling

CONSTANTS r1, r2, q1, d1, d2

OneQueueOf == [r \in Rank |-> q1]
ListOrder == [r \in Rank |-> IF r = r1 THEN 1 ELSE 2]
EveryTarget == {All, d1, d2}
RankTarget == {All}
DpuTarget == {d1}
====
