----------------------------- MODULE MCThreadJob -----------------------------
(* Small instances of ThreadJob. *)
EXTENDS ThreadJob

CONSTANTS r1, r2, q1, c1, c2

(* All ranks on one NUMA node, so that they share a queue. *)
OneQueueOf == [r \in Rank |-> q1]
OneWorkerQueue == [w \in Worker |-> q1]

(* One client uses the whole set and each of its ranks. *)
AllSets == [c \in Client |-> {<<r1>>, <<r2>>, <<r1, r2>>}]

(* Two clients, each with single-rank sets. *)
RankSets == [c \in Client |-> {<<r>> : r \in Rank}]

(* A client uses the whole set while another one uses its second rank. *)
OverlappingSets == [c \in Client |-> IF c = c1 THEN {<<r1, r2>>} ELSE {<<r2>>}]

AnyKind == Kind
OnlyAsync == {"async"}
====
