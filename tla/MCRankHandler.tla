--------------------------- MODULE MCRankHandler ---------------------------
(***************************************************************************)
(* Instances of RankHandler: all ranks are polled by one thread.  One      *)
(* client names its backend, the other has the library probed first.       *)
(***************************************************************************)
EXTENDS RankHandler

CONSTANTS p1, c1, c2

OnePoller == [r \in Rank |-> p1]
TwoCallers == [c \in Client |-> IF c = c1 THEN "get" ELSE "probe"]
====
