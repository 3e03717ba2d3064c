------------------------- MODULE MCControlInterface -------------------------
(* A rank of two control interfaces of two DPUs. *)
EXTENDS ControlInterface

(* Every DPU enabled; one disabled; a CI without any. *)
MCProfiles == {[c \in Ci |-> {0, 1}],
               [c \in Ci |-> IF c = 0 THEN {0, 1} ELSE {0}],
               [c \in Ci |-> IF c = 0 THEN {0, 1} ELSE {}]}
=============================================================================
