------------------------------ MODULE Barrier ------------------------------
(***************************************************************************)
(* What barrier_wait promises, with no lock, queue or counter: a tasklet   *)
(* that calls it stays until Size tasklets have called it, and then the    *)
(* whole group goes.  A tasklet of a group that was let go may call again, *)
(* for the next group, before the others of its group have returned.       *)
(***************************************************************************)
EXTENDS FiniteSets, Naturals

CONSTANTS Threads, \* the tasklets that may call
          Size     \* the counter given to BARRIER_INIT

VARIABLES waiting,  \* tasklets that arrived and whose group is not complete
          released  \* tasklets whose group is complete, still in the call

Init == waiting = {} /\ released = {}

(* A call: the tasklet that completes a group lets the whole group go.     *)
Arrive(t) ==
  /\ t \notin waiting \union released
  /\ IF Cardinality(waiting) + 1 = Size
       THEN /\ waiting' = {}
            /\ released' = released \union waiting \union {t}
       ELSE /\ waiting' = waiting \union {t}
            /\ UNCHANGED released

(* The return of a call.                                                   *)
Depart(t) ==
  /\ t \in released
  /\ released' = released \ {t}
  /\ UNCHANGED waiting

Next == \E t \in Threads : Arrive(t) \/ Depart(t)

Spec == Init /\ [][Next]_<<waiting, released>>
=============================================================================
