--------------------------- MODULE DpuSyncProofs ---------------------------
(***************************************************************************)
(* The synchronisation primitives of the DPU runtime, for every number of  *)
(* tasklets, barriers, semaphores and virtual mutexes and every program.   *)
(***************************************************************************)
EXTENDS DpuSync, FiniteSetTheorems, WellFoundedInduction, TLAPS

(* The places of a call where the tasklet has acquired the object's bit. *)
Critical == {"locked", "wake", "link", "rearm", "wake1", "leave", "loaded", "stored"}

Places == Critical \union {"call", "stop", "stopped"}

Waking == {"wake", "link", "rearm"}

Nobody == Tasklets \union {Empty}

Bytes == {Byte(id) : id \in VmIds}

DpuType ==
    /\ program \in Programs
    /\ at \in [Tasklets -> Nat \ {0}]
    /\ pc \in [Tasklets -> Places]
    /\ reg \in [Tasklets -> [first : Nobody, last : Nobody, byte : SUBSET (0..7)]]
    /\ running \in [Tasklets -> BOOLEAN]
    /\ lock \in [Locks -> Nobody]
    /\ barrier \in [Barriers -> [queue : Nobody, count : Int]]
    /\ sem \in [Sems -> [queue : Nobody, count : Int]]
    /\ wq \in [Tasklets -> Nobody]
    /\ shake \in [Tasklets -> Nobody]
    /\ already \subseteq Tasklets \X Nat
    /\ vm \in [Bytes -> SUBSET (0..7)]

(* Where a tasklet can be in a call of each kind. *)
PlaceIn(place, kind) ==
    /\ place \in {"stop", "stopped"} => kind \in {"barrier", "take", "notify", "wait_for"}
    /\ place \in Waking => kind = "barrier"
    /\ place = "wake1" => kind = "give"
    /\ place = "leave" => kind \in {"give", "notify", "wait_for"}
    /\ place \in {"loaded", "stored"} => kind \in {"vlock", "vunlock"}

PlaceOf(t) ==
    /\ Over(t) => pc[t] = "call"
    /\ ~running[t] => pc[t] = "stopped"
    /\ PlaceIn(pc[t], Call(t).kind)

PlaceInv == \A t \in Tasklets : PlaceOf(t)

(* The bits are taken by the tasklets that are between acquire and release.*)
LockInv ==
    /\ \A t \in Tasklets : pc[t] \in Critical => lock[LockOf(t)] = t
    /\ \A l \in Locks : lock[l] # Empty => pc[lock[l]] \in Critical /\ LockOf(lock[l]) = l

(* Only calls of handshake_wait_for return an error. *)
AlreadyInv ==
    \A t \in Tasklets : \A i \in Nat :
       <<t, i>> \in already => i \in 1..at[t] - 1 /\ program[t][i].kind = "wait_for"

(* q holds the n members of S in the order of the links in w. *)
Ring(w, n, q, S) ==
    /\ n \in Nat
    /\ q \in [1..n -> Tasklets]
    /\ \A i, j \in 1..n : q[i] = q[j] => i = j
    /\ \A t \in Tasklets : t \in S <=> \E i \in 1..n : t = q[i]
    /\ \A i \in 1..n - 1 : w[q[i]] = q[i + 1]

(* last is the last of the list, and its link leads to the first. *)
Closed(w, last, n, q) ==
    IF n = 0 THEN last = Empty ELSE last = q[n] /\ w[last] = q[1]

(* The list of a barrier, and what is left of it while it is woken. *)
BarrierList(b, n, q) ==
    /\ Ring(wq, n, q, Waits("barrier", b))
    /\ Waker(b) = {} =>
          /\ Closed(wq, barrier[b].queue, n, q)
          /\ barrier[b].count = BarrierSize[b] - n /\ barrier[b].count >= 1
    /\ \A u \in Waker(b) :
          /\ pc[u] = "wake" => n > 0 /\ reg[u].first = q[1] /\ reg[u].last = q[n]
          /\ pc[u] = "link" => /\ n > 0 /\ reg[u].last = q[n]
                               /\ reg[u].first \in Tasklets /\ wq[reg[u].first] = q[1]
          /\ pc[u] = "rearm" => n = 0

BarrierInv == \A b \in Barriers : \E n, q : BarrierList(b, n, q)

(* The one that takes a waiter off the list of s to resume it. *)
Giver(s) == {t \in Tasklets : In(t, "give", s) /\ pc[t] = "wake1"}

Off(s) == {reg[u].first : u \in Giver(s)}

SemList(s, n, q) ==
    /\ Ring(wq, n, q, Waits("take", s) \ Off(s))
    /\ Off(s) \subseteq Waits("take", s)
    /\ Closed(wq, sem[s].queue, n, q)

SemInv == \A s \in Sems : \E n, q : SemList(s, n, q)

(* The tasklet whose link a waker is to load is in no list. *)
LinkInv ==
    \A u \in Tasklets : pc[u] = "link" =>
       /\ reg[u].first \in Tasklets
       /\ \A b \in Barriers : reg[u].first \notin Waits("barrier", b)
       /\ \A s \in Sems : reg[u].first \notin Waits("take", s)

(* The entry of a notifier holds the one that waits. *)
ShakeInv ==
    \A n \in Tasklets :
       /\ shake[n] = n <=> n \in Waits("notify", n)
       /\ \A t \in Tasklets \ {n} : shake[n] = t <=> t \in Waits("wait_for", n)

(* The bit of id is set when the mutex is held, but between the store and  *)
(* the return of the call that holds the hardware mutex.                   *)
VmOf(id) ==
    /\ \A t, u \in VmHolders(id) : t = u
    /\ \A t \in Tasklets : pc[t] = "stored" /\ Call(t).on = id =>
          /\ Call(t).kind = "vlock" => /\ Bit(id) \in vm[Byte(id)]
                                       /\ Bit(id) \in reg[t].byte <=> VmHolders(id) # {}
          /\ Call(t).kind = "vunlock" => Bit(id) \notin vm[Byte(id)] /\ VmHolders(id) = {}
    /\ (\A t \in Tasklets : ~(pc[t] = "stored" /\ Call(t).on = id)) =>
          (Bit(id) \in vm[Byte(id)] <=> VmHolders(id) # {})

VmInv ==
    /\ \A t \in Tasklets : pc[t] = "loaded" => reg[t].byte = vm[Byte(Call(t).on)]
    /\ \A id \in VmIds : VmOf(id)

IInv ==
    /\ DpuType /\ PlaceInv /\ LockInv /\ AlreadyInv
    /\ BarrierInv /\ SemInv /\ LinkInv /\ ShakeInv /\ VmInv

-----------------------------------------------------------------------------
(***************************************************************************)
(* Calls and their locks.                                                  *)
(***************************************************************************)

VmKinds == {"vlock", "vunlock"}

(* A tasklet whose program is not over is in one of its calls. *)
LEMMA CallType ==
    ASSUME DpuType, NEW t \in Tasklets, ~Over(t)
    PROVE  /\ program[t] \in Seq(CallsOf(t)) /\ at[t] \in DOMAIN program[t]
           /\ Call(t) \in CallsOf(t)
<1>1. program[t] \in Seq(CallsOf(t))
  BY ProgramsAssumption DEF DpuType
<1>2. at[t] \in 1..Len(program[t])
  BY <1>1 DEF DpuType, Over
<1> QED
  BY <1>1, <1>2 DEF Call

(* What the kind of a call says of its object. *)
LEMMA CallCases ==
    ASSUME DpuType, NEW t \in Tasklets, ~Over(t)
    PROVE  /\ Call(t) = [kind |-> Call(t).kind, on |-> Call(t).on]
           /\ \/ Call(t).kind = "barrier" /\ Call(t).on \in Barriers
              \/ Call(t).kind = "take" /\ Call(t).on \in Sems
              \/ Call(t).kind = "give" /\ Call(t).on \in Sems
              \/ Call(t).kind = "notify" /\ Call(t).on = t
              \/ Call(t).kind = "wait_for" /\ Call(t).on \in Tasklets \ {t}
              \/ Call(t).kind = "vlock" /\ Call(t).on \in VmIds
              \/ Call(t).kind = "vunlock" /\ Call(t).on \in VmIds
<1>1. Call(t) \in CallsOf(t)
  BY CallType
<1> QED
  BY <1>1 DEF CallsOf

(* The bit that a call takes is the bit of its object. *)
LEMMA LockCases ==
    ASSUME DpuType, NEW t \in Tasklets, ~Over(t)
    PROVE  /\ LockOf(t) \in Locks
           /\ LockOf(t) = << IF Call(t).kind = "barrier" THEN "barrier"
                            ELSE IF Call(t).kind \in {"take", "give"} THEN "sem"
                            ELSE IF Call(t).kind \in {"notify", "wait_for"} THEN "shake"
                            ELSE "vm",
                            IF Call(t).kind \in VmKinds THEN HwMutex(Call(t).on)
                            ELSE Call(t).on >>
<1> DEFINE c == Call(t)
<1>1. \A id \in VmIds : HwMutex(id) \in 0..NbMutexes - 1
  BY DpuSyncAssumption DEF HwMutex, Byte
<1>2. CASE c.kind = "barrier"
  BY <1>2, CallCases DEF LockOf, Locks, VmKinds
<1>3. CASE c.kind \in {"take", "give"}
  BY <1>3, CallCases DEF LockOf, Locks, VmKinds
<1>4. CASE c.kind = "notify"
  BY <1>4, CallCases DEF LockOf, Locks, VmKinds
<1>5. CASE c.kind = "wait_for"
  BY <1>5, CallCases DEF LockOf, Locks, VmKinds
<1>6. CASE c.kind \in VmKinds
  BY <1>6, <1>1, CallCases DEF LockOf, Locks, VmKinds
<1> QED
  BY <1>2, <1>3, <1>4, <1>5, <1>6, CallCases DEF VmKinds

(* A tasklet that does not return stays in its call. *)
LEMMA CallKept ==
    ASSUME program' = program, NEW t, at'[t] = at[t]
    PROVE  /\ Over(t)' = Over(t) /\ Call(t)' = Call(t) /\ LockOf(t)' = LockOf(t)
           /\ \A k, o : In(t, k, o)' = In(t, k, o)
<1>1. Over(t)' = Over(t) /\ Call(t)' = Call(t)
  BY DEF Over, Call
<1>2. LockOf(t)' = LockOf(t)
  BY <1>1 DEF LockOf
<1> QED
  BY <1>1, <1>2 DEF In

-----------------------------------------------------------------------------
(***************************************************************************)
(* Types, places and locks.                                                *)
(***************************************************************************)

(* What every step of t is: it moves t to another place of its call or     *)
(* returns, it takes the object's bit, keeps it or releases it, and it     *)
(* stops nobody else.                                                      *)
Moves(t) ==
    \/ at' = [at EXCEPT ![t] = @ + 1] /\ pc' = [pc EXCEPT ![t] = "call"]
    \/ /\ at' = at /\ pc' = [pc EXCEPT ![t] = pc'[t]]
       /\ pc'[t] \in Places /\ PlaceIn(pc'[t], Call(t).kind)

Keeps(t) ==
    \/ Acquire(t)
    \/ lock' = lock /\ at' = at /\ pc[t] \in Critical /\ pc'[t] \in Critical
    \/ lock' = lock /\ pc[t] \notin Critical /\ pc'[t] \notin Critical
    \/ Release(t) /\ pc[t] \in Critical /\ pc'[t] \notin Critical

Runs(t) ==
    \/ running' = running
    \/ \E u : running' = [running EXCEPT ![u] = TRUE]
    \/ running' = [running EXCEPT ![t] = FALSE] /\ pc'[t] = "stopped"

(* Every step has that shape. *)
LEMMA StepShape ==
    ASSUME DpuType, PlaceInv, NEW t \in Tasklets, Step(t)
    PROVE  /\ program' = program /\ ~Over(t) /\ running[t]
           /\ Moves(t) /\ Keeps(t) /\ Runs(t)
<1>0. /\ at \in [Tasklets -> Nat \ {0}] /\ pc \in [Tasklets -> Places]
      /\ PlaceIn(pc[t], Call(t).kind)
  BY DEF DpuType, PlaceInv, PlaceOf
<1> USE DEF At, Moves, Keeps, Runs, PlaceIn, Places, Critical, Waking
<1>1. CASE Acquire(t)
  BY <1>0, <1>1 DEF Acquire, Goto
<1>2. CASE Stop(t)
  BY <1>0, <1>2 DEF Stop, Goto
<1>3. CASE Resumed(t)
  BY <1>0, <1>3 DEF Resumed, Return
<1>4. CASE BarrierEnqueue(t)
  BY <1>0, <1>4 DEF BarrierEnqueue, Goto
<1>5. CASE BarrierAlone(t)
  BY <1>0, <1>5 DEF BarrierAlone, Return
<1>6. CASE BarrierLast(t)
  BY <1>0, <1>6 DEF BarrierLast, Goto
<1>7. CASE BarrierWake(t)
  BY <1>0, <1>7 DEF BarrierWake, Goto, Resume
<1>8. CASE BarrierLink(t)
  BY <1>0, <1>8 DEF BarrierLink, Goto
<1>9. CASE BarrierWakeLast(t)
  BY <1>0, <1>9 DEF BarrierWakeLast, Goto, Resume
<1>10. CASE BarrierRearm(t)
  BY <1>0, <1>10 DEF BarrierRearm, Return
<1>11. CASE SemTake(t)
  BY <1>0, <1>11 DEF SemTake, Return
<1>12. CASE SemTakeWait(t)
  BY <1>0, <1>12 DEF SemTakeWait, Goto
<1>13. CASE SemGive(t)
  BY <1>0, <1>13 DEF SemGive, Return
<1>14. CASE SemUnlink(t)
  BY <1>0, <1>14 DEF SemUnlink, Goto
<1>15. CASE SemGiveWake(t)
  BY <1>0, <1>15 DEF SemGiveWake, Goto, Resume
<1>16. CASE ShakeFirst(t)
  BY <1>0, <1>16 DEF ShakeFirst, Goto, InHandshake
<1>17. CASE ShakeSecond(t)
  BY <1>0, <1>17 DEF ShakeSecond, Goto, Resume, InHandshake
<1>18. CASE ShakeAlready(t)
  BY <1>0, <1>18 DEF ShakeAlready, Return, InHandshake
<1>19. CASE VmLoad(t)
  BY <1>0, <1>19 DEF VmLoad, Goto
<1>20. CASE VmStore(t)
  BY <1>0, <1>20 DEF VmStore, Goto
<1>21. CASE VmDone(t)
  BY <1>0, <1>21 DEF VmDone, Goto, Return
<1>22. CASE Leave(t)
  BY <1>0, <1>22 DEF Leave, Return
<1> QED
  BY <1>22, <1>1, <1>2, <1>3, <1>4, <1>5, <1>6, <1>7, <1>8, <1>9, <1>10, <1>11, <1>12, <1>13, <1>14, <1>15,
     <1>16, <1>17, <1>18, <1>19, <1>20, <1>21 DEF Step

(* What is not of the tasklet that steps stays. *)
Apart(t) ==
    /\ program' = program
    /\ at' \in [Tasklets -> Nat \ {0}] /\ pc' \in [Tasklets -> Places]
    /\ \A u \in Tasklets \ {t} : at'[u] = at[u] /\ pc'[u] = pc[u]

(* A step leaves the places and the calls of the others. *)
LEMMA StepApart ==
    ASSUME DpuType, PlaceInv, NEW t \in Tasklets, Step(t)
    PROVE  Apart(t)
<1>1. at \in [Tasklets -> Nat \ {0}] /\ pc \in [Tasklets -> Places]
  BY DEF DpuType
<1>2. program' = program /\ Moves(t)
  BY StepShape
<1> QED
  BY <1>1, <1>2 DEF Moves, Apart, Places

(* The others stay in their calls. *)
LEMMA OthersKept ==
    ASSUME NEW t \in Tasklets, Apart(t), NEW u \in Tasklets \ {t}
    PROVE  /\ Over(u)' = Over(u) /\ Call(u)' = Call(u) /\ LockOf(u)' = LockOf(u)
           /\ \A k, o : In(u, k, o)' = In(u, k, o)
  BY CallKept DEF Apart

(* A step that keeps what it has of the bits. *)
LEMMA LockStays ==
    ASSUME DpuType, PlaceInv, LockInv, NEW t \in Tasklets, Apart(t),
           lock' = lock,
           \/ at' = at /\ pc[t] \in Critical /\ pc'[t] \in Critical
           \/ pc[t] \notin Critical /\ pc'[t] \notin Critical
    PROVE  LockInv'
<1>1. ASSUME NEW u \in Tasklets, pc'[u] \in Critical
      PROVE  pc[u] \in Critical /\ LockOf(u)' = LockOf(u)
  BY <1>1, OthersKept, CallKept DEF Apart
<1>2. ASSUME NEW u \in Tasklets, pc[u] \in Critical
      PROVE  pc'[u] \in Critical /\ LockOf(u)' = LockOf(u)
  BY <1>2, OthersKept, CallKept DEF Apart
<1>3. \A l \in Locks : lock[l] # Empty => lock[l] \in Tasklets
  BY DEF DpuType, Nobody
<1>4. Locks' = Locks
  BY DEF Locks
<1>5. \A u \in Tasklets : pc'[u] \in Critical => lock'[LockOf(u)'] = u
  BY <1>1 DEF LockInv
<1>6. \A l \in Locks : lock'[l] # Empty => pc'[lock'[l]] \in Critical /\ LockOf(lock[l])' = l
  BY <1>2, <1>3 DEF LockInv
<1> QED
  BY <1>4, <1>5, <1>6 DEF LockInv

(* A step that releases the bit. *)
LEMMA LockReleased ==
    ASSUME DpuType, PlaceInv, LockInv, NEW t \in Tasklets, Apart(t),
           pc[t] \in Critical, pc'[t] \notin Critical, Release(t)
    PROVE  LockInv'
<1> DEFINE m == LockOf(t)
<1>0. ~Over(t)
  BY DEF PlaceInv, PlaceOf, Critical
<1>1. m \in Locks /\ lock[m] = t /\ lock \in [Locks -> Nobody]
  BY <1>0, LockCases DEF LockInv, DpuType
<1>2. lock' = [lock EXCEPT ![m] = Empty]
  BY DEF Release
<1>3. \A u \in Tasklets : pc'[u] \in Critical => u # t
  OBVIOUS
<1>4. \A u \in Tasklets : pc'[u] \in Critical =>
         pc[u] \in Critical /\ lock[LockOf(u)] = u /\ LockOf(u)' = LockOf(u) /\ LockOf(u) \in Locks
  <2> SUFFICES ASSUME NEW u \in Tasklets, pc'[u] \in Critical
               PROVE  /\ pc[u] \in Critical /\ lock[LockOf(u)] = u
                      /\ LockOf(u)' = LockOf(u) /\ LockOf(u) \in Locks
    OBVIOUS
  <2>1. pc[u] \in Critical /\ LockOf(u)' = LockOf(u)
    BY <1>3, OthersKept DEF Apart
  <2>2. ~Over(u)
    BY <2>1 DEF PlaceInv, PlaceOf, Critical
  <2> QED
    BY <2>1, <2>2, LockCases DEF LockInv
<1>5. \A u \in Tasklets : pc'[u] \in Critical => lock'[LockOf(u)'] = u
  BY <1>1, <1>2, <1>3, <1>4
<1>6. \A l \in Locks : lock'[l] # Empty => l # m /\ lock'[l] = lock[l] /\ lock[l] \in Tasklets \ {t}
  <2> SUFFICES ASSUME NEW l \in Locks, lock'[l] # Empty
               PROVE  l # m /\ lock'[l] = lock[l] /\ lock[l] \in Tasklets \ {t}
    OBVIOUS
  <2>1. l # m /\ lock'[l] = lock[l]
    BY <1>1, <1>2
  <2> QED
    BY <2>1, <1>1 DEF LockInv, Nobody
<1>7. \A l \in Locks : lock'[l] # Empty => pc'[lock'[l]] \in Critical /\ LockOf(lock[l])' = l
  <2> SUFFICES ASSUME NEW l \in Locks, lock'[l] # Empty
               PROVE  pc'[lock'[l]] \in Critical /\ LockOf(lock[l])' = l
    OBVIOUS
  <2>1. lock'[l] = lock[l] /\ lock[l] \in Tasklets \ {t} /\ lock[l] # Empty
    BY <1>6
  <2>2. LockOf(lock[l]) = l /\ pc[lock[l]] \in Critical
    BY <2>1 DEF LockInv
  <2>3. \A u \in Tasklets \ {t} : LockOf(u)' = LockOf(u) /\ pc'[u] = pc[u]
    BY OthersKept DEF Apart
  <2>4. ASSUME NEW u \in Tasklets \ {t}, u = lock[l]
        PROVE  LockOf(lock[l])' = LockOf(u)'
    BY <2>1, <2>4 DEF LockOf, Call
  <2> QED
    BY <2>1, <2>2, <2>3, <2>4
<1>8. Locks' = Locks
  BY DEF Locks
<1> QED
  BY <1>5, <1>7, <1>8 DEF LockInv

(* acquire succeeds when nobody has the bit. *)
LEMMA LockTaken ==
    ASSUME DpuType, PlaceInv, LockInv, NEW t \in Tasklets, Acquire(t)
    PROVE  LockInv'
<1> DEFINE m == LockOf(t)
<1>1. ~Over(t) /\ pc[t] = "call" /\ lock[m] = Empty /\ at' = at /\ program' = program
  BY DEF Acquire, At
<1>2. m \in Locks /\ lock \in [Locks -> Nobody] /\ pc \in [Tasklets -> Places]
  BY <1>1, LockCases DEF DpuType
<1>3. lock' = [lock EXCEPT ![m] = t] /\ pc' = [pc EXCEPT ![t] = "locked"]
  BY DEF Acquire, Goto
<1>4. \A u \in Tasklets : LockOf(u)' = LockOf(u)
  BY <1>1, CallKept
<1>5. t # Empty /\ \A u \in Tasklets : u # Empty
  BY DpuSyncAssumption
<1>6. \A u \in Tasklets : pc'[u] \in Critical => lock'[LockOf(u)'] = u
  <2> SUFFICES ASSUME NEW u \in Tasklets, pc'[u] \in Critical
               PROVE  lock'[LockOf(u)] = u
    BY <1>4
  <2>1. CASE u = t
    BY <2>1, <1>2, <1>3
  <2>2. CASE u # t
    <3>1. pc[u] \in Critical
      BY <2>2, <1>2, <1>3
    <3>2. ~Over(u) /\ lock[LockOf(u)] = u
      BY <3>1 DEF LockInv, PlaceInv, PlaceOf, Critical
    <3> QED
      BY <3>2, LockCases, <1>1, <1>2, <1>3, <1>5
  <2> QED
    BY <2>1, <2>2
<1>7. \A l \in Locks : lock'[l] # Empty => pc'[lock'[l]] \in Critical /\ LockOf(lock[l])' = l
  <2> SUFFICES ASSUME NEW l \in Locks, lock'[l] # Empty
               PROVE  pc'[lock'[l]] \in Critical /\ LockOf(lock[l])' = l
    OBVIOUS
  <2>1. CASE l = m
    <3>1. lock'[l] = t
      BY <2>1, <1>2, <1>3
    <3>2. LockOf(lock[l])' = LockOf(t)'
      BY <3>1 DEF LockOf, Call
    <3> QED
      BY <3>1, <3>2, <2>1, <1>2, <1>3, <1>4 DEF Critical
  <2>2. CASE l # m
    <3>1. lock'[l] = lock[l] /\ lock[l] \in Tasklets
      BY <2>2, <1>2, <1>3 DEF Nobody
    <3>2. LockOf(lock[l]) = l /\ pc[lock[l]] \in Critical
      BY <3>1, <1>5 DEF LockInv
    <3>3. LockOf(lock[l])' = LockOf(lock[l])
      BY <3>1, <1>1 DEF LockOf, Call
    <3> QED
      BY <3>1, <3>2, <3>3, <1>1, <1>2, <1>3 DEF Critical
  <2> QED
    BY <2>1, <2>2
<1>8. Locks' = Locks
  BY DEF Locks
<1> QED
  BY <1>6, <1>7, <1>8 DEF LockInv

(* Every step keeps the bits with the tasklets that are inside. *)
LEMMA LockStep ==
    ASSUME DpuType, PlaceInv, LockInv, NEW t \in Tasklets, Step(t)
    PROVE  LockInv'
<1>1. Apart(t) /\ Keeps(t)
  BY StepApart, StepShape
<1> QED
  BY <1>1, LockTaken, LockStays, LockReleased DEF Keeps

(* Every step keeps the places right for the kinds of calls. *)
LEMMA PlaceStep ==
    ASSUME DpuType, PlaceInv, NEW t \in Tasklets, Step(t)
    PROVE  PlaceInv'
<1>a. running \in [Tasklets -> BOOLEAN] /\ Runs(t)
  BY StepShape DEF DpuType
<1>b. \A u \in Tasklets : ~running'[u] => ~running[u] \/ (u = t /\ pc'[t] = "stopped")
  BY <1>a DEF Runs
<1>0. /\ Apart(t) /\ Moves(t) /\ running[t] /\ ~Over(t) /\ pc \in [Tasklets -> Places]
      /\ \A u \in Tasklets : ~running'[u] => ~running[u] \/ (u = t /\ pc'[t] = "stopped")
  BY <1>b, StepApart, StepShape DEF DpuType
<1>1. ASSUME NEW u \in Tasklets \ {t}
      PROVE  PlaceOf(u)'
  <2>1. Over(u)' = Over(u) /\ Call(u)' = Call(u) /\ pc'[u] = pc[u] /\ PlaceOf(u)
    BY <1>0, OthersKept DEF Apart, PlaceInv
  <2> QED
    BY <2>1, <1>0 DEF PlaceOf, PlaceIn
<1>2. PlaceOf(t)'
  <2>1. CASE pc' = [pc EXCEPT ![t] = "call"]
    BY <2>1, <1>0 DEF PlaceOf, PlaceIn, Waking
  <2>2. CASE at' = at /\ PlaceIn(pc'[t], Call(t).kind)
    <3>1. Over(t)' = Over(t) /\ Call(t)' = Call(t)
      BY <1>0, <2>2, CallKept DEF Apart
    <3> QED
      BY <3>1, <2>2, <1>0 DEF PlaceOf, PlaceIn
  <2> QED
    BY <2>1, <2>2, <1>0 DEF Moves
<1> QED
  BY <1>1, <1>2 DEF PlaceInv

-----------------------------------------------------------------------------
(***************************************************************************)
(* Circular lists.                                                         *)
(***************************************************************************)

(* A list depends on the links of its members only. *)
LEMMA RingFrame ==
    ASSUME NEW w, NEW x, NEW n, NEW q, NEW S, Ring(w, n, q, S),
           \A t \in Tasklets : t \in S => x[t] = w[t]
    PROVE  /\ Ring(x, n, q, S)
           /\ \A last : Closed(w, last, n, q) => Closed(x, last, n, q)
<1>1. \A i \in 1..n : q[i] \in Tasklets /\ x[q[i]] = w[q[i]]
  BY DEF Ring
<1> QED
  BY <1>1 DEF Ring, Closed

(* A list that ends with t: n others and t. *)
EndsWith(x, n, S, t) ==
    \E p : Ring(x, n + 1, p, S \union {t}) /\ Closed(x, t, n + 1, p)

(* Linked puts a tasklet at the end. *)
LEMMA RingAppend ==
    ASSUME NEW w \in [Tasklets -> Nobody], NEW n, NEW q, NEW S, NEW last, NEW t \in Tasklets,
           Ring(w, n, q, S), Closed(w, last, n, q), t \notin S, NEW x,
           x = IF last = Empty THEN [w EXCEPT ![t] = t]
               ELSE [w EXCEPT ![t] = w[last], ![last] = t]
    PROVE  EndsWith(x, n, S, t)
<1> USE DEF EndsWith
<1> DEFINE p == [i \in 1..n + 1 |-> IF i = n + 1 THEN t ELSE q[i]]
<1>1. n \in Nat /\ q \in [1..n -> Tasklets]
  BY DEF Ring
<1>2. /\ p \in [1..n + 1 -> Tasklets] /\ p[n + 1] = t
      /\ \A i \in 1..n : p[i] = q[i] /\ q[i] # t /\ q[i] \in Tasklets
  BY <1>1 DEF Ring
<1>3. last = Empty <=> n = 0
  BY <1>1, DpuSyncAssumption DEF Closed
<1>4. CASE n = 0
  <2>1. x[t] = t /\ p[1] = t
    BY <1>2, <1>3, <1>4
  <2>2. Ring(x, n + 1, p, S \union {t})
    BY <1>2, <1>4, <2>1 DEF Ring
  <2>3. Closed(x, t, n + 1, p)
    BY <1>2, <1>4, <2>1 DEF Closed
  <2> QED
    BY <2>2, <2>3
<1>5. CASE n # 0
  <2>1. last = q[n] /\ w[last] = q[1] /\ last # t /\ n >= 1
    BY <1>1, <1>2, <1>5 DEF Closed
  <2>2. /\ x[t] = q[1] /\ x[q[n]] = t
        /\ \A u \in Tasklets \ {t, q[n]} : x[u] = w[u]
    BY <1>1, <1>2, <1>3, <1>5, <2>1
  <2>3. \A i \in 1..n - 1 : x[q[i]] = q[i + 1]
    <3> SUFFICES ASSUME NEW i \in 1..n - 1
                 PROVE  x[q[i]] = q[i + 1]
      OBVIOUS
    <3>1. i \in 1..n /\ n \in 1..n /\ i # n
      BY <1>1, <2>1
    <3>2. q[i] \in Tasklets \ {t, q[n]}
      BY <1>2, <3>1 DEF Ring
    <3> QED
      BY <2>2, <3>2 DEF Ring
  <2>4. \A i \in 1..n : x[p[i]] = p[i + 1]
    <3> SUFFICES ASSUME NEW i \in 1..n
                 PROVE  x[p[i]] = p[i + 1]
      OBVIOUS
    <3>1. CASE i = n
      BY <3>1, <1>1, <1>2, <2>2
    <3>2. CASE i # n
      <4>1. i \in 1..n - 1 /\ i + 1 \in 1..n
        BY <3>2, <1>1
      <4> QED
        BY <4>1, <1>2, <2>3
    <3> QED
      BY <3>1, <3>2
  <2>5. \A i, j \in 1..n + 1 : p[i] = p[j] => i = j
    BY <1>1, <1>2 DEF Ring
  <2>6. \A u \in Tasklets : u \in S \union {t} <=> \E i \in 1..n + 1 : u = p[i]
    <3> SUFFICES ASSUME NEW u \in Tasklets
                 PROVE  u \in S \union {t} <=> \E i \in 1..n + 1 : u = p[i]
      OBVIOUS
    <3>1. u \in S <=> \E i \in 1..n : u = p[i]
      BY <1>2 DEF Ring
    <3>2. (\E i \in 1..n + 1 : u = p[i]) <=> u = p[n + 1] \/ (\E i \in 1..n : u = p[i])
      BY <1>1
    <3> QED
      BY <3>1, <3>2, <1>2
  <2>7. n + 1 \in Nat /\ (n + 1) - 1 = n
    BY <1>1
  <2>8. Ring(x, n + 1, p, S \union {t})
    BY <1>2, <2>4, <2>5, <2>6, <2>7 DEF Ring
  <2>9. Closed(x, t, n + 1, p)
    BY <1>1, <1>2, <2>1, <2>2 DEF Closed
  <2> QED
    BY <2>8, <2>9
<1> QED
  BY <1>4, <1>5

(* Without its first a list is still one. *)
LEMMA RingTail ==
    ASSUME NEW w, NEW n, NEW q, NEW S, Ring(w, n, q, S), n > 0
    PROVE  \E p : /\ Ring(w, n - 1, p, S \ {q[1]})
                  /\ n > 1 => p[1] = w[q[1]] /\ p[n - 1] = q[n] /\ q[n] # q[1]
                  /\ n = 1 => q[1] = q[n]
<1> DEFINE p == [i \in 1..n - 1 |-> q[i + 1]]
<1>1. n \in Nat /\ q \in [1..n -> Tasklets] /\ 1 \in 1..n
  BY DEF Ring
<1>2. \A i \in 1..n - 1 : i + 1 \in 1..n /\ p[i] = q[i + 1]
  BY <1>1
<1>3. n - 1 \in Nat /\ p \in [1..n - 1 -> Tasklets]
  BY <1>1, <1>2
<1>4. \A i, j \in 1..n - 1 : p[i] = p[j] => i = j
  BY <1>1, <1>2 DEF Ring
<1>5. \A u \in Tasklets : u \in S \ {q[1]} <=> \E i \in 1..n - 1 : u = p[i]
  <2> SUFFICES ASSUME NEW u \in Tasklets
               PROVE  u \in S \ {q[1]} <=> \E i \in 1..n - 1 : u = p[i]
    OBVIOUS
  <2>1. ASSUME u \in S \ {q[1]}
        PROVE  \E i \in 1..n - 1 : u = p[i]
    <3>1. PICK j \in 1..n : u = q[j]
      BY <2>1 DEF Ring
    <3>2. j - 1 \in 1..n - 1 /\ (j - 1) + 1 = j
      BY <2>1, <3>1, <1>1
    <3> QED
      BY <3>1, <3>2, <1>2
  <2>2. ASSUME NEW i \in 1..n - 1, u = p[i]
        PROVE  u \in S \ {q[1]}
    BY <1>1, <1>2, <2>2 DEF Ring
  <2> QED
    BY <2>1, <2>2
<1>6. \A i \in 1..(n - 1) - 1 : w[p[i]] = p[i + 1]
  <2> SUFFICES ASSUME NEW i \in 1..(n - 1) - 1
               PROVE  w[p[i]] = p[i + 1]
    OBVIOUS
  <2>1. i \in 1..n - 1 /\ i + 1 \in 1..n - 1
    BY <1>1
  <2> QED
    BY <1>2, <2>1 DEF Ring
<1>7. Ring(w, n - 1, p, S \ {q[1]})
  BY <1>3, <1>4, <1>5, <1>6 DEF Ring
<1>8. n > 1 => p[1] = w[q[1]] /\ p[n - 1] = q[n] /\ q[n] # q[1]
  <2> SUFFICES ASSUME n > 1
               PROVE  p[1] = w[q[1]] /\ p[n - 1] = q[n] /\ q[n] # q[1]
    OBVIOUS
  <2>1. 1 \in 1..n - 1 /\ n - 1 \in 1..n - 1 /\ (n - 1) + 1 = n /\ n \in 1..n
    BY <1>1
  <2> QED
    BY <1>1, <1>2, <2>1 DEF Ring
<1> QED
  BY <1>7, <1>8

(* The list without its first, v: w became x. *)
Unlinked(w, x, n, q, S, last, v) ==
    /\ n > 0 /\ last \in Tasklets /\ v = q[1] /\ v \in Tasklets /\ last \in S /\ v \in S
    /\ v = last => n = 1
    /\ v # last =>
          /\ n > 1 /\ w[v] \in Tasklets
          /\ \E p : Ring(x, n - 1, p, S \ {v}) /\ Closed(x, last, n - 1, p)

(* SemUnlink takes the first off. *)
LEMMA RingUnlink ==
    ASSUME NEW w \in [Tasklets -> Nobody], NEW n, NEW q, NEW S, NEW last, NEW v, NEW x,
           Ring(w, n, q, S), Closed(w, last, n, q), last # Empty, v = w[last],
           \A u \in Tasklets : x[u] = IF u = last THEN w[v] ELSE w[u]
    PROVE  Unlinked(w, x, n, q, S, last, v)
<1>1. n \in Nat /\ q \in [1..n -> Tasklets] /\ n # 0 /\ last = q[n] /\ v = q[1]
  BY DEF Ring, Closed
<1>2. n > 0 /\ 1 \in 1..n /\ n \in 1..n /\ v \in Tasklets /\ last \in Tasklets
  BY <1>1
<1>3. (v = last => n = 1) /\ last \in S /\ v \in S
  BY <1>1, <1>2 DEF Ring
<1>4. ASSUME v # last
      PROVE  /\ n > 1 /\ w[v] \in Tasklets
             /\ \E p : Ring(x, n - 1, p, S \ {v}) /\ Closed(x, last, n - 1, p)
  <2>1. n > 1
    BY <1>1, <1>4
  <2>a. PICK p : /\ Ring(w, n - 1, p, S \ {q[1]})
                 /\ n > 1 => p[1] = w[q[1]] /\ p[n - 1] = q[n] /\ q[n] # q[1]
                 /\ n = 1 => q[1] = q[n]
    BY <1>2, RingTail, Zenon
  <2>2. Ring(w, n - 1, p, S \ {v}) /\ p[1] = w[v] /\ p[n - 1] = last
    BY <2>a, <2>1, <1>1
  <2>3. p \in [1..n - 1 -> Tasklets] /\ n - 1 \in 1..n - 1 /\ 1 \in 1..n - 1
    BY <1>1, <2>1, <2>2 DEF Ring
  <2>4. \A i \in 1..(n - 1) - 1 : x[p[i]] = p[i + 1]
    <3> SUFFICES ASSUME NEW i \in 1..(n - 1) - 1
                 PROVE  x[p[i]] = p[i + 1]
      OBVIOUS
    <3>1. i \in 1..n - 1 /\ i # n - 1
      BY <1>1
    <3>2. p[i] # last /\ p[i] \in Tasklets
      BY <1>1, <2>2, <2>3, <3>1 DEF Ring
    <3> QED
      BY <3>2, <2>2 DEF Ring
  <2>5. Ring(x, n - 1, p, S \ {v})
    BY <2>2, <2>4 DEF Ring
  <2>6. x[last] = p[1]
    BY <1>2, <2>2
  <2>7. Closed(x, last, n - 1, p)
    BY <1>1, <2>1, <2>2, <2>6 DEF Closed
  <2> QED
    BY <2>1, <2>2, <2>3, <2>5, <2>7
<1> QED
  BY <1>1, <1>2, <1>3, <1>4 DEF Unlinked

(* n is the number of members. *)
LEMMA RingCard ==
    ASSUME NEW w, NEW n, NEW q, NEW S \in SUBSET Tasklets, Ring(w, n, q, S)
    PROVE  IsFiniteSet(S) /\ Cardinality(S) = n
<1>1. n \in Nat /\ IsFiniteSet(1..n) /\ Cardinality(1..n) = n
  BY FS_Interval DEF Ring
<1>2. q \in Bijection(1..n, S)
  BY DEF Ring, Bijection, Injection, Surjection, IsInjective
<1> QED
  BY <1>1, <1>2, FS_Surjection, FS_Bijection DEF ExistsBijection

-----------------------------------------------------------------------------
(***************************************************************************)
(* Who waits, who wakes and who was woken.                                 *)
(***************************************************************************)

(* u waits, wakes or was woken where it did. *)
Same(u) ==
    /\ \A b : u \in Waker(b)' <=> u \in Waker(b)
    /\ \A s : u \in Giver(s)' <=> u \in Giver(s)
    /\ \A k, o : u \in Waits(k, o)' <=> u \in Waits(k, o)
    /\ \A k, o : u \in Woken(k, o)' <=> u \in Woken(k, o)

(* The others stay there, unless they are resumed. *)
LEMMA OthersSeen ==
    ASSUME NEW t \in Tasklets, Apart(t), NEW u \in Tasklets \ {t}
    PROVE  /\ \A b : u \in Waker(b)' <=> u \in Waker(b)
           /\ \A s : u \in Giver(s)' <=> u \in Giver(s)
           /\ (running'[u] <=> running[u]) => Same(u)
<1>1. \A k, o : In(u, k, o)' <=> In(u, k, o)
  BY OthersKept
<1>2. pc'[u] = pc[u]
  BY DEF Apart
<1> QED
  BY <1>1, <1>2 DEF Same, Waker, Giver, Waits, Woken

(* Then nothing changes in the sets of those that wait, wake or were woken. *)
LEMMA AllSame ==
    ASSUME \A u \in Tasklets : Same(u)
    PROVE  /\ \A b : Waker(b)' = Waker(b)
           /\ \A s : Giver(s)' = Giver(s)
           /\ \A k, o : Waits(k, o)' = Waits(k, o)
           /\ \A k, o : Woken(k, o)' = Woken(k, o)
<1>1. \A b : Waker(b) \subseteq Tasklets /\ Waker(b)' \subseteq Tasklets
  BY DEF Waker
<1>2. \A s : Giver(s) \subseteq Tasklets /\ Giver(s)' \subseteq Tasklets
  BY DEF Giver
<1>3. \A k, o : Waits(k, o) \subseteq Tasklets /\ Waits(k, o)' \subseteq Tasklets
  BY DEF Waits
<1>4. \A k, o : Woken(k, o) \subseteq Tasklets /\ Woken(k, o)' \subseteq Tasklets
  BY DEF Woken
<1>5. \A b : Waker(b)' = Waker(b)
  BY <1>1 DEF Same
<1>6. \A s : Giver(s)' = Giver(s)
  BY <1>2 DEF Same
<1>7. \A k, o : Waits(k, o)' = Waits(k, o)
  BY <1>3 DEF Same
<1>8. \A k, o : Woken(k, o)' = Woken(k, o)
  BY <1>4 DEF Same
<1> QED
  BY <1>5, <1>6, <1>7, <1>8

(* A step that neither stops nor resumes a tasklet. *)
LEMMA WaitsSame ==
    ASSUME NEW t \in Tasklets, Apart(t), running' = running, running[t],
           pc[t] # "stop", pc'[t] # "stop"
    PROVE  \A k, o : Waits(k, o)' = Waits(k, o) /\ t \notin Waits(k, o)
<1>1. \A k, o : t \notin Waits(k, o) /\ t \notin Waits(k, o)'
  BY DEF Waits
<1>2. \A u \in Tasklets \ {t} : \A k, o : u \in Waits(k, o)' <=> u \in Waits(k, o)
  BY OthersSeen DEF Same
<1>3. \A k, o : Waits(k, o) \subseteq Tasklets /\ Waits(k, o)' \subseteq Tasklets
  BY DEF Waits
<1> QED
  BY <1>1, <1>2, <1>3

Plain == {"call", "locked", "leave", "loaded", "stored"}

(* A step that does not put t in a list, take it off or wake another. *)
LEMMA QuietSets ==
    ASSUME DpuType, PlaceInv, NEW t \in Tasklets, Apart(t), running[t],
           \/ running' = running /\ pc[t] \in Plain /\ pc'[t] \in Plain
           \/ running' = running /\ at' = at /\ pc[t] \in Waking /\ pc'[t] \in Waking
           \/ running' = [running EXCEPT ![t] = FALSE] /\ at' = at /\ pc[t] = "stop" /\ pc'[t] = "stopped"
    PROVE  \A u \in Tasklets : Same(u)
<1>0. running \in [Tasklets -> BOOLEAN]
  BY DEF DpuType
<1>1. \A u \in Tasklets \ {t} : running'[u] <=> running[u]
  BY <1>0
<1>2. CASE running' = running /\ pc[t] \in Plain /\ pc'[t] \in Plain
  <2>1. Same(t)
    BY <1>2 DEF Same, Waker, Giver, Waits, Woken, Plain
  <2> QED
    BY <2>1, <1>1, OthersSeen
<1>3. CASE at' = at
  <2>1. \A k, o : In(t, k, o)' <=> In(t, k, o)
    BY <1>3, CallKept DEF Apart
  <2>2. CASE running' = running /\ pc[t] \in Waking /\ pc'[t] \in Waking
    <3>1. Same(t)
      BY <2>1, <2>2 DEF Same, Waker, Giver, Waits, Woken, Waking
    <3> QED
      BY <3>1, <1>1, OthersSeen
  <2>3. CASE running' = [running EXCEPT ![t] = FALSE] /\ pc[t] = "stop" /\ pc'[t] = "stopped"
    <3>1. ~running'[t]
      BY <2>3, <1>0
    <3>2. Same(t)
      BY <2>1, <2>3, <3>1 DEF Same, Waker, Giver, Waits, Woken
    <3> QED
      BY <3>2, <1>1, OthersSeen
  <2> QED
    BY <1>2, <2>2, <2>3
<1> QED
  BY <1>2, <1>3

(* The tasklet that has the bit of an object is the only one at it. *)
LEMMA OneInside ==
    ASSUME DpuType, PlaceInv, LockInv, NEW t \in Tasklets, ~Over(t), pc[t] \in Critical,
           NEW u \in Tasklets, ~Over(u), pc[u] \in Critical, LockOf(u) = LockOf(t)
    PROVE  u = t
  BY DEF LockInv

(* Inside a barrier there is no other waker. *)
LEMMA WakerAlone ==
    ASSUME DpuType, PlaceInv, LockInv, NEW t \in Tasklets, ~Over(t), pc[t] \in Critical,
           Call(t).kind = "barrier"
    PROVE  /\ Waker(Call(t).on) \subseteq {t}
           /\ t \in Waker(Call(t).on) <=> pc[t] \in Waking
           /\ \A b : b # Call(t).on => t \notin Waker(b)
<1>1. ASSUME NEW u \in Waker(Call(t).on)
      PROVE  u = t
  <2>1. u \in Tasklets /\ ~Over(u) /\ pc[u] \in Critical /\ LockOf(u) = LockOf(t)
    BY <1>1, LockCases DEF Waker, In, Critical, VmKinds
  <2> QED
    BY <2>1, OneInside
<1> QED
  BY <1>1 DEF Waker, In, Waking

(* Inside a semaphore there is no other giver. *)
LEMMA GiverAlone ==
    ASSUME DpuType, PlaceInv, LockInv, NEW t \in Tasklets, ~Over(t), pc[t] \in Critical,
           Call(t).kind \in {"take", "give"}
    PROVE  /\ Giver(Call(t).on) \subseteq {t}
           /\ t \in Giver(Call(t).on) <=> pc[t] = "wake1"
           /\ \A s : s # Call(t).on => t \notin Giver(s)
<1>1. ASSUME NEW u \in Giver(Call(t).on)
      PROVE  u = t
  <2>1. u \in Tasklets /\ ~Over(u) /\ pc[u] \in Critical /\ LockOf(u) = LockOf(t)
    BY <1>1, LockCases DEF Giver, In, Critical, VmKinds
  <2> QED
    BY <2>1, OneInside
<1> QED
  BY <1>1 DEF Giver, In, PlaceInv, PlaceOf, PlaceIn

-----------------------------------------------------------------------------
(***************************************************************************)
(* The lists of the barriers and of the semaphores.                        *)
(***************************************************************************)

ListInv == BarrierInv /\ SemInv /\ LinkInv

(* What the list of a barrier depends on. *)
LEMMA BarrierFrame ==
    ASSUME NEW b \in Barriers, \E n, q : BarrierList(b, n, q),
           Waits("barrier", b)' = Waits("barrier", b), Waker(b)' = Waker(b),
           \A u \in Waker(b) : pc'[u] = pc[u] /\ reg'[u] = reg[u],
           barrier'[b] = barrier[b],
           \A u \in Waits("barrier", b) : wq'[u] = wq[u],
           \A u \in Waker(b) : pc[u] = "link" => wq'[reg[u].first] = wq[reg[u].first]
    PROVE  (\E n, q : BarrierList(b, n, q))'
<1>1. PICK n, q : BarrierList(b, n, q)
  OBVIOUS
<1>2. /\ Ring(wq', n, q, Waits("barrier", b)')
      /\ \A last : Closed(wq, last, n, q) => Closed(wq', last, n, q)
  <2>1. PICK W : W = Waits("barrier", b)
    OBVIOUS
  <2>2. Ring(wq, n, q, W) /\ \A u \in Tasklets : u \in W => wq'[u] = wq[u]
    BY <1>1, <2>1 DEF BarrierList
  <2>3. Ring(wq', n, q, W) /\ \A last : Closed(wq, last, n, q) => Closed(wq', last, n, q)
    BY <2>2, RingFrame
  <2> QED
    BY <2>1, <2>3
<1>3. BarrierList(b, n, q)'
  BY <1>1, <1>2 DEF BarrierList
<1> QED
  BY <1>3

(* The list of a semaphore that the step does not touch. *)
LEMMA SemFrame ==
    ASSUME NEW s \in Sems, \E n, q : SemList(s, n, q),
           Waits("take", s)' = Waits("take", s), Giver(s)' = Giver(s),
           \A u \in Giver(s) : reg'[u] = reg[u],
           sem'[s] = sem[s],
           \A u \in Waits("take", s) : wq'[u] = wq[u]
    PROVE  (\E n, q : SemList(s, n, q))'
<1>1. PICK n, q : SemList(s, n, q)
  OBVIOUS
<1>2. Off(s)' = Off(s)
  BY DEF Off
<1>3. /\ Ring(wq', n, q, Waits("take", s) \ Off(s))
      /\ \A last : Closed(wq, last, n, q) => Closed(wq', last, n, q)
  <2> DEFINE S == Waits("take", s) \ Off(s)
  <2>1. Ring(wq, n, q, S) /\ \A u \in Tasklets : u \in S => wq'[u] = wq[u]
    BY <1>1 DEF SemList
  <2> HIDE DEF S
  <2>2. Ring(wq', n, q, S) /\ \A last : Closed(wq, last, n, q) => Closed(wq', last, n, q)
    BY <2>1, RingFrame
  <2> QED
    BY <2>2 DEF S
<1>4. SemList(s, n, q)'
  BY <1>1, <1>2, <1>3 DEF SemList
<1> QED
  BY <1>4

(* A step that touches no list. *)
LEMMA ListsKept ==
    ASSUME BarrierInv, SemInv, LinkInv,
           \A b \in Barriers : Waits("barrier", b)' = Waits("barrier", b) /\ Waker(b)' = Waker(b),
           \A s \in Sems : Waits("take", s)' = Waits("take", s) /\ Giver(s)' = Giver(s),
           \A u \in Tasklets : pc[u] \in Waking \union {"wake1"} => pc'[u] = pc[u] /\ reg'[u] = reg[u],
           \A u \in Tasklets : pc'[u] = "link" => pc[u] = "link",
           barrier' = barrier, sem' = sem, wq' = wq
    PROVE  ListInv'
<1>1. ASSUME NEW b \in Barriers
      PROVE  (\E n, q : BarrierList(b, n, q))'
  <2>1. \A u \in Waker(b) : pc'[u] = pc[u] /\ reg'[u] = reg[u]
    BY DEF Waker, Waking
  <2>2. \E n, q : BarrierList(b, n, q)
    BY DEF BarrierInv
  <2> QED
    BY <2>1, <2>2, BarrierFrame
<1>2. ASSUME NEW s \in Sems
      PROVE  (\E n, q : SemList(s, n, q))'
  <2>1. \A u \in Giver(s) : reg'[u] = reg[u]
    BY DEF Giver
  <2>2. \E n, q : SemList(s, n, q)
    BY DEF SemInv
  <2> QED
    BY <2>1, <2>2, SemFrame
<1>3. LinkInv'
  BY DEF LinkInv, Waking
<1> QED
  BY <1>1, <1>2, <1>3 DEF ListInv, BarrierInv, SemInv

Lists == {"barrier", "take"}

(* A step of a tasklet that has no part in a list. *)
LEMMA ListsApart ==
    ASSUME ListInv, NEW t \in Tasklets, Apart(t),
           barrier' = barrier, sem' = sem, wq' = wq,
           \A u \in Tasklets \ {t} : reg'[u] = reg[u],
           pc[t] \notin Waking \union {"wake1"}, pc'[t] \notin Waking \union {"wake1"},
           \A u \in Tasklets : \A k \in Lists : \A o : u \in Waits(k, o)' <=> u \in Waits(k, o)
    PROVE  ListInv'
<1>1. \A b : Waker(b)' = Waker(b)
  <2>1. \A b : Waker(b) \subseteq Tasklets /\ Waker(b)' \subseteq Tasklets
    BY DEF Waker
  <2>2. \A b : t \notin Waker(b) /\ t \notin Waker(b)'
    BY DEF Waker, Waking
  <2>3. \A u \in Tasklets \ {t} : \A b : u \in Waker(b)' <=> u \in Waker(b)
    BY OthersSeen
  <2> QED
    BY <2>1, <2>2, <2>3
<1>2. \A s : Giver(s)' = Giver(s)
  <2>1. \A s : Giver(s) \subseteq Tasklets /\ Giver(s)' \subseteq Tasklets
    BY DEF Giver
  <2>2. \A s : t \notin Giver(s) /\ t \notin Giver(s)'
    BY DEF Giver
  <2>3. \A u \in Tasklets \ {t} : \A s : u \in Giver(s)' <=> u \in Giver(s)
    BY OthersSeen
  <2> QED
    BY <2>1, <2>2, <2>3
<1>3. \A k \in Lists : \A o : Waits(k, o)' = Waits(k, o)
  <2>1. \A k, o : Waits(k, o) \subseteq Tasklets /\ Waits(k, o)' \subseteq Tasklets
    BY DEF Waits
  <2> QED
    BY <2>1
<1>4. \A u \in Tasklets : pc[u] \in Waking \union {"wake1"} => pc'[u] = pc[u] /\ reg'[u] = reg[u]
  BY DEF Apart
<1>5. \A u \in Tasklets : pc'[u] = "link" => pc[u] = "link"
  BY DEF Apart, Waking
<1> QED
  BY <1>1, <1>2, <1>3, <1>4, <1>5, ListsKept DEF ListInv, Lists

(* The steps that are about no list at all. *)
LEMMA ListsOther ==
    ASSUME DpuType, PlaceInv, LockInv, ListInv, NEW t \in Tasklets, Apart(t),
           \/ Acquire(t) \/ Stop(t) \/ BarrierAlone(t) \/ ShakeAlready(t) \/ Leave(t)
           \/ VmLoad(t) \/ VmStore(t) \/ VmDone(t)
    PROVE  ListInv'
<1>0. pc \in [Tasklets -> Places] /\ reg \in [Tasklets -> [first : Nobody, last : Nobody, byte : SUBSET (0..7)]]
  BY DEF DpuType
<1>1. /\ barrier' = barrier /\ sem' = sem /\ wq' = wq /\ running[t]
      /\ \A u \in Tasklets \ {t} : reg'[u] = reg[u]
      /\ \/ running' = running /\ pc[t] \in Plain /\ pc'[t] \in Plain
         \/ running' = [running EXCEPT ![t] = FALSE] /\ at' = at /\ pc[t] = "stop" /\ pc'[t] = "stopped"
  <2>1. CASE Acquire(t)
    BY <1>0, <2>1 DEF Acquire, At, Goto, Plain
  <2>2. CASE Stop(t)
    BY <1>0, <2>2 DEF Stop, At, Goto, Plain
  <2>3. CASE BarrierAlone(t) \/ ShakeAlready(t) \/ Leave(t)
    BY <1>0, <2>3 DEF BarrierAlone, ShakeAlready, Leave, At, Return, Plain
  <2>4. CASE VmLoad(t) \/ VmStore(t)
    BY <1>0, <2>4 DEF VmLoad, VmStore, At, Goto, Plain
  <2>5. CASE VmDone(t)
    BY <1>0, <2>5 DEF VmDone, At, Goto, Return, Plain
  <2> QED
    BY <2>1, <2>2, <2>3, <2>4, <2>5
<1>2. \A u \in Tasklets : Same(u)
  BY <1>1, QuietSets
<1>3. pc[t] \notin Waking \union {"wake1"} /\ pc'[t] \notin Waking \union {"wake1"}
  BY <1>1 DEF Plain, Waking
<1>4. \A u \in Tasklets : \A k \in Lists : \A o : u \in Waits(k, o)' <=> u \in Waits(k, o)
  BY <1>2 DEF Same
<1> QED
  BY <1>1, <1>3, <1>4, ListsApart

(* A tasklet that was resumed is in no list any more. *)
LEMMA ListsResumed ==
    ASSUME DpuType, PlaceInv, ListInv, NEW t \in Tasklets, Apart(t), Resumed(t)
    PROVE  ListInv'
<1>1. /\ barrier' = barrier /\ sem' = sem /\ wq' = wq /\ reg' = reg /\ running' = running
      /\ running[t] /\ pc[t] = "stopped" /\ pc'[t] = "call"
  BY DEF Resumed, At, Return, DpuType
<1>2. \A k, o : t \notin Waits(k, o) /\ t \notin Waits(k, o)'
  BY <1>1 DEF Waits
<1>3. \A u \in Tasklets \ {t} : \A k, o : u \in Waits(k, o)' <=> u \in Waits(k, o)
  BY <1>1, OthersSeen DEF Same
<1>4. pc[t] \notin Waking \union {"wake1"} /\ pc'[t] \notin Waking \union {"wake1"}
  BY <1>1 DEF Waking
<1> QED
  BY <1>1, <1>2, <1>3, <1>4, ListsApart

(* The first of a handshake waits in no list. *)
LEMMA ListsShakeFirst ==
    ASSUME DpuType, PlaceInv, ListInv, NEW t \in Tasklets, Apart(t), ShakeFirst(t)
    PROVE  ListInv'
<1>1. /\ barrier' = barrier /\ sem' = sem /\ wq' = wq /\ reg' = reg /\ running' = running
      /\ at' = at /\ running[t] /\ pc[t] = "locked" /\ pc'[t] = "stop" /\ InHandshake(t)
  BY DEF ShakeFirst, At, Goto, DpuType
<1>2. Call(t)' = Call(t)
  BY <1>1, CallKept DEF Apart
<1>3. \A k \in Lists : \A o : t \notin Waits(k, o) /\ t \notin Waits(k, o)'
  BY <1>1, <1>2 DEF Waits, In, InHandshake, Lists
<1>4. \A u \in Tasklets \ {t} : \A k, o : u \in Waits(k, o)' <=> u \in Waits(k, o)
  BY <1>1, OthersSeen DEF Same
<1>5. pc[t] \notin Waking \union {"wake1"} /\ pc'[t] \notin Waking \union {"wake1"}
  BY <1>1 DEF Waking
<1> QED
  BY <1>1, <1>3, <1>4, <1>5, ListsApart

(* The partner of a handshake waits for it, and for nothing else. *)
LEMMA PartnerWaits ==
    ASSUME DpuType, PlaceInv, ShakeInv, NEW t \in Tasklets, ~Over(t), InHandshake(t), Partner(t),
           pc[t] = "locked", running[t]
    PROVE  /\ shake[Notifier(t)] \in Tasklets \ {t} /\ Notifier(t) \in Tasklets
           /\ IF Call(t).kind = "notify" THEN shake[t] \in Waits("wait_for", t)
              ELSE shake[Call(t).on] = Call(t).on /\ Call(t).on \in Waits("notify", Call(t).on)
<1>1. CASE Call(t).kind = "notify"
  <2>1. shake[t] \in Tasklets /\ t \notin Waits("notify", t)
    BY <1>1 DEF Partner, Notifier, DpuType, Nobody, Waits
  <2> QED
    BY <1>1, <2>1 DEF ShakeInv, Notifier
<1>2. CASE Call(t).kind = "wait_for"
  <2>1. Call(t).on \in Tasklets \ {t} /\ shake[Call(t).on] = Call(t).on
    BY <1>2, CallCases DEF Partner, Notifier
  <2> QED
    BY <1>2, <2>1 DEF ShakeInv, Notifier
<1> QED
  BY <1>1, <1>2 DEF InHandshake

(* The second of a handshake resumes one that is in no list. *)
LEMMA ListsShakeSecond ==
    ASSUME DpuType, PlaceInv, ShakeInv, ListInv, NEW t \in Tasklets, Apart(t), ShakeSecond(t)
    PROVE  ListInv'
<1>0. PICK v : v = shake[Notifier(t)]
  OBVIOUS
<1>1. /\ barrier' = barrier /\ sem' = sem /\ wq' = wq /\ reg' = reg
      /\ running' = [running EXCEPT ![v] = TRUE] /\ running \in [Tasklets -> BOOLEAN]
      /\ running[t] /\ pc[t] = "locked" /\ pc'[t] = "leave" /\ InHandshake(t) /\ ~Over(t) /\ Partner(t)
  BY <1>0 DEF ShakeSecond, At, Goto, Resume, DpuType
<1>2. /\ v \in Tasklets \ {t}
      /\ \E k \in {"notify", "wait_for"} : \E o : v \in Waits(k, o)
  BY <1>0, <1>1, PartnerWaits DEF Notifier
<1>3. \A k \in Lists : \A o : ~In(v, k, o) /\ ~In(v, k, o)'
  BY <1>2, OthersKept DEF Waits, In, Lists
<1>4. \A u \in Tasklets \ {t} : \A k \in Lists : \A o : u \in Waits(k, o)' <=> u \in Waits(k, o)
  <2> SUFFICES ASSUME NEW u \in Tasklets \ {t}, NEW k \in Lists, NEW o
               PROVE  u \in Waits(k, o)' <=> u \in Waits(k, o)
    OBVIOUS
  <2>1. CASE u = v
    BY <2>1, <1>3 DEF Waits
  <2>2. CASE u # v
    <3>1. running'[u] <=> running[u]
      BY <2>2, <1>1
    <3> QED
      BY <3>1, OthersSeen DEF Same
  <2> QED
    BY <2>1, <2>2
<1>5. running'[t]
  BY <1>1
<1>6. \A k, o : t \notin Waits(k, o) /\ t \notin Waits(k, o)'
  BY <1>1, <1>5 DEF Waits
<1>7. pc[t] \notin Waking \union {"wake1"} /\ pc'[t] \notin Waking \union {"wake1"}
  BY <1>1 DEF Waking
<1> QED
  BY <1>1, <1>4, <1>6, <1>7, ListsApart

(* The lists of the objects that the step of t is not about. *)
Elsewhere(t, kind, on) ==
    /\ \A u \in Tasklets : \A k \in Lists : \A o : ~(k = kind /\ o = on) =>
          (u \in Waits(k, o)' <=> u \in Waits(k, o)) /\ (u \in Waits(k, o) => wq'[u] = wq[u])
    /\ \A b \in Barriers : ~("barrier" = kind /\ b = on) =>
          t \notin Waker(b) /\ t \notin Waker(b)' /\ barrier'[b] = barrier[b]
    /\ \A s \in Sems : ~("take" = kind /\ s = on) =>
          t \notin Giver(s) /\ t \notin Giver(s)' /\ sem'[s] = sem[s]
    /\ \A u \in Tasklets \ {t} :
          reg'[u] = reg[u] /\ (pc[u] = "link" => wq'[reg[u].first] = wq[reg[u].first])

(* They stay. *)
LEMMA ListsElsewhere ==
    ASSUME ListInv, NEW t \in Tasklets, Apart(t), NEW kind, NEW on, Elsewhere(t, kind, on)
    PROVE  /\ \A b \in Barriers : ~("barrier" = kind /\ b = on) => (\E n, q : BarrierList(b, n, q))'
           /\ \A s \in Sems : ~("take" = kind /\ s = on) => (\E n, q : SemList(s, n, q))'
<1>1. ASSUME NEW b \in Barriers, ~("barrier" = kind /\ b = on)
      PROVE  (\E n, q : BarrierList(b, n, q))'
  <2>1. Waits("barrier", b)' = Waits("barrier", b)
    <3>1. Waits("barrier", b) \subseteq Tasklets /\ Waits("barrier", b)' \subseteq Tasklets
      BY DEF Waits
    <3>2. \A u \in Tasklets : u \in Waits("barrier", b)' <=> u \in Waits("barrier", b)
      BY <1>1 DEF Elsewhere, Lists
    <3> QED
      BY <3>1, <3>2
  <2>2. Waker(b)' = Waker(b)
    <3>1. Waker(b) \subseteq Tasklets /\ Waker(b)' \subseteq Tasklets
      BY DEF Waker
    <3>2. \A u \in Tasklets \ {t} : u \in Waker(b)' <=> u \in Waker(b)
      BY OthersSeen
    <3>3. t \notin Waker(b) /\ t \notin Waker(b)'
      BY <1>1 DEF Elsewhere
    <3> QED
      BY <3>1, <3>2, <3>3
  <2>3. \A u \in Waker(b) : u \in Tasklets \ {t}
    BY <1>1 DEF Elsewhere, Waker
  <2>4. \A u \in Waits("barrier", b) : wq'[u] = wq[u]
    BY <1>1 DEF Elsewhere, Lists, Waits
  <2>5. \E n, q : BarrierList(b, n, q)
    BY DEF ListInv, BarrierInv
  <2> QED
    BY <1>1, <2>1, <2>2, <2>3, <2>4, <2>5, BarrierFrame DEF Elsewhere, Apart
<1>2. ASSUME NEW s \in Sems, ~("take" = kind /\ s = on)
      PROVE  (\E n, q : SemList(s, n, q))'
  <2>1. Waits("take", s)' = Waits("take", s)
    <3>1. Waits("take", s) \subseteq Tasklets /\ Waits("take", s)' \subseteq Tasklets
      BY DEF Waits
    <3>2. \A u \in Tasklets : u \in Waits("take", s)' <=> u \in Waits("take", s)
      BY <1>2 DEF Elsewhere, Lists
    <3> QED
      BY <3>1, <3>2
  <2>2. Giver(s)' = Giver(s)
    <3>1. Giver(s) \subseteq Tasklets /\ Giver(s)' \subseteq Tasklets
      BY DEF Giver
    <3>2. \A u \in Tasklets \ {t} : u \in Giver(s)' <=> u \in Giver(s)
      BY OthersSeen
    <3>3. t \notin Giver(s) /\ t \notin Giver(s)'
      BY <1>2 DEF Elsewhere
    <3> QED
      BY <3>1, <3>2, <3>3
  <2>3. \A u \in Giver(s) : u \in Tasklets \ {t}
    BY <1>2 DEF Elsewhere, Giver
  <2>4. \A u \in Waits("take", s) : wq'[u] = wq[u]
    BY <1>2 DEF Elsewhere, Lists, Waits
  <2>5. \E n, q : SemList(s, n, q)
    BY DEF ListInv, SemInv
  <2> QED
    BY <1>2, <2>1, <2>2, <2>3, <2>4, <2>5, SemFrame DEF Elsewhere
<1> QED
  BY <1>1, <1>2

(* A semaphore that only counts. *)
LEMMA ListsCount ==
    ASSUME DpuType, PlaceInv, LockInv, ListInv, NEW t \in Tasklets, Apart(t),
           SemTake(t) \/ SemGive(t)
    PROVE  ListInv'
<1>1. PICK s : s = Call(t).on
  OBVIOUS
<1>2. /\ barrier' = barrier /\ wq' = wq /\ reg' = reg /\ running' = running
      /\ running[t] /\ pc[t] = "locked" /\ pc'[t] = "call" /\ ~Over(t)
      /\ Call(t).kind \in {"take", "give"}
      /\ sem' = [sem EXCEPT ![s].count = sem'[s].count] /\ sem'[s].queue = sem[s].queue
  <2>1. pc \in [Tasklets -> Places] /\ sem \in [Sems -> [queue : Nobody, count : Int]]
    BY DEF DpuType
  <2>2. ~Over(t) /\ Call(t).kind \in {"take", "give"}
    BY DEF SemTake, SemGive, At
  <2>3. s \in Sems
    BY <1>1, <2>2, CallCases
  <2>4. CASE SemTake(t)
    BY <1>1, <2>1, <2>3, <2>4 DEF SemTake, At, Return
  <2>5. CASE SemGive(t)
    BY <1>1, <2>1, <2>3, <2>5 DEF SemGive, At, Return
  <2> QED
    BY <2>4, <2>5
<1>3. s \in Sems
  BY <1>1, <1>2, CallCases
<1>4. \A u \in Tasklets : Same(u)
  BY <1>2, QuietSets DEF Plain
<1>5. /\ \A b : Waker(b)' = Waker(b) /\ t \notin Waker(b)
      /\ \A z : Giver(z)' = Giver(z) /\ t \notin Giver(z)
      /\ \A k, o : Waits(k, o)' = Waits(k, o)
  BY <1>2, <1>4, AllSame DEF Waker, Giver
<1>6. Elsewhere(t, "take", s)
  BY <1>2, <1>5 DEF Elsewhere, DpuType
<1>7. (\E n, q : SemList(s, n, q))'
  <2>1. PICK n, q : SemList(s, n, q)
    BY <1>3 DEF ListInv, SemInv
  <2>2. Off(s)' = Off(s)
    BY <1>2, <1>5 DEF Off
  <2>7. SemList(s, n, q)'
    BY <1>2, <1>5, <2>1, <2>2 DEF SemList
  <2> QED
    BY <2>7
<1>8. BarrierInv' /\ SemInv'
  BY <1>6, <1>7, ListsElsewhere DEF BarrierInv, SemInv
<1>9. LinkInv'
  BY <1>2, <1>5 DEF ListInv, LinkInv, Apart
<1> QED
  BY <1>8, <1>9 DEF ListInv

(* The registers of the last of a group. *)
LEMMA ListsLast ==
    ASSUME DpuType, PlaceInv, LockInv, ListInv, NEW t \in Tasklets, Apart(t), BarrierLast(t)
    PROVE  ListInv'
<1>1. PICK b, last : b = Call(t).on /\ last = barrier[b].queue
  OBVIOUS
<1>2. /\ barrier' = barrier /\ sem' = sem /\ wq' = wq /\ running' = running /\ at' = at
      /\ running[t] /\ pc[t] = "locked" /\ pc'[t] = "wake" /\ ~Over(t)
      /\ Call(t).kind = "barrier" /\ last # Empty
      /\ reg'[t].last = last /\ reg'[t].first = wq[last]
      /\ \A u \in Tasklets \ {t} : reg'[u] = reg[u]
  BY <1>1 DEF BarrierLast, At, Goto, DpuType
<1>3. b \in Barriers
  BY <1>1, <1>2, CallCases
<1>6. \A k, o : Waits(k, o)' = Waits(k, o)
  BY <1>2, WaitsSame
<1>7. /\ Waker(b) = {} /\ Waker(b)' = {t}
      /\ \A c : c # b => t \notin Waker(c) /\ t \notin Waker(c)'
  <2>1. Waker(b) = {} /\ \A c : c # b => t \notin Waker(c)
    BY <1>1, <1>2, WakerAlone DEF Critical, Waking
  <2>2. \A u \in Tasklets \ {t} : u \notin Waker(b)'
    BY <2>1, OthersSeen
  <2>3. \A c : t \in Waker(c)' <=> c = b
    <3>1. Call(t)' = Call(t) /\ ~Over(t)'
      BY <1>2, CallKept DEF Apart
    <3> QED
      BY <1>1, <1>2, <3>1 DEF Waker, In
  <2>4. Waker(b)' \subseteq Tasklets
    BY DEF Waker
  <2> QED
    BY <2>1, <2>2, <2>3, <2>4
<1>8. \A s : t \notin Giver(s) /\ t \notin Giver(s)'
  BY <1>2 DEF Giver
<1>9. Elsewhere(t, "barrier", b)
  BY <1>2, <1>6, <1>7, <1>8 DEF Elsewhere
<1>10. (\E n, q : BarrierList(b, n, q))'
  <2>1. PICK n, q : BarrierList(b, n, q)
    BY <1>3 DEF ListInv, BarrierInv
  <2>2. n > 0 /\ last = q[n] /\ wq[last] = q[1]
    BY <1>1, <1>2, <1>7, <2>1 DEF BarrierList, Closed, Ring
  <2>3. BarrierList(b, n, q)'
    BY <1>2, <1>6, <1>7, <2>1, <2>2 DEF BarrierList
  <2> QED
    BY <2>3
<1>11. BarrierInv' /\ SemInv'
  BY <1>9, <1>10, ListsElsewhere DEF BarrierInv, SemInv
<1>12. LinkInv'
  BY <1>2, <1>6 DEF ListInv, LinkInv, Apart
<1> QED
  BY <1>11, <1>12 DEF ListInv

(* The link that is loaded after the resume is still that of the list. *)
LEMMA ListsLink ==
    ASSUME DpuType, PlaceInv, LockInv, ListInv, NEW t \in Tasklets, Apart(t), BarrierLink(t)
    PROVE  ListInv' /\ wq[reg[t].first] \in Tasklets
<1>1. PICK b : b = Call(t).on
  OBVIOUS
<1>2. /\ barrier' = barrier /\ sem' = sem /\ wq' = wq /\ running' = running /\ at' = at
      /\ running[t] /\ pc[t] = "link" /\ pc'[t] = "wake" /\ ~Over(t)
      /\ reg'[t].last = reg[t].last /\ reg'[t].first = wq[reg[t].first]
      /\ \A u \in Tasklets \ {t} : reg'[u] = reg[u]
  BY DEF BarrierLink, At, Goto, DpuType
<1>3. Call(t).kind = "barrier" /\ b \in Barriers
  BY <1>1, <1>2, CallCases DEF PlaceInv, PlaceOf, PlaceIn, Waking
<1>4. \A u \in Tasklets : Same(u)
  BY <1>2, QuietSets DEF Waking
<1>5. /\ \A c : Waker(c)' = Waker(c)
      /\ \A k, o : Waits(k, o)' = Waits(k, o)
  BY <1>4, AllSame
<1>6. /\ Waker(b) = {t}
      /\ \A c : c # b => t \notin Waker(c)
  BY <1>1, <1>2, <1>3, WakerAlone DEF Critical, Waking
<1>7. \A s : t \notin Giver(s) /\ t \notin Giver(s)'
  BY <1>2 DEF Giver
<1>8. Elsewhere(t, "barrier", b)
  BY <1>2, <1>5, <1>6, <1>7 DEF Elsewhere
<1>9. (\E n, q : BarrierList(b, n, q))' /\ wq[reg[t].first] \in Tasklets
  <2>1. PICK n, q : BarrierList(b, n, q)
    BY <1>3 DEF ListInv, BarrierInv
  <2>2. n > 0 /\ reg[t].last = q[n] /\ wq[reg[t].first] = q[1] /\ q[1] \in Tasklets
    BY <1>2, <1>6, <2>1 DEF BarrierList, Ring
  <2>3. BarrierList(b, n, q)'
    BY <1>2, <1>5, <1>6, <2>1, <2>2 DEF BarrierList
  <2> QED
    BY <2>2, <2>3
<1>10. BarrierInv' /\ SemInv'
  BY <1>8, <1>9, ListsElsewhere DEF BarrierInv, SemInv
<1>11. LinkInv'
  BY <1>2, <1>5 DEF ListInv, LinkInv, Apart
<1> QED
  BY <1>9, <1>10, <1>11 DEF ListInv

(* When everybody is woken the barrier starts afresh. *)
LEMMA ListsRearm ==
    ASSUME DpuType, PlaceInv, LockInv, ListInv, NEW t \in Tasklets, Apart(t), BarrierRearm(t)
    PROVE  ListInv' /\ Waits("barrier", Call(t).on) = {}
<1>1. PICK b : b = Call(t).on
  OBVIOUS
<1>2. /\ sem' = sem /\ wq' = wq /\ running' = running /\ reg' = reg
      /\ running[t] /\ pc[t] = "rearm" /\ pc'[t] = "call" /\ ~Over(t)
      /\ barrier' = [barrier EXCEPT ![b] = [queue |-> Empty, count |-> BarrierSize[b]]]
      /\ barrier \in [Barriers -> [queue : Nobody, count : Int]]
  BY <1>1 DEF BarrierRearm, At, Return, DpuType
<1>3. Call(t).kind = "barrier" /\ b \in Barriers
  BY <1>1, <1>2, CallCases DEF PlaceInv, PlaceOf, PlaceIn, Waking
<1>6. \A k, o : Waits(k, o)' = Waits(k, o)
  BY <1>2, WaitsSame
<1>7. /\ Waker(b) = {t} /\ Waker(b)' = {}
      /\ \A c : c # b => t \notin Waker(c) /\ t \notin Waker(c)'
  <2>1. Waker(b) = {t} /\ \A c : c # b => t \notin Waker(c)
    BY <1>1, <1>2, <1>3, WakerAlone, SMTT(60) DEF Critical, Waking
  <2>2. \A u \in Tasklets \ {t} : u \notin Waker(b)'
    BY <2>1, OthersSeen
  <2>3. \A c : t \notin Waker(c)'
    BY <1>2 DEF Waker
  <2>4. Waker(b)' \subseteq Tasklets
    BY DEF Waker
  <2> QED
    BY <2>1, <2>2, <2>3, <2>4
<1>8. \A s : t \notin Giver(s) /\ t \notin Giver(s)'
  BY <1>2 DEF Giver
<1>9. Elsewhere(t, "barrier", b)
  BY <1>2, <1>6, <1>7, <1>8 DEF Elsewhere
<1>10. (\E n, q : BarrierList(b, n, q))' /\ Waits("barrier", b) = {}
  <2>1. PICK n, q : BarrierList(b, n, q)
    BY <1>3 DEF ListInv, BarrierInv
  <2>2. n = 0
    BY <1>2, <1>7, <2>1 DEF BarrierList
  <2>3. barrier'[b].queue = Empty /\ barrier'[b].count = BarrierSize[b] /\ BarrierSize[b] \in Nat \ {0}
    BY <1>2, <1>3, DpuSyncAssumption
  <2>4. BarrierList(b, n, q)'
    BY <1>2, <1>6, <1>7, <2>1, <2>2, <2>3 DEF BarrierList, Closed
  <2>5. Waits("barrier", b) = {}
    BY <2>1, <2>2 DEF BarrierList, Ring, Waits
  <2> QED
    BY <2>4, <2>5
<1>11. BarrierInv' /\ SemInv'
  BY <1>9, <1>10, ListsElsewhere DEF BarrierInv, SemInv
<1>12. LinkInv'
  BY <1>2, <1>6 DEF ListInv, LinkInv, Apart
<1> QED
  BY <1>1, <1>10, <1>11, <1>12 DEF ListInv

(* A resume takes its target, which has stopped, from where it waits. *)
LEMMA WakeSets ==
    ASSUME DpuType, PlaceInv, NEW t \in Tasklets, Apart(t), running[t], pc[t] \in Critical,
           pc'[t] \notin {"stop", "stopped"},
           NEW v \in Tasklets, ~running[v], running' = [running EXCEPT ![v] = TRUE]
    PROVE  /\ v # t /\ pc[v] = "stopped"
           /\ \A k, o : v \in Waits(k, o) <=> In(v, k, o)
           /\ \A k, o : Waits(k, o)' = Waits(k, o) \ {v}
           /\ \A k, o : Woken(k, o)' = (IF v \in Waits(k, o) THEN Woken(k, o) \union {v} ELSE Woken(k, o))
<1>1. running \in [Tasklets -> BOOLEAN] /\ v # t /\ pc[v] = "stopped"
  BY DEF DpuType, PlaceInv, PlaceOf
<1>2. \A k, o : v \in Waits(k, o) <=> In(v, k, o)
  BY DEF Waits
<1>3. running'[v] /\ running'[t] /\ \A u \in Tasklets \ {v} : running'[u] <=> running[u]
  BY <1>1
<1>4. \A k, o : t \notin Waits(k, o) /\ t \notin Waits(k, o)' /\ t \notin Woken(k, o) /\ t \notin Woken(k, o)'
  BY <1>3 DEF Waits, Woken, Critical
<1>5. \A k, o : v \notin Waits(k, o)' /\ (v \in Woken(k, o)' <=> v \in Waits(k, o))
  <2>1. pc'[v] = "stopped" /\ \A k, o : In(v, k, o)' <=> In(v, k, o)
    BY <1>1, OthersKept DEF Apart
  <2> QED
    BY <1>2, <1>3, <2>1 DEF Waits, Woken
<1>6. \A u \in Tasklets \ {t, v} : Same(u)
  BY <1>3, OthersSeen
<1>7. \A k, o : Waits(k, o) \subseteq Tasklets /\ Waits(k, o)' \subseteq Tasklets
  BY DEF Waits
<1>8. \A k, o : Woken(k, o) \subseteq Tasklets /\ Woken(k, o)' \subseteq Tasklets
  BY DEF Woken
<1>9. \A k, o : v \notin Woken(k, o)
  BY DEF Woken
<1>10. \A k, o : Waits(k, o)' = Waits(k, o) \ {v}
  BY <1>4, <1>5, <1>6, <1>7 DEF Same
<1>11. \A k, o : Woken(k, o)' = (IF v \in Waits(k, o) THEN Woken(k, o) \union {v} ELSE Woken(k, o))
  <2> SUFFICES ASSUME NEW k, NEW o
               PROVE  Woken(k, o)' = (IF v \in Waits(k, o) THEN Woken(k, o) \union {v} ELSE Woken(k, o))
    OBVIOUS
  <2>1. \A u \in Tasklets : u \in Woken(k, o)' <=>
              u \in Woken(k, o) \union {x \in {v} : v \in Waits(k, o)}
    BY <1>1, <1>4, <1>5, <1>6, <1>9 DEF Same
  <2> QED
    BY <2>1, <1>8
<1> QED
  BY <1>1, <1>2, <1>10, <1>11

(* A tasklet waits for one object. *)
LEMMA OneList ==
    ASSUME NEW v \in Tasklets, NEW k, NEW o, v \in Waits(k, o)
    PROVE  \A j, p : ~(j = k /\ p = o) => v \notin Waits(j, p)
  BY DEF Waits, In

(* The first of the list of a barrier is woken. *)
LEMMA ListsWake ==
    ASSUME DpuType, PlaceInv, LockInv, ListInv, NEW t \in Tasklets, Apart(t),
           BarrierWake(t) \/ BarrierWakeLast(t)
    PROVE  ListInv' /\ reg[t].first \in Waits("barrier", Call(t).on)
<1>1. PICK b, v : b = Call(t).on /\ v = reg[t].first
  OBVIOUS
<1>2. /\ sem' = sem /\ wq' = wq /\ reg' = reg /\ barrier' = barrier /\ at' = at
      /\ running[t] /\ pc[t] = "wake" /\ ~Over(t)
      /\ ~running[v] /\ running' = [running EXCEPT ![v] = TRUE]
      /\ \/ pc'[t] = "link" /\ v # reg[t].last
         \/ pc'[t] = "rearm" /\ v = reg[t].last
  BY <1>1 DEF BarrierWake, BarrierWakeLast, At, Goto, Resume, DpuType
<1>3. Call(t).kind = "barrier" /\ b \in Barriers
  BY <1>1, <1>2, CallCases DEF PlaceInv, PlaceOf, PlaceIn, Waking
<1>4. /\ Waker(b) = {t} /\ Waker(b)' = {t}
      /\ \A c : c # b => t \notin Waker(c) /\ t \notin Waker(c)'
  <2>1. Waker(b) = {t} /\ \A c : c # b => t \notin Waker(c)
    BY <1>1, <1>2, <1>3, WakerAlone DEF Critical, Waking
  <2>2. \A u \in Tasklets \ {t} : u \notin Waker(b)'
    BY <2>1, OthersSeen
  <2>3. \A c : t \in Waker(c)' <=> c = b
    <3>1. Call(t)' = Call(t) /\ ~Over(t)'
      BY <1>2, CallKept DEF Apart
    <3> QED
      BY <1>1, <1>2, <1>3, <3>1 DEF Waker, In
  <2>4. Waker(b)' \subseteq Tasklets
    BY DEF Waker
  <2> QED
    BY <2>1, <2>2, <2>3, <2>4
<1>5. PICK n, q : BarrierList(b, n, q)
  BY <1>3 DEF ListInv, BarrierInv
<1>6. n \in Nat /\ n > 0 /\ v = q[1] /\ reg[t].last = q[n] /\ Ring(wq, n, q, Waits("barrier", b))
  BY <1>1, <1>2, <1>4, <1>5 DEF BarrierList, Ring
<1>7. v \in Tasklets /\ v \in Waits("barrier", b)
  BY <1>6 DEF Ring
<1>8. /\ v # t /\ pc[v] = "stopped"
      /\ \A k, o : Waits(k, o)' = Waits(k, o) \ {v}
  BY <1>2, <1>7, WakeSets DEF Critical
<1>9. \A j, p : ~(j = "barrier" /\ p = b) => v \notin Waits(j, p)
  BY <1>7, OneList
<1>10. \A s : t \notin Giver(s) /\ t \notin Giver(s)'
  BY <1>2 DEF Giver
<1>11. Elsewhere(t, "barrier", b)
  BY <1>2, <1>4, <1>8, <1>9, <1>10 DEF Elsewhere
<1>12. (\E m, p : BarrierList(b, m, p))'
  <2>1. PICK p : /\ Ring(wq, n - 1, p, Waits("barrier", b) \ {q[1]})
                 /\ n > 1 => p[1] = wq[q[1]] /\ p[n - 1] = q[n] /\ q[n] # q[1]
                 /\ n = 1 => q[1] = q[n]
    BY <1>6, RingTail, Zenon
  <2>2. Ring(wq', n - 1, p, Waits("barrier", b)')
    BY <1>2, <1>6, <1>8, <2>1
  <2>3. CASE pc'[t] = "link" /\ v # reg[t].last
    <3>1. n > 1 /\ n - 1 > 0
      BY <1>6, <2>3
    <3>2. BarrierList(b, n - 1, p)'
      BY <1>1, <1>2, <1>4, <1>6, <1>7, <2>1, <2>2, <2>3, <3>1 DEF BarrierList
    <3> QED
      BY <3>2
  <2>4. CASE pc'[t] = "rearm" /\ v = reg[t].last
    <3>1. n - 1 = 0
      BY <1>6, <2>1, <2>4
    <3>2. BarrierList(b, n - 1, p)'
      BY <1>4, <2>2, <2>4, <3>1 DEF BarrierList
    <3> QED
      BY <3>2
  <2> QED
    BY <1>2, <2>3, <2>4
<1>13. BarrierInv' /\ SemInv'
  BY <1>11, <1>12, ListsElsewhere DEF BarrierInv, SemInv
<1>14. LinkInv'
  <2>1. \A k, o : v \notin Waits(k, o)'
    BY <1>8
  <2>2. ASSUME NEW u \in Tasklets, pc'[u] = "link"
        PROVE  /\ reg[u].first \in Tasklets
               /\ \A c \in Barriers : reg[u].first \notin Waits("barrier", c)'
               /\ \A s \in Sems : reg[u].first \notin Waits("take", s)'
    <3>1. CASE u = t
      BY <3>1, <1>1, <1>7, <2>1
    <3>2. CASE u # t
      <4>1. pc[u] = "link"
        BY <2>2, <3>2 DEF Apart
      <4> QED
        BY <4>1, <1>8 DEF ListInv, LinkInv
    <3> QED
      BY <3>1, <3>2
  <2> QED
    BY <1>2, <2>2 DEF LinkInv
<1> QED
  BY <1>1, <1>7, <1>13, <1>14 DEF ListInv

(* sem_give resumes the waiter it took off, and counts. *)
LEMMA ListsGiveWake ==
    ASSUME DpuType, PlaceInv, LockInv, ListInv, NEW t \in Tasklets, Apart(t), SemGiveWake(t)
    PROVE  ListInv' /\ reg[t].first \in Waits("take", Call(t).on)
<1>1. PICK s, v : s = Call(t).on /\ v = reg[t].first
  OBVIOUS
<1>2. /\ wq' = wq /\ reg' = reg /\ barrier' = barrier
      /\ running[t] /\ pc[t] = "wake1" /\ pc'[t] = "leave" /\ ~Over(t)
      /\ ~running[v] /\ running' = [running EXCEPT ![v] = TRUE]
      /\ sem' = [sem EXCEPT ![s].count = Char(@ + 1)] /\ sem \in [Sems -> [queue : Nobody, count : Int]]
  BY <1>1 DEF SemGiveWake, At, Goto, Resume, DpuType
<1>3. Call(t).kind = "give" /\ s \in Sems
  BY <1>1, <1>2, CallCases DEF PlaceInv, PlaceOf, PlaceIn
<1>4. /\ Giver(s) = {t} /\ Giver(s)' = {}
      /\ \A z : z # s => t \notin Giver(z) /\ t \notin Giver(z)'
  <2>0. /\ Giver(Call(t).on) \subseteq {t} /\ t \in Giver(Call(t).on)
        /\ \A z : z # Call(t).on => t \notin Giver(z)
    BY <1>2, <1>3, GiverAlone DEF Critical
  <2>1. Giver(s) = {t} /\ \A z : z # s => t \notin Giver(z)
    BY <1>1, <2>0
  <2>2. \A u \in Tasklets \ {t} : u \notin Giver(s)'
    BY <2>1, OthersSeen
  <2>3. \A z : t \notin Giver(z)'
    BY <1>2 DEF Giver
  <2>4. Giver(s)' \subseteq Tasklets
    BY DEF Giver
  <2> QED
    BY <2>1, <2>2, <2>3, <2>4
<1>5. PICK n, q : SemList(s, n, q)
  BY <1>3 DEF ListInv, SemInv
<1>6. Off(s) = {v} /\ Off(s)' = {}
  BY <1>1, <1>4 DEF Off
<1>7. v \in Waits("take", s) /\ v \in Tasklets
  BY <1>5, <1>6 DEF SemList, Waits
<1>8. /\ v # t /\ pc[v] = "stopped"
      /\ \A k, o : Waits(k, o)' = Waits(k, o) \ {v}
  BY <1>2, <1>7, WakeSets DEF Critical
<1>9. \A j, p : ~(j = "take" /\ p = s) => v \notin Waits(j, p)
  BY <1>7, OneList
<1>10. \A b : t \notin Waker(b) /\ t \notin Waker(b)'
  BY <1>2 DEF Waker
<1>11. Elsewhere(t, "take", s)
  BY <1>2, <1>4, <1>8, <1>9, <1>10 DEF Elsewhere
<1>12. (\E m, p : SemList(s, m, p))'
  <2>1. (Waits("take", s) \ Off(s))' = Waits("take", s) \ Off(s)
    BY <1>6, <1>8
  <2>2. sem'[s].queue = sem[s].queue
    BY <1>2, <1>3
  <2>4. Ring(wq', n, q, (Waits("take", s) \ Off(s))') /\ Closed(wq', sem'[s].queue, n, q)
    BY <1>2, <1>5, <2>1, <2>2 DEF SemList
  <2>5. SemList(s, n, q)'
    BY <1>4, <1>6, <2>2, <2>4 DEF SemList
  <2> QED
    BY <2>5
<1>13. BarrierInv' /\ SemInv'
  BY <1>11, <1>12, ListsElsewhere DEF BarrierInv, SemInv
<1>14. LinkInv'
  BY <1>2, <1>8 DEF ListInv, LinkInv, Apart
<1> QED
  BY <1>1, <1>7, <1>13, <1>14 DEF ListInv

(* sem_give takes the first off the list. *)
LEMMA ListsUnlink ==
    ASSUME DpuType, PlaceInv, LockInv, ListInv, NEW t \in Tasklets, Apart(t), SemUnlink(t)
    PROVE  ListInv' /\ wq' \in [Tasklets -> Nobody] /\ wq[sem[Call(t).on].queue] \in Tasklets
<1>1. PICK s, last, v : s = Call(t).on /\ last = sem[s].queue /\ v = wq[last]
  OBVIOUS
<1>2. /\ barrier' = barrier /\ running' = running /\ at' = at
      /\ running[t] /\ pc[t] = "locked" /\ pc'[t] = "wake1" /\ ~Over(t)
      /\ Call(t).kind = "give" /\ last # Empty
      /\ reg'[t].first = v /\ \A u \in Tasklets \ {t} : reg'[u] = reg[u]
      /\ IF v = last THEN sem' = [sem EXCEPT ![s].queue = Empty] /\ wq' = wq
         ELSE wq' = [wq EXCEPT ![last] = wq[v]] /\ sem' = sem
      /\ sem \in [Sems -> [queue : Nobody, count : Int]] /\ wq \in [Tasklets -> Nobody]
  BY <1>1 DEF SemUnlink, At, Goto, DpuType
<1>3. s \in Sems
  BY <1>1, <1>2, CallCases
<1>4. /\ Giver(s) = {} /\ Giver(s)' = {t}
      /\ \A z : z # s => t \notin Giver(z) /\ t \notin Giver(z)'
  <2>0. /\ Giver(Call(t).on) \subseteq {t} /\ t \notin Giver(Call(t).on)
        /\ \A z : z # Call(t).on => t \notin Giver(z)
    BY <1>2, GiverAlone DEF Critical
  <2>1. Giver(s) = {} /\ \A z : z # s => t \notin Giver(z)
    BY <1>1, <2>0
  <2>2. \A u \in Tasklets \ {t} : u \notin Giver(s)'
    BY <2>1, OthersSeen
  <2>3. \A z : t \in Giver(z)' <=> z = s
    <3>1. Call(t)' = Call(t) /\ ~Over(t)'
      BY <1>2, CallKept DEF Apart
    <3> QED
      BY <1>1, <1>2, <3>1 DEF Giver, In
  <2>4. Giver(s)' \subseteq Tasklets
    BY DEF Giver
  <2> QED
    BY <2>1, <2>2, <2>3, <2>4
<1>6. \A k, o : Waits(k, o)' = Waits(k, o)
  BY <1>2, WaitsSame
<1>7. PICK n, q : SemList(s, n, q)
  BY <1>3 DEF ListInv, SemInv
<1>8. Off(s) = {} /\ Off(s)' = {v}
  BY <1>2, <1>4 DEF Off
<1>9. Ring(wq, n, q, Waits("take", s)) /\ Closed(wq, last, n, q) /\ n \in Nat
  <2>1. Waits("take", s) \ Off(s) = Waits("take", s)
    BY <1>8
  <2> QED
    BY <1>1, <1>7, <2>1 DEF SemList, Ring
<1>a. PICK x : x = [wq EXCEPT ![last] = wq[v]]
  OBVIOUS
<1>b. \A u \in Tasklets : x[u] = IF u = last THEN wq[v] ELSE wq[u]
  BY <1>2, <1>a
<1>10. /\ n > 0 /\ last \in Tasklets /\ v = q[1] /\ v \in Tasklets
       /\ v = last => n = 1
       /\ v # last =>
             /\ n > 1 /\ wq[v] \in Tasklets
             /\ \E p : Ring(x, n - 1, p, Waits("take", s) \ {v}) /\ Closed(x, last, n - 1, p)
       /\ last \in Waits("take", s) /\ v \in Waits("take", s)
  <2>1. wq \in [Tasklets -> Nobody] /\ last # Empty /\ v = wq[last]
    BY <1>1, <1>2
  <2>2. PICK S : S = Waits("take", s)
    OBVIOUS
  <2>3. Ring(wq, n, q, S) /\ Closed(wq, last, n, q)
    BY <1>9, <2>2
  <2>4. Unlinked(wq, x, n, q, S, last, v)
    BY <1>b, <2>1, <2>3, RingUnlink
  <2> QED
    BY <2>2, <2>4 DEF Unlinked
<1>11. last \in Waits("take", s) /\ v \in Waits("take", s)
  BY <1>10
<1>12. \A j, p : ~(j = "take" /\ p = s) => last \notin Waits(j, p)
  BY <1>10, <1>11, OneList
<1>13. \A u \in Tasklets : u # last => wq'[u] = wq[u]
  BY <1>2
<1>14. \A b : t \notin Waker(b) /\ t \notin Waker(b)'
  BY <1>2 DEF Waker
<1>15. \A u \in Tasklets : pc[u] = "link" => reg[u].first # last /\ reg[u].first \in Tasklets
  BY <1>3, <1>11 DEF ListInv, LinkInv
<1>16. Elsewhere(t, "take", s)
  <2>1. \A z \in Sems : z # s => sem'[z] = sem[z]
    BY <1>2
  <2> QED
    BY <1>2, <1>4, <1>6, <1>12, <1>13, <1>14, <1>15, <2>1 DEF Elsewhere
<1>17. (\E m, p : SemList(s, m, p))'
  <2>2. sem'[s].queue = IF v = last THEN Empty ELSE last
    BY <1>1, <1>2, <1>3
  <2>3. \E p : Ring(wq', n - 1, p, Waits("take", s) \ {v}) /\ Closed(wq', sem'[s].queue, n - 1, p)
    <3>1. CASE v = last
      <4>1. PICK p : /\ Ring(wq, n - 1, p, Waits("take", s) \ {q[1]})
                     /\ n > 1 => p[1] = wq[q[1]] /\ p[n - 1] = q[n] /\ q[n] # q[1]
                     /\ n = 1 => q[1] = q[n]
        BY <1>9, <1>10, RingTail, Zenon
      <4>2. n - 1 = 0 /\ sem'[s].queue = Empty
        BY <1>10, <2>2, <3>1
      <4>3. Closed(wq', sem'[s].queue, n - 1, p)
        BY <4>2 DEF Closed
      <4> QED
        BY <1>2, <1>10, <3>1, <4>1, <4>3
    <3>2. CASE v # last
      BY <1>2, <1>a, <1>10, <2>2, <3>2
    <3> QED
      BY <3>1, <3>2
  <2>4. PICK p : Ring(wq', n - 1, p, Waits("take", s) \ {v}) /\ Closed(wq', sem'[s].queue, n - 1, p)
    BY <2>3
  <2>5. (Waits("take", s) \ Off(s))' = Waits("take", s) \ {v}
    BY <1>6, <1>8
  <2>6. Ring(wq', n - 1, p, (Waits("take", s) \ Off(s))')
    BY <2>4, <2>5
  <2>7. Off(s)' \subseteq Waits("take", s)'
    BY <1>6, <1>8, <1>11
  <2>8. SemList(s, n - 1, p)'
    BY <2>2, <2>4, <2>6, <2>7 DEF SemList
  <2> QED
    BY <2>8
<1>18. BarrierInv' /\ SemInv'
  BY <1>16, <1>17, ListsElsewhere DEF BarrierInv, SemInv
<1>19. LinkInv'
  BY <1>2, <1>6 DEF ListInv, LinkInv, Apart
<1>20. wq' \in [Tasklets -> Nobody]
  BY <1>2, <1>10 DEF Nobody
<1> QED
  BY <1>1, <1>10, <1>18, <1>19, <1>20 DEF ListInv

(* t joins the ones that wait there. *)
Joins(t, kind, on) ==
    /\ \A k, o : t \notin Waits(k, o)
    /\ Waits(kind, on)' = Waits(kind, on) \union {t}
    /\ \A k, o : ~(k = kind /\ o = on) => Waits(k, o)' = Waits(k, o)
    /\ \A b : Waker(b)' = Waker(b) /\ t \notin Waker(b)
    /\ \A s : Giver(s)' = Giver(s) /\ t \notin Giver(s)
    /\ \A k, o : Woken(k, o)' = Woken(k, o)

(* A tasklet that is about to wait. *)
LEMMA EnqueueSets ==
    ASSUME DpuType, NEW t \in Tasklets, Apart(t), ~Over(t), running[t], running' = running, at' = at,
           pc[t] = "locked", pc'[t] = "stop", NEW kind, NEW on, In(t, kind, on)
    PROVE  Joins(t, kind, on)
<1>1. \A k, o : In(t, k, o)' <=> In(t, k, o)
  BY CallKept DEF Apart
<1>2. /\ \A k, o : t \notin Waits(k, o) /\ (t \in Waits(k, o)' <=> k = kind /\ o = on)
      /\ \A k, o : t \notin Woken(k, o) /\ t \notin Woken(k, o)'
      /\ \A b : t \notin Waker(b) /\ t \notin Waker(b)'
      /\ \A s : t \notin Giver(s) /\ t \notin Giver(s)'
  BY <1>1 DEF Waits, Woken, Waker, Giver, In
<1>3. \A u \in Tasklets \ {t} : Same(u)
  BY OthersSeen
<1>4. \A k, o : Waits(k, o) \subseteq Tasklets /\ Waits(k, o)' \subseteq Tasklets
  BY DEF Waits
<1>5. \A k, o : Woken(k, o) \subseteq Tasklets /\ Woken(k, o)' \subseteq Tasklets
  BY DEF Woken
<1>6. \A b : Waker(b) \subseteq Tasklets /\ Waker(b)' \subseteq Tasklets
  BY DEF Waker
<1>7. \A s : Giver(s) \subseteq Tasklets /\ Giver(s)' \subseteq Tasklets
  BY DEF Giver
<1>8. Waits(kind, on)' = Waits(kind, on) \union {t}
  BY <1>2, <1>3, <1>4 DEF Same
<1>9. \A k, o : ~(k = kind /\ o = on) => Waits(k, o)' = Waits(k, o)
  BY <1>2, <1>3, <1>4 DEF Same
<1>10. \A k, o : Woken(k, o)' = Woken(k, o)
  BY <1>2, <1>3, <1>5 DEF Same
<1>11. \A b : Waker(b)' = Waker(b)
  BY <1>2, <1>3, <1>6 DEF Same
<1>12. \A s : Giver(s)' = Giver(s)
  BY <1>2, <1>3, <1>7 DEF Same
<1> QED
  BY <1>2, <1>8, <1>9, <1>10, <1>11, <1>12 DEF Joins

(* What putting t at the end of the list of one object leaves alone. *)
LEMMA LinkedElsewhere ==
    ASSUME DpuType, ListInv, NEW t \in Tasklets, Apart(t), InTurn(t), pc'[t] # "link",
           NEW kind \in Lists, NEW on, NEW last \in Nobody, reg' = reg,
           last # Empty => last \in Waits(kind, on),
           kind = "barrier" => on \in Barriers, kind = "take" => on \in Sems,
           wq' = Linked(t, last), Joins(t, kind, on),
           \A b \in Barriers : ~("barrier" = kind /\ b = on) => barrier'[b] = barrier[b],
           \A s \in Sems : ~("take" = kind /\ s = on) => sem'[s] = sem[s]
    PROVE  Elsewhere(t, kind, on) /\ LinkInv' /\ wq' \in [Tasklets -> Nobody]
<1> USE DEF Joins
<1>1. wq \in [Tasklets -> Nobody] /\ (last # Empty => last \in Tasklets)
  BY DEF DpuType, Nobody
<1>2. wq' \in [Tasklets -> Nobody] /\ \A u \in Tasklets : u # t /\ u # last => wq'[u] = wq[u]
  BY <1>1 DEF Linked, Nobody
<1>3. \A k, o : ~(k = kind /\ o = on) => last \notin Waits(k, o)
  <2>1. CASE last = Empty
    BY <2>1, DpuSyncAssumption DEF Waits
  <2>2. CASE last # Empty
    BY <2>2, <1>1, OneList
  <2> QED
    BY <2>1, <2>2
<1>4. \A u \in Tasklets : pc[u] = "link" =>
         reg[u].first # t /\ reg[u].first # last /\ reg[u].first \in Tasklets
  BY <1>1, DpuSyncAssumption DEF ListInv, LinkInv, InTurn, Lists
<1>5. Elsewhere(t, kind, on)
  <2>1. \A u \in Tasklets : \A k \in Lists : \A o : ~(k = kind /\ o = on) =>
           (u \in Waits(k, o)' <=> u \in Waits(k, o)) /\ (u \in Waits(k, o) => wq'[u] = wq[u])
    BY <1>2, <1>3
  <2>2. \A u \in Tasklets \ {t} :
           reg'[u] = reg[u] /\ (pc[u] = "link" => wq'[reg[u].first] = wq[reg[u].first])
    BY <1>2, <1>4
  <2> QED
    BY <2>1, <2>2 DEF Elsewhere
<1>6. LinkInv'
  <2>1. ASSUME NEW u \in Tasklets, pc'[u] = "link"
        PROVE  /\ reg[u].first \in Tasklets
               /\ \A k, o : reg[u].first \in Waits(k, o)' => reg[u].first \in Waits(k, o)
               /\ pc[u] = "link"
    <3>1. pc[u] = "link"
      BY <2>1 DEF Apart
    <3>2. reg[u].first # t /\ reg[u].first \in Tasklets
      BY <1>4, <3>1
    <3> QED
      BY <3>1, <3>2
  <2> QED
    BY <2>1 DEF ListInv, LinkInv
<1> QED
  BY <1>2, <1>5, <1>6

(* barrier_wait puts the caller in the list and counts it. *)
LEMMA ListsEnqueue ==
    ASSUME DpuType, PlaceInv, LockInv, ListInv, NEW t \in Tasklets, Apart(t), BarrierEnqueue(t)
    PROVE  ListInv' /\ wq' \in [Tasklets -> Nobody]
<1>1. PICK b, last : b = Call(t).on /\ last = barrier[b].queue
  OBVIOUS
<1>2. /\ sem' = sem /\ running' = running /\ reg' = reg /\ at' = at
      /\ running[t] /\ pc[t] = "locked" /\ pc'[t] = "stop" /\ ~Over(t)
      /\ Call(t).kind = "barrier" /\ barrier[b].count # 1 /\ InTurn(t)
      /\ wq' = Linked(t, last)
      /\ barrier' = [barrier EXCEPT ![b] = [queue |-> t, count |-> @.count - 1]]
      /\ barrier \in [Barriers -> [queue : Nobody, count : Int]] /\ wq \in [Tasklets -> Nobody]
  BY <1>1 DEF BarrierEnqueue, At, Goto, DpuType
<1>3. b \in Barriers /\ In(t, "barrier", b)
  BY <1>1, <1>2, CallCases DEF In
<1>4. last \in Nobody /\ barrier'[b].queue = t /\ barrier'[b].count = barrier[b].count - 1
  BY <1>1, <1>2, <1>3
<1>a. Joins(t, "barrier", b)
  BY <1>2, <1>3, EnqueueSets
<1>5. /\ \A k, o : t \notin Waits(k, o)
      /\ Waits("barrier", b)' = Waits("barrier", b) \union {t}
      /\ \A c : Waker(c)' = Waker(c) /\ t \notin Waker(c)
      /\ \A s : Giver(s)' = Giver(s) /\ t \notin Giver(s)
  BY <1>a DEF Joins
<1>6. Waker(b) = {}
  <2>1. Waker(Call(t).on) \subseteq {t}
    BY <1>2, WakerAlone DEF Critical
  <2> QED
    BY <1>1, <1>5, <2>1
<1>7. PICK n, q : BarrierList(b, n, q)
  BY <1>3 DEF ListInv, BarrierInv
<1>8. PICK S : S = Waits("barrier", b)
  OBVIOUS
<1>9. /\ Ring(wq, n, q, S) /\ Closed(wq, last, n, q) /\ n \in Nat
      /\ barrier[b].count = BarrierSize[b] - n /\ barrier[b].count >= 1 /\ BarrierSize[b] \in Nat
  BY <1>1, <1>3, <1>6, <1>7, <1>8, DpuSyncAssumption DEF BarrierList, Ring
<1>10. last # Empty => last \in Waits("barrier", b)
  BY <1>8, <1>9 DEF Ring, Closed
<1>11. Elsewhere(t, "barrier", b) /\ LinkInv' /\ wq' \in [Tasklets -> Nobody]
  <2>1. \A c \in Barriers : c # b => barrier'[c] = barrier[c]
    BY <1>2
  <2>2. /\ reg' = reg /\ sem' = sem /\ pc'[t] # "link" /\ InTurn(t) /\ wq' = Linked(t, last)
        /\ "barrier" \in Lists
    BY <1>2 DEF Lists
  <2> QED
    BY <1>3, <1>4, <1>a, <1>10, <2>1, <2>2, LinkedElsewhere
<1>12. (\E m, p : BarrierList(b, m, p))'
  <2>1. EndsWith(wq', n, S, t)
    BY <1>2, <1>5, <1>8, <1>9, RingAppend DEF Linked
  <2>2. PICK p : Ring(wq', n + 1, p, S \union {t}) /\ Closed(wq', t, n + 1, p)
    BY <2>1 DEF EndsWith
  <2>3. barrier'[b].count = BarrierSize[b] - (n + 1) /\ barrier'[b].count >= 1
    BY <1>2, <1>4, <1>9, SMTT(60)
  <2>4. BarrierList(b, n + 1, p)'
    BY <1>4, <1>5, <1>6, <1>8, <2>2, <2>3 DEF BarrierList
  <2> QED
    BY <2>4
<1>13. BarrierInv' /\ SemInv'
  BY <1>11, <1>12, ListsElsewhere DEF BarrierInv, SemInv
<1> QED
  BY <1>11, <1>13 DEF ListInv

(* sem_take puts the caller in the list of a semaphore without units. *)
LEMMA ListsTakeWait ==
    ASSUME DpuType, PlaceInv, LockInv, ListInv, NEW t \in Tasklets, Apart(t), SemTakeWait(t)
    PROVE  ListInv' /\ wq' \in [Tasklets -> Nobody]
<1>1. PICK s, last : s = Call(t).on /\ last = sem[s].queue
  OBVIOUS
<1>2. /\ barrier' = barrier /\ running' = running /\ reg' = reg /\ at' = at
      /\ running[t] /\ pc[t] = "locked" /\ pc'[t] = "stop" /\ ~Over(t)
      /\ Call(t).kind = "take" /\ InTurn(t)
      /\ wq' = Linked(t, last)
      /\ sem' = [sem EXCEPT ![s] = [queue |-> t, count |-> Char(sem[s].count - 1)]]
      /\ sem \in [Sems -> [queue : Nobody, count : Int]] /\ wq \in [Tasklets -> Nobody]
  BY <1>1 DEF SemTakeWait, At, Goto, DpuType
<1>3. s \in Sems /\ In(t, "take", s)
  BY <1>1, <1>2, CallCases DEF In
<1>4. last \in Nobody /\ sem'[s].queue = t
  BY <1>1, <1>2, <1>3
<1>a. Joins(t, "take", s)
  BY <1>2, <1>3, EnqueueSets
<1>5. /\ \A k, o : t \notin Waits(k, o)
      /\ Waits("take", s)' = Waits("take", s) \union {t}
      /\ \A c : Waker(c)' = Waker(c) /\ t \notin Waker(c)
      /\ \A z : Giver(z)' = Giver(z) /\ t \notin Giver(z)
  BY <1>a DEF Joins
<1>6. Giver(s) = {} /\ Giver(s)' = {} /\ Off(s) = {} /\ Off(s)' = {}
  <2>1. Giver(Call(t).on) \subseteq {t}
    BY <1>2, GiverAlone DEF Critical
  <2>2. Giver(s) = {} /\ Giver(s)' = {}
    BY <1>1, <1>5, <2>1
  <2> QED
    BY <2>2 DEF Off
<1>7. PICK n, q : SemList(s, n, q)
  BY <1>3 DEF ListInv, SemInv
<1>8. PICK S : S = Waits("take", s)
  OBVIOUS
<1>9. Ring(wq, n, q, S) /\ Closed(wq, last, n, q) /\ n \in Nat
  <2>1. Waits("take", s) \ Off(s) = S
    BY <1>6, <1>8
  <2> QED
    BY <1>1, <1>7, <2>1 DEF SemList, Ring
<1>10. last # Empty => last \in Waits("take", s)
  BY <1>8, <1>9 DEF Ring, Closed
<1>11. Elsewhere(t, "take", s) /\ LinkInv' /\ wq' \in [Tasklets -> Nobody]
  <2>1. \A z \in Sems : z # s => sem'[z] = sem[z]
    BY <1>2
  <2>2. /\ reg' = reg /\ barrier' = barrier /\ pc'[t] # "link" /\ InTurn(t) /\ wq' = Linked(t, last)
        /\ "take" \in Lists
    BY <1>2 DEF Lists
  <2> QED
    BY <1>3, <1>4, <1>a, <1>10, <2>1, <2>2, LinkedElsewhere
<1>12. (\E m, p : SemList(s, m, p))'
  <2>1. EndsWith(wq', n, S, t)
    BY <1>2, <1>5, <1>8, <1>9, RingAppend DEF Linked
  <2>2. PICK p : Ring(wq', n + 1, p, S \union {t}) /\ Closed(wq', t, n + 1, p)
    BY <2>1 DEF EndsWith
  <2>4. (Waits("take", s) \ Off(s))' = S \union {t}
    BY <1>5, <1>6, <1>8
  <2>5. SemList(s, n + 1, p)'
    BY <1>4, <1>6, <2>2, <2>4 DEF SemList
  <2> QED
    BY <2>5
<1>13. BarrierInv' /\ SemInv'
  BY <1>11, <1>12, ListsElsewhere DEF BarrierInv, SemInv
<1> QED
  BY <1>11, <1>13 DEF ListInv

(* Every step keeps the lists. *)
LEMMA ListStep ==
    ASSUME DpuType, PlaceInv, LockInv, ListInv, ShakeInv, NEW t \in Tasklets, Step(t)
    PROVE  ListInv'
<1>1. Apart(t)
  BY StepApart
<1>2. CASE \/ Acquire(t) \/ Stop(t) \/ BarrierAlone(t) \/ ShakeAlready(t) \/ Leave(t)
           \/ VmLoad(t) \/ VmStore(t) \/ VmDone(t)
  BY <1>1, <1>2, ListsOther
<1>3. CASE Resumed(t)
  BY <1>1, <1>3, ListsResumed
<1>4. CASE ShakeFirst(t)
  BY <1>1, <1>4, ListsShakeFirst
<1>5. CASE ShakeSecond(t)
  BY <1>1, <1>5, ListsShakeSecond
<1>6. CASE SemTake(t) \/ SemGive(t)
  BY <1>1, <1>6, ListsCount
<1>7. CASE BarrierLast(t)
  BY <1>1, <1>7, ListsLast
<1>8. CASE BarrierLink(t)
  BY <1>1, <1>8, ListsLink
<1>9. CASE BarrierRearm(t)
  BY <1>1, <1>9, ListsRearm
<1>10. CASE BarrierWake(t) \/ BarrierWakeLast(t)
  BY <1>1, <1>10, ListsWake
<1>11. CASE SemGiveWake(t)
  BY <1>1, <1>11, ListsGiveWake
<1>12. CASE SemUnlink(t)
  BY <1>1, <1>12, ListsUnlink
<1>13. CASE BarrierEnqueue(t)
  BY <1>1, <1>13, ListsEnqueue
<1>14. CASE SemTakeWait(t)
  BY <1>1, <1>14, ListsTakeWait
<1> QED
  BY <1>2, <1>3, <1>4, <1>5, <1>6, <1>7, <1>8, <1>9, <1>10, <1>11, <1>12, <1>13, <1>14 DEF Step

-----------------------------------------------------------------------------
(***************************************************************************)
(* Handshakes and types.                                                   *)
(***************************************************************************)

Shakes == {"notify", "wait_for"}

(* A step that leaves the entries and the ones that wait there. *)
LEMMA ShakesKept ==
    ASSUME ShakeInv, shake' = shake,
           \A k \in Shakes : \A o : Waits(k, o)' = Waits(k, o)
    PROVE  ShakeInv'
  BY DEF ShakeInv, Shakes

(* Every step keeps the entries of the handshakes. *)
LEMMA ShakeStep ==
    ASSUME DpuType, PlaceInv, LockInv, ListInv, ShakeInv, NEW t \in Tasklets, Step(t)
    PROVE  ShakeInv'
<1>1. Apart(t) /\ ~Over(t) /\ running[t]
  BY StepApart, StepShape
<1>2. CASE \/ Acquire(t) \/ BarrierAlone(t) \/ ShakeAlready(t) \/ VmLoad(t) \/ VmStore(t) \/ VmDone(t)
           \/ Resumed(t) \/ SemTake(t) \/ SemGive(t) \/ BarrierLast(t) \/ BarrierLink(t)
           \/ BarrierRearm(t) \/ SemUnlink(t) \/ Leave(t)
  <2>0. pc \in [Tasklets -> Places]
    BY DEF DpuType
  <2>1. shake' = shake /\ running' = running /\ pc[t] # "stop" /\ pc'[t] # "stop"
    <3>1. CASE Acquire(t) \/ VmLoad(t) \/ VmStore(t) \/ BarrierLast(t) \/ BarrierLink(t) \/ SemUnlink(t)
      BY <2>0, <3>1 DEF Acquire, VmLoad, VmStore, BarrierLast, BarrierLink, SemUnlink, At, Goto
    <3>2. CASE \/ BarrierAlone(t) \/ ShakeAlready(t) \/ Resumed(t) \/ SemTake(t) \/ SemGive(t)
               \/ BarrierRearm(t) \/ Leave(t)
      BY <2>0, <3>2 DEF BarrierAlone, ShakeAlready, Resumed, Leave, SemTake, SemGive, BarrierRearm, At, Return
    <3>3. CASE VmDone(t)
      BY <2>0, <3>3 DEF VmDone, At, Goto, Return
    <3> QED
      BY <1>2, <3>1, <3>2, <3>3
  <2> QED
    BY <1>1, <2>1, WaitsSame, ShakesKept
<1>3. CASE Stop(t)
  <2>1. /\ shake' = shake /\ at' = at /\ pc[t] = "stop" /\ pc'[t] = "stopped"
        /\ running' = [running EXCEPT ![t] = FALSE]
    BY <1>3 DEF Stop, At, Goto, DpuType
  <2>2. \A k, o : Waits(k, o)' = Waits(k, o)
    BY <1>1, <2>1, QuietSets, AllSame
  <2> QED
    BY <2>1, <2>2, ShakesKept
<1>4. CASE BarrierEnqueue(t) \/ SemTakeWait(t)
  <2>1. /\ shake' = shake /\ running' = running /\ at' = at /\ pc[t] = "locked" /\ pc'[t] = "stop"
        /\ Call(t).kind \in Lists
    BY <1>4 DEF BarrierEnqueue, SemTakeWait, At, Goto, DpuType, Lists
  <2>2. Joins(t, Call(t).kind, Call(t).on)
    BY <1>1, <2>1, EnqueueSets DEF In
  <2> QED
    BY <2>1, <2>2, ShakesKept DEF Joins, Lists, Shakes
<1>5. CASE BarrierWake(t) \/ BarrierWakeLast(t) \/ SemGiveWake(t)
  <2>1. PICK v : v = reg[t].first
    OBVIOUS
  <2>2. \E k \in Lists : \E o : v \in Waits(k, o)
    BY <1>1, <1>5, <2>1, ListsWake, ListsGiveWake DEF Lists
  <2>3. /\ shake' = shake /\ pc[t] \in Critical /\ pc'[t] \notin {"stop", "stopped"}
        /\ ~running[v] /\ running' = [running EXCEPT ![v] = TRUE]
    BY <1>5, <2>1 DEF BarrierWake, BarrierWakeLast, SemGiveWake, At, Goto, Resume, Critical, DpuType
  <2>4. v \in Tasklets /\ \A k \in Shakes : \A o : v \notin Waits(k, o)
    BY <2>2 DEF Waits, In, Lists, Shakes
  <2>5. \A k, o : Waits(k, o)' = Waits(k, o) \ {v}
    BY <1>1, <2>3, <2>4, WakeSets
  <2> QED
    BY <2>3, <2>4, <2>5, ShakesKept
<1>6. CASE ShakeFirst(t)
  <2>1. PICK n : n = Notifier(t)
    OBVIOUS
  <2>2. /\ running' = running /\ at' = at /\ pc[t] = "locked" /\ pc'[t] = "stop"
        /\ InHandshake(t) /\ shake[n] = Empty /\ shake' = [shake EXCEPT ![n] = t]
        /\ shake \in [Tasklets -> Nobody]
    BY <1>6, <2>1 DEF ShakeFirst, At, Goto, DpuType
  <2>3. /\ n \in Tasklets /\ Call(t).on = n /\ Call(t).kind \in Shakes
        /\ Call(t).kind = "notify" <=> t = n
    BY <1>1, <2>1, <2>2, CallCases DEF Notifier, InHandshake, Shakes
  <2>4. Joins(t, Call(t).kind, n)
    BY <1>1, <2>2, <2>3, EnqueueSets DEF In
  <2>5. ASSUME NEW m \in Tasklets, m # n
        PROVE  /\ shake'[m] = m <=> m \in Waits("notify", m)'
               /\ \A u \in Tasklets \ {m} : shake'[m] = u <=> u \in Waits("wait_for", m)'
    BY <2>2, <2>4, <2>5 DEF ShakeInv, Joins
  <2>6. /\ shake'[n] = n <=> n \in Waits("notify", n)'
        /\ \A u \in Tasklets \ {n} : shake'[n] = u <=> u \in Waits("wait_for", n)'
    <3>1. n \notin Waits("notify", n) /\ \A u \in Tasklets \ {n} : u \notin Waits("wait_for", n)
      BY <2>2, <2>3, DpuSyncAssumption DEF ShakeInv
    <3>2. shake'[n] = t
      BY <2>2, <2>3
    <3>3. CASE Call(t).kind = "notify"
      BY <2>3, <2>4, <3>1, <3>2, <3>3 DEF Joins
    <3>4. CASE Call(t).kind = "wait_for"
      BY <2>3, <2>4, <3>1, <3>2, <3>4 DEF Joins
    <3> QED
      BY <2>3, <3>3, <3>4 DEF Shakes
  <2> QED
    BY <2>5, <2>6 DEF ShakeInv
<1>7. CASE ShakeSecond(t)
  <2>1. PICK n, v : n = Notifier(t) /\ v = shake[n]
    OBVIOUS
  <2>2. /\ pc[t] = "locked" /\ pc'[t] = "leave" /\ InHandshake(t) /\ Partner(t)
        /\ ~running[v] /\ running' = [running EXCEPT ![v] = TRUE]
        /\ shake' = [shake EXCEPT ![n] = Empty] /\ shake \in [Tasklets -> Nobody]
    BY <1>7, <2>1 DEF ShakeSecond, At, Goto, Resume, DpuType
  <2>3. v \in Tasklets /\ n \in Tasklets
    BY <1>1, <2>1, <2>2, PartnerWaits
  <2>4. \A k, o : Waits(k, o)' = Waits(k, o) \ {v}
    BY <1>1, <2>2, <2>3, WakeSets DEF Critical
  <2>5. \A m \in Tasklets : m # n => (m = v => m \notin Waits("notify", m)) /\ v \notin Waits("wait_for", m)
    <3>1. \E k \in Shakes : v \in Waits(k, n)
      BY <1>1, <2>1, <2>2, PartnerWaits DEF Notifier, InHandshake, Shakes
    <3> QED
      BY <3>1 DEF Waits, In
  <2>6. ASSUME NEW m \in Tasklets, m # n
        PROVE  /\ shake'[m] = m <=> m \in Waits("notify", m)'
               /\ \A u \in Tasklets \ {m} : shake'[m] = u <=> u \in Waits("wait_for", m)'
    <3>1. shake'[m] = shake[m]
      BY <2>2, <2>6
    <3>2. m \in Waits("notify", m)' <=> m \in Waits("notify", m)
      BY <2>4, <2>5, <2>6
    <3>3. Waits("wait_for", m)' = Waits("wait_for", m)
      BY <2>4, <2>5, <2>6
    <3> QED
      BY <3>1, <3>2, <3>3 DEF ShakeInv
  <2>7. /\ shake'[n] = n <=> n \in Waits("notify", n)'
        /\ \A u \in Tasklets \ {n} : shake'[n] = u <=> u \in Waits("wait_for", n)'
    <3>1. shake'[n] = Empty
      BY <2>2, <2>3
    <3>2. n # v => n \notin Waits("notify", n)
      BY <2>1, <2>3 DEF ShakeInv
    <3>3. \A u \in Tasklets \ {n} : u # v => u \notin Waits("wait_for", n)
      BY <2>1, <2>3 DEF ShakeInv
    <3> QED
      BY <2>3, <2>4, <3>1, <3>2, <3>3, DpuSyncAssumption
  <2> QED
    BY <2>6, <2>7 DEF ShakeInv
<1> QED
  BY <1>2, <1>3, <1>4, <1>5, <1>6, <1>7 DEF Step

(* The bit of an id. *)
LEMMA BitType ==
    ASSUME NEW id \in VmIds
    PROVE  Bit(id) \in 0..7 /\ Byte(id) \in Bytes
<1>1. id \in Nat
  BY DpuSyncAssumption
<1>2. id % 8 \in 0..7
  BY <1>1
<1> QED
  BY <1>2 DEF Bit, Bytes

(* The counter of a semaphore is a byte, and a number that is one is kept. *)
LEMMA CharType ==
    ASSUME NEW x \in Int
    PROVE  /\ Char(x) \in -128..127 /\ Char(x) \in Int
           /\ x \in -128..127 => Char(x) = x
<1>1. (x + 128) % 256 \in 0..255 /\ (x + 128 \in 0..255 => (x + 128) % 256 = x + 128)
  OBVIOUS
<1> QED
  BY <1>1 DEF Char

RegType == [first : Nobody, last : Nobody, byte : SUBSET (0..7)]
QueueType == [queue : Nobody, count : Int]

(* Every step keeps the types. *)
LEMMA TypeStep ==
    ASSUME DpuType, PlaceInv, LockInv, ListInv, ShakeInv, NEW t \in Tasklets, Step(t)
    PROVE  DpuType'
<1>1. Apart(t) /\ ~Over(t) /\ Keeps(t) /\ Runs(t)
  BY StepApart, StepShape
<1>2. /\ reg \in [Tasklets -> RegType] /\ running \in [Tasklets -> BOOLEAN]
      /\ lock \in [Locks -> Nobody] /\ wq \in [Tasklets -> Nobody]
      /\ shake \in [Tasklets -> Nobody] /\ vm \in [Bytes -> SUBSET (0..7)]
      /\ barrier \in [Barriers -> QueueType] /\ sem \in [Sems -> QueueType]
      /\ already \subseteq Tasklets \X Nat /\ at[t] \in Nat
  BY DEF DpuType, RegType, QueueType
<1>3. running' \in [Tasklets -> BOOLEAN]
  BY <1>1, <1>2 DEF Runs
<1>4. lock' \in [Locks -> Nobody]
  BY <1>1, <1>2 DEF Keeps, Acquire, Release, Nobody
<1>5. wq' \in [Tasklets -> Nobody]
  <2>1. CASE BarrierEnqueue(t) \/ SemTakeWait(t) \/ SemUnlink(t)
    BY <1>1, <2>1, ListsEnqueue, ListsTakeWait, ListsUnlink
  <2>2. CASE ~(BarrierEnqueue(t) \/ SemTakeWait(t) \/ SemUnlink(t))
    <3>1. wq' = wq
      BY <2>2 DEF Step, Acquire, Stop, Resumed, Leave, BarrierAlone, BarrierLast, BarrierWake, BarrierLink,
         BarrierWakeLast, BarrierRearm, SemTake, SemGive, SemGiveWake, ShakeFirst, ShakeSecond,
         ShakeAlready, VmLoad, VmStore, VmDone
    <3> QED
      BY <3>1, <1>2
  <2> QED
    BY <2>1, <2>2
<1>6. reg' \in [Tasklets -> RegType]
  <2>1. CASE BarrierLast(t)
    <3>1. Call(t).on \in Barriers
      BY <1>1, <2>1, CallCases DEF BarrierLast
    <3>2. barrier[Call(t).on].queue \in Tasklets
      BY <1>2, <2>1, <3>1 DEF BarrierLast, QueueType, Nobody
    <3>3. PICK x \in Nobody, y \in Nobody : reg' = [reg EXCEPT ![t].last = x, ![t].first = y]
      BY <1>2, <2>1, <3>2 DEF BarrierLast, Nobody
    <3> QED
      BY <1>2, <3>3 DEF RegType
  <2>2. CASE BarrierLink(t)
    <3>1. wq[reg[t].first] \in Tasklets
      BY <1>1, <2>2, ListsLink
    <3> QED
      BY <1>2, <2>2, <3>1 DEF BarrierLink, RegType, Nobody
  <2>3. CASE SemUnlink(t)
    <3>1. wq[sem[Call(t).on].queue] \in Tasklets
      BY <1>1, <2>3, ListsUnlink
    <3> QED
      BY <1>2, <2>3, <3>1 DEF SemUnlink, RegType, Nobody
  <2>4. CASE VmLoad(t)
    <3>1. Call(t).on \in VmIds
      BY <1>1, <2>4, CallCases DEF VmLoad
    <3>2. vm[Byte(Call(t).on)] \subseteq 0..7
      BY <1>2, <3>1 DEF Bytes
    <3> QED
      BY <1>2, <2>4, <3>2 DEF VmLoad, RegType
  <2>5. CASE ~(BarrierLast(t) \/ BarrierLink(t) \/ SemUnlink(t) \/ VmLoad(t))
    <3>1. reg' = reg
      BY <2>5 DEF Step, Acquire, Stop, Resumed, Leave, BarrierEnqueue, BarrierAlone, BarrierWake,
         BarrierWakeLast, BarrierRearm, SemTake, SemTakeWait, SemGive, SemGiveWake, ShakeFirst,
         ShakeSecond, ShakeAlready, VmStore, VmDone
    <3> QED
      BY <3>1, <1>2
  <2> QED
    BY <2>1, <2>2, <2>3, <2>4, <2>5
<1>7. barrier' \in [Barriers -> QueueType]
  <2>1. CASE BarrierEnqueue(t) \/ BarrierRearm(t)
    <3>1. Call(t).kind = "barrier" /\ Call(t).on \in Barriers
      BY <1>1, <2>1, CallCases DEF BarrierEnqueue, BarrierRearm, At, PlaceInv, PlaceOf, PlaceIn, Waking
    <3>2. barrier[Call(t).on].count \in Int /\ BarrierSize[Call(t).on] \in Int
      BY <1>2, <3>1, DpuSyncAssumption DEF QueueType
    <3>3. CASE BarrierEnqueue(t)
      BY <1>2, <3>1, <3>2, <3>3 DEF BarrierEnqueue, QueueType, Nobody
    <3>4. CASE BarrierRearm(t)
      BY <1>2, <3>1, <3>2, <3>4 DEF BarrierRearm, QueueType, Nobody
    <3> QED
      BY <2>1, <3>3, <3>4
  <2>2. CASE ~(BarrierEnqueue(t) \/ BarrierRearm(t))
    <3>1. barrier' = barrier
      BY <2>2 DEF Step, Acquire, Stop, Resumed, Leave, BarrierAlone, BarrierLast, BarrierWake, BarrierLink,
         BarrierWakeLast, SemTake, SemTakeWait, SemGive, SemUnlink, SemGiveWake, ShakeFirst,
         ShakeSecond, ShakeAlready, VmLoad, VmStore, VmDone
    <3> QED
      BY <3>1, <1>2
  <2> QED
    BY <2>1, <2>2
<1>8. sem' \in [Sems -> QueueType]
  <2>1. CASE SemTake(t) \/ SemTakeWait(t) \/ SemGive(t) \/ SemGiveWake(t) \/ SemUnlink(t)
    <3>1. Call(t).on \in Sems
      BY <1>1, <2>1, CallCases
         DEF SemTake, SemTakeWait, SemGive, SemGiveWake, SemUnlink, At, PlaceInv, PlaceOf, PlaceIn
    <3>2. sem[Call(t).on].count \in Int /\ sem[Call(t).on].queue \in Nobody
      BY <1>2, <3>1 DEF QueueType
    <3>3. PICK s, c, d : /\ s = Call(t).on /\ c = Char(sem[s].count - 1) /\ c \in Int
                         /\ d = Char(sem[s].count + 1) /\ d \in Int
      BY <3>2, CharType
    <3>4. \/ \E x \in Int : sem' = [sem EXCEPT ![s].count = x]
          \/ \E x \in Int : sem' = [sem EXCEPT ![s] = [queue |-> t, count |-> x]]
          \/ sem' = sem
          \/ sem' = [sem EXCEPT ![s].queue = Empty]
      <4>1. CASE SemTake(t)
        BY <3>3, <4>1 DEF SemTake
      <4>2. CASE SemGive(t) \/ SemGiveWake(t)
        <5>1. sem' = [sem EXCEPT ![s].count = d]
          BY <3>3, <4>2 DEF SemGive, SemGiveWake
        <5> QED
          BY <3>3, <5>1
      <4>3. CASE SemTakeWait(t)
        BY <3>3, <4>3 DEF SemTakeWait
      <4>4. CASE SemUnlink(t)
        BY <3>3, <4>4 DEF SemUnlink
      <4> QED
        BY <2>1, <4>1, <4>2, <4>3, <4>4
    <3>5. /\ sem \in [Sems -> QueueType] /\ s \in Sems /\ sem[s] \in QueueType
          /\ t \in Nobody /\ Empty \in Nobody
      BY <1>2, <3>1, <3>3 DEF Nobody
    <3>6. ASSUME NEW x \in Int, sem' = [sem EXCEPT ![s].count = x] PROVE sem' \in [Sems -> QueueType]
      BY <3>5, <3>6 DEF QueueType
    <3>7. ASSUME NEW x \in Int, sem' = [sem EXCEPT ![s] = [queue |-> t, count |-> x]]
          PROVE  sem' \in [Sems -> QueueType]
      BY <3>5, <3>7 DEF QueueType
    <3>8. sem' = [sem EXCEPT ![s].queue = Empty] => sem' \in [Sems -> QueueType]
      BY <3>5 DEF QueueType
    <3> QED
      BY <3>4, <3>5, <3>6, <3>7, <3>8
  <2>2. CASE ~(SemTake(t) \/ SemTakeWait(t) \/ SemGive(t) \/ SemGiveWake(t) \/ SemUnlink(t))
    <3>1. sem' = sem
      BY <2>2 DEF Step, Acquire, Stop, Resumed, Leave, BarrierEnqueue, BarrierAlone, BarrierLast,
         BarrierWake, BarrierLink, BarrierWakeLast, BarrierRearm, ShakeFirst, ShakeSecond,
         ShakeAlready, VmLoad, VmStore, VmDone
    <3> QED
      BY <3>1, <1>2
  <2> QED
    BY <2>1, <2>2
<1>9. shake' \in [Tasklets -> Nobody]
  BY <1>2 DEF Nobody, Step, Acquire, Stop, Resumed, Leave, BarrierEnqueue, BarrierAlone, BarrierLast,
     BarrierWake, BarrierLink, BarrierWakeLast, BarrierRearm, SemTake, SemTakeWait, SemGive, SemUnlink,
     SemGiveWake, ShakeFirst, ShakeSecond, ShakeAlready, VmLoad, VmStore, VmDone
<1>10. already' \subseteq Tasklets \X Nat
  <2>1. already' = already \/ already' = already \union {<<t, at[t]>>}
    BY DEF Step, Acquire, Stop, Resumed, Leave, BarrierEnqueue, BarrierAlone, BarrierLast, BarrierWake,
       BarrierLink, BarrierWakeLast, BarrierRearm, SemTake, SemTakeWait, SemGive, SemUnlink,
       SemGiveWake, ShakeFirst, ShakeSecond, ShakeAlready, VmLoad, VmStore, VmDone
  <2> QED
    BY <1>2, <2>1
<1>11. vm' \in [Bytes -> SUBSET (0..7)]
  <2>1. CASE VmStore(t)
    <3>1. Call(t).on \in VmIds
      BY <1>1, <2>1, CallCases DEF VmStore, At, PlaceInv, PlaceOf, PlaceIn
    <3>2. Bit(Call(t).on) \in 0..7
      BY <3>1, BitType
    <3>3. reg[t].byte \subseteq 0..7
      BY <1>2 DEF RegType
    <3>4. Stored(t) \subseteq 0..7
      BY <3>2, <3>3 DEF Stored
    <3> QED
      BY <1>2, <2>1, <3>4 DEF VmStore
  <2>2. CASE ~VmStore(t)
    <3>1. vm' = vm
      BY <2>2 DEF Step, Acquire, Stop, Resumed, Leave, BarrierEnqueue, BarrierAlone, BarrierLast,
         BarrierWake, BarrierLink, BarrierWakeLast, BarrierRearm, SemTake, SemTakeWait, SemGive,
         SemUnlink, SemGiveWake, ShakeFirst, ShakeSecond, ShakeAlready, VmLoad, VmDone
    <3> QED
      BY <3>1, <1>2
  <2> QED
    BY <2>1, <2>2
<1>12. program' \in Programs /\ Locks' = Locks /\ Bytes' = Bytes
  BY <1>1 DEF Apart, DpuType, Locks, Bytes
<1> QED
  BY <1>1, <1>3, <1>4, <1>5, <1>6, <1>7, <1>8, <1>9, <1>10, <1>11, <1>12
     DEF DpuType, RegType, QueueType, Apart

(* Every step keeps the errors with calls of handshake_wait_for. *)
LEMMA AlreadyStep ==
    ASSUME DpuType, PlaceInv, AlreadyInv, NEW t \in Tasklets, Step(t)
    PROVE  AlreadyInv'
<1>1. Apart(t) /\ ~Over(t) /\ Moves(t) /\ program' = program /\ at \in [Tasklets -> Nat \ {0}]
  BY StepApart, StepShape DEF DpuType
<1>2. \A u \in Tasklets : at'[u] \in Nat /\ at[u] \in Nat /\ at'[u] >= at[u]
  BY <1>1 DEF Moves
<1>3. \/ already' = already
      \/ /\ already' = already \union {<<t, at[t]>>} /\ at'[t] = at[t] + 1
         /\ Call(t).kind = "wait_for"
  <2>1. CASE ShakeAlready(t)
    BY <1>1, <2>1 DEF ShakeAlready, Return, InHandshake, Partner, Notifier
  <2>2. CASE ~ShakeAlready(t)
    BY <2>2 DEF Step, Acquire, Stop, Resumed, Leave, BarrierEnqueue, BarrierAlone, BarrierLast,
       BarrierWake, BarrierLink, BarrierWakeLast, BarrierRearm, SemTake, SemTakeWait, SemGive,
       SemUnlink, SemGiveWake, ShakeFirst, ShakeSecond, VmLoad, VmStore, VmDone
  <2> QED
    BY <2>1, <2>2
<1>4. ASSUME NEW u \in Tasklets, NEW i \in Nat, <<u, i>> \in already'
      PROVE  i \in 1..at'[u] - 1 /\ program[u][i].kind = "wait_for"
  <2>1. CASE <<u, i>> \in already
    BY <1>2, <2>1 DEF AlreadyInv
  <2>2. CASE <<u, i>> \notin already
    <3>1. u = t /\ i = at[t] /\ at'[t] = at[t] + 1 /\ Call(t).kind = "wait_for"
      BY <1>3, <1>4, <2>2
    <3> QED
      BY <1>1, <3>1 DEF Call
  <2> QED
    BY <2>1, <2>2
<1> QED
  BY <1>1, <1>4 DEF AlreadyInv

-----------------------------------------------------------------------------
(***************************************************************************)
(* Virtual mutexes.                                                        *)
(***************************************************************************)

(* More locks than unlocks of id have returned to t. *)
Has(t, id) ==
    Cardinality(ReturnedOf(t, "vlock", id)) > Cardinality(ReturnedOf(t, "vunlock", id))

Locked(t, n, id) ==
    Cardinality(Among(program[t], n, "vlock", id))
      > Cardinality(Among(program[t], n, "vunlock", id))

(* One more call of a program counts if it is of that kind and id. *)
LEMMA AmongNext ==
    ASSUME NEW calls, NEW n \in Nat, NEW kind, NEW id
    PROVE  /\ Cardinality(Among(calls, n, kind, id)) \in Nat
           /\ Cardinality(Among(calls, n + 1, kind, id))
                = Cardinality(Among(calls, n, kind, id))
                    + (IF calls[n + 1] = [kind |-> kind, on |-> id] THEN 1 ELSE 0)
<1> DEFINE A == Among(calls, n, kind, id)
<1>1. IsFiniteSet(1..n) /\ A \subseteq 1..n
  BY FS_Interval DEF Among
<1>2. IsFiniteSet(A)
  BY <1>1, FS_Subset
<1>3. Cardinality(A) \in Nat
  BY <1>2, FS_CardinalityType
<1>4. n + 1 \notin A
  BY <1>1
<1>5. CASE calls[n + 1] = [kind |-> kind, on |-> id]
  <2>1. Among(calls, n + 1, kind, id) = A \union {n + 1}
    BY <1>5 DEF Among
  <2> QED
    BY <2>1, <1>2, <1>3, <1>4, <1>5, FS_AddElement
<1>6. CASE calls[n + 1] # [kind |-> kind, on |-> id]
  <2>1. Among(calls, n + 1, kind, id) = A
    BY <1>6 DEF Among
  <2> QED
    BY <2>1, <1>3, <1>6
<1> QED
  BY <1>3, <1>5, <1>6

(* The calls on virtual mutexes that have returned are the ones the        *)
(* program has up to there: none of them fails.                            *)
LEMMA HasIs ==
    ASSUME DpuType, AlreadyInv, NEW t \in Tasklets, NEW id
    PROVE  Has(t, id) <=> Locked(t, at[t] - 1, id)
<1>1. at[t] - 1 \in Nat
  BY DEF DpuType
<1>2. \A i \in 1..at[t] - 1 : <<t, i>> \in already => program[t][i].kind = "wait_for"
  BY <1>1 DEF AlreadyInv
<1>3. ASSUME NEW kind \in VmKinds
      PROVE  ReturnedOf(t, kind, id) = Among(program[t], at[t] - 1, kind, id)
  <2>1. \A i \in 1..at[t] - 1 : program[t][i] = [kind |-> kind, on |-> id] => <<t, i>> \notin already
    BY <1>2, <1>3 DEF VmKinds
  <2> QED
    BY <2>1 DEF ReturnedOf, Among
<1> QED
  BY <1>3 DEF Has, Locked, VmKinds

(* A tasklet in vmutex_lock does not have the mutex, one in vmutex_unlock  *)
(* has it, and the call makes the difference.                              *)
LEMMA Bracket ==
    ASSUME DpuType, NEW t \in Tasklets, ~Over(t), NEW id \in VmIds
    PROVE  LET c == Call(t) IN
           /\ c = [kind |-> "vlock", on |-> id] =>
                 ~Locked(t, at[t] - 1, id) /\ Locked(t, at[t], id)
           /\ c = [kind |-> "vunlock", on |-> id] =>
                 Locked(t, at[t] - 1, id) /\ ~Locked(t, at[t], id)
           /\ c \notin [kind : VmKinds, on : {id}] =>
                 (Locked(t, at[t], id) <=> Locked(t, at[t] - 1, id))
<1> DEFINE n == at[t] - 1
           a(kind) == Cardinality(Among(program[t], n, kind, id))
           b(kind) == Cardinality(Among(program[t], n + 1, kind, id))
<1>1. /\ at[t] \in Nat \ {0} /\ n \in Nat /\ n + 1 = at[t]
      /\ n \in 0..Len(program[t]) /\ n + 1 \in 0..Len(program[t])
  <2>1. at[t] \in Nat \ {0} /\ Len(program[t]) \in Nat /\ ~(at[t] > Len(program[t]))
    BY CallType DEF DpuType, Over
  <2> QED
    BY <2>1
<1>2. Bracketed(program[t])
  BY ProgramsAssumption DEF DpuType
<1>3. a("vunlock") <= a("vlock") /\ a("vlock") <= a("vunlock") + 1
  BY <1>1, <1>2 DEF Bracketed
<1>4. b("vunlock") <= b("vlock") /\ b("vlock") <= b("vunlock") + 1
  BY <1>1, <1>2 DEF Bracketed
<1>5. \A kind : /\ a(kind) \in Nat
                /\ b(kind) = a(kind) + (IF Call(t) = [kind |-> kind, on |-> id] THEN 1 ELSE 0)
  <2>1. Call(t) = program[t][n + 1]
    BY <1>1 DEF Call
  <2> SUFFICES ASSUME NEW kind
               PROVE  /\ a(kind) \in Nat
                      /\ b(kind) = a(kind) + (IF Call(t) = [kind |-> kind, on |-> id] THEN 1 ELSE 0)
    OBVIOUS
  <2>2. PICK m, calls : m \in Nat /\ m = n /\ calls = program[t]
    BY <1>1
  <2>3. /\ Cardinality(Among(calls, m, kind, id)) \in Nat
        /\ Cardinality(Among(calls, m + 1, kind, id))
             = Cardinality(Among(calls, m, kind, id))
                 + (IF calls[m + 1] = [kind |-> kind, on |-> id] THEN 1 ELSE 0)
    BY <2>2, AmongNext
  <2> QED
    BY <2>1, <2>2, <2>3
<1>6. /\ Locked(t, at[t] - 1, id) <=> a("vlock") > a("vunlock")
      /\ Locked(t, at[t], id) <=> b("vlock") > b("vunlock")
  BY <1>1 DEF Locked
<1> HIDE DEF n, a, b
<1>7. /\ a("vlock") \in Nat /\ a("vunlock") \in Nat
      /\ b("vlock") = a("vlock") + (IF Call(t) = [kind |-> "vlock", on |-> id] THEN 1 ELSE 0)
      /\ b("vunlock") = a("vunlock") + (IF Call(t) = [kind |-> "vunlock", on |-> id] THEN 1 ELSE 0)
  BY <1>5
<1>8. CASE Call(t) = [kind |-> "vlock", on |-> id]
  <2>1. Call(t) # [kind |-> "vunlock", on |-> id] /\ Call(t) \in [kind : VmKinds, on : {id}]
    BY <1>8 DEF VmKinds
  <2> QED
    BY <1>3, <1>4, <1>6, <1>7, <1>8, <2>1
<1>9. CASE Call(t) = [kind |-> "vunlock", on |-> id]
  <2>1. Call(t) # [kind |-> "vlock", on |-> id] /\ Call(t) \in [kind : VmKinds, on : {id}]
    BY <1>9 DEF VmKinds
  <2> QED
    BY <1>3, <1>4, <1>6, <1>7, <1>9, <2>1
<1>10. CASE Call(t) # [kind |-> "vlock", on |-> id] /\ Call(t) # [kind |-> "vunlock", on |-> id]
  BY <1>6, <1>7, <1>10
<1> QED
  BY <1>8, <1>9, <1>10

(* Whether u has id changes only when a call on id returns to it. *)
LEMMA HasStep ==
    ASSUME DpuType, AlreadyInv, DpuType', AlreadyInv', NEW t \in Tasklets, ~Over(t), Apart(t),
           Moves(t), NEW id \in VmIds
    PROVE  /\ \A u \in Tasklets : u # t \/ at' = at \/ ~(Call(t).kind \in VmKinds /\ Call(t).on = id)
                 => (Has(u, id)' <=> Has(u, id))
           /\ Call(t) = [kind |-> "vlock", on |-> id] => ~Has(t, id)
           /\ Call(t) = [kind |-> "vunlock", on |-> id] => Has(t, id)
           /\ at' # at => (Has(t, id)' <=> IF Call(t) = [kind |-> "vlock", on |-> id] THEN TRUE
                                           ELSE IF Call(t) = [kind |-> "vunlock", on |-> id] THEN FALSE
                                           ELSE Has(t, id))
<1>1. \A u \in Tasklets : Has(u, id) <=> Locked(u, at[u] - 1, id)
  BY HasIs
<1>2. \A u \in Tasklets : Has(u, id)' <=> Locked(u, at[u] - 1, id)'
  <2> SUFFICES ASSUME NEW u \in Tasklets PROVE Has(u, id)' <=> Locked(u, at[u] - 1, id)'
    OBVIOUS
  <2>1. at'[u] - 1 \in Nat
    BY DEF DpuType
  <2>2. \A i \in 1..at'[u] - 1 : <<u, i>> \in already' => program'[u][i].kind = "wait_for"
    BY <2>1 DEF AlreadyInv
  <2>3. ASSUME NEW kind \in VmKinds
        PROVE  ReturnedOf(u, kind, id)' = Among(program'[u], at'[u] - 1, kind, id)
    <3>1. \A i \in 1..at'[u] - 1 : program'[u][i] = [kind |-> kind, on |-> id] => <<u, i>> \notin already'
      BY <2>2, <2>3 DEF VmKinds
    <3> QED
      BY <3>1 DEF ReturnedOf, Among
  <2> QED
    BY <2>3 DEF Has, Locked, VmKinds
<1>3. \A u \in Tasklets : Locked(u, at[u] - 1, id)' <=> Locked(u, at'[u] - 1, id)
  BY DEF Apart, Locked
<1>4. /\ at \in [Tasklets -> Nat \ {0}]
      /\ at' # at => at'[t] = at[t] + 1
      /\ \A u \in Tasklets : u # t \/ at' = at => at'[u] = at[u]
  BY DEF DpuType, Moves
<1>5. at' # at => at'[t] - 1 = at[t]
  BY <1>4
<1>6. /\ Call(t) = [kind |-> "vlock", on |-> id] =>
            ~Locked(t, at[t] - 1, id) /\ Locked(t, at[t], id)
      /\ Call(t) = [kind |-> "vunlock", on |-> id] =>
            Locked(t, at[t] - 1, id) /\ ~Locked(t, at[t], id)
      /\ Call(t) \notin [kind : VmKinds, on : {id}] =>
            (Locked(t, at[t], id) <=> Locked(t, at[t] - 1, id))
  BY Bracket
<1>7. Call(t) = [kind |-> Call(t).kind, on |-> Call(t).on]
  BY CallCases
<1>8. /\ Call(t) \in [kind : VmKinds, on : {id}] =>
            Call(t) = [kind |-> "vlock", on |-> id] \/ Call(t) = [kind |-> "vunlock", on |-> id]
      /\ Call(t) \in [kind : VmKinds, on : {id}] => Call(t).kind \in VmKinds /\ Call(t).on = id
  BY <1>7 DEF VmKinds
<1>9. ASSUME NEW u \in Tasklets,
             u # t \/ at' = at \/ ~(Call(t).kind \in VmKinds /\ Call(t).on = id)
      PROVE  Has(u, id)' <=> Has(u, id)
  BY <1>1, <1>2, <1>3, <1>4, <1>5, <1>6, <1>8, <1>9
<1>10. ASSUME at' # at
       PROVE Has(t, id)' <=> IF Call(t) = [kind |-> "vlock", on |-> id] THEN TRUE
                             ELSE IF Call(t) = [kind |-> "vunlock", on |-> id] THEN FALSE
                             ELSE Has(t, id)
  BY <1>1, <1>2, <1>3, <1>5, <1>6, <1>8, <1>10
<1> QED
  BY <1>1, <1>6, <1>9, <1>10

(* A byte has one hardware mutex: two tasklets do not update one byte at a *)
(* time.                                                                   *)
LEMMA OneUpdates ==
    ASSUME DpuType, PlaceInv, LockInv, NEW t \in Tasklets, pc[t] \in {"loaded", "stored"},
           NEW u \in Tasklets, pc[u] \in {"loaded", "stored"},
           Byte(Call(u).on) = Byte(Call(t).on)
    PROVE  u = t
<1>1. /\ ~Over(t) /\ ~Over(u) /\ pc[t] \in Critical /\ pc[u] \in Critical
      /\ Call(t).kind \in VmKinds /\ Call(u).kind \in VmKinds
  BY DEF PlaceInv, PlaceOf, PlaceIn, Critical, VmKinds
<1>2. LockOf(t) = <<"vm", HwMutex(Call(t).on)>> /\ LockOf(u) = <<"vm", HwMutex(Call(u).on)>>
  BY <1>1, LockCases DEF VmKinds
<1>3. LockOf(u) = LockOf(t)
  BY <1>2 DEF HwMutex
<1> QED
  BY <1>1, <1>3, OneInside

(* The byte and the bit tell the id. *)
LEMMA IdParts ==
    ASSUME NEW i \in VmIds, NEW j \in VmIds, Byte(i) = Byte(j), Bit(i) = Bit(j)
    PROVE  i = j
<1>1. i \in Nat /\ j \in Nat /\ i \div 8 = j \div 8 /\ i % 8 = j % 8
  BY DpuSyncAssumption DEF Byte, Bit
<1> QED
  BY <1>1, Z3

(* What a tasklet at a load or a store of a byte is in. *)
LEMMA Updates ==
    ASSUME DpuType, PlaceInv, NEW t \in Tasklets, pc[t] \in {"loaded", "stored"}
    PROVE  /\ ~Over(t) /\ Call(t).on \in VmIds
           /\ Call(t) = [kind |-> "vlock", on |-> Call(t).on]
                \/ Call(t) = [kind |-> "vunlock", on |-> Call(t).on]
<1>1. ~Over(t) /\ Call(t).kind \in VmKinds
  BY DEF PlaceInv, PlaceOf, PlaceIn, VmKinds
<1> QED
  BY <1>1, CallCases DEF VmKinds

(* Who has an id, in terms of the calls. *)
LEMMA HoldersAre ==
    ASSUME NEW id
    PROVE  /\ \A u : u \in VmHolders(id) <=>
                 u \in Tasklets /\ Has(u, id) /\ ~(In(u, "vunlock", id) /\ pc[u] = "stored")
           /\ \A u : u \in VmHolders(id)' <=>
                 u \in Tasklets /\ Has(u, id)' /\ ~(In(u, "vunlock", id)' /\ pc'[u] = "stored")
  BY DEF VmHolders, Has

(* An id that nobody touches. *)
LEMMA VmKept ==
    ASSUME NEW id, VmOf(id), VmHolders(id)' = VmHolders(id),
           Bit(id) \in vm'[Byte(id)] <=> Bit(id) \in vm[Byte(id)],
           \A u \in Tasklets :
              /\ pc'[u] = "stored" /\ Call(u)'.on = id <=> pc[u] = "stored" /\ Call(u).on = id
              /\ pc[u] = "stored" /\ Call(u).on = id => Call(u)' = Call(u) /\ reg'[u] = reg[u]
    PROVE  VmOf(id)'
<1>1. Bit(id)' = Bit(id) /\ Byte(id)' = Byte(id)
  BY DEF Bit, Byte
<1> QED
  BY <1>1 DEF VmOf

(* A step that does not load, store or finish keeps the virtual mutexes. *)
LEMMA VmOther ==
    ASSUME DpuType, AlreadyInv, DpuType', AlreadyInv', PlaceInv, VmInv, NEW t \in Tasklets, ~Over(t),
           Apart(t), Moves(t), vm' = vm, at' = at \/ Call(t).kind \notin VmKinds,
           \A u \in Tasklets \ {t} : reg'[u] = reg[u],
           pc[t] \notin {"loaded", "stored"}, pc'[t] \notin {"loaded", "stored"}
    PROVE  VmInv'
<1>1. \A u \in Tasklets \ {t} : Call(u)' = Call(u) /\ pc'[u] = pc[u] /\ reg'[u] = reg[u]
                                /\ \A k, o : In(u, k, o)' = In(u, k, o)
  BY OthersKept DEF Apart
<1>2. \A u \in Tasklets : pc'[u] = "loaded" => reg'[u].byte = vm'[Byte(Call(u)'.on)]
  BY <1>1 DEF VmInv
<1>3. ASSUME NEW id \in VmIds PROVE VmOf(id)'
  <2>1. \A u \in Tasklets : Has(u, id)' <=> Has(u, id)
    BY HasStep
  <2>2. VmHolders(id)' = VmHolders(id)
    BY <1>1, <2>1, HoldersAre
  <2>3. \A u \in Tasklets :
           /\ pc'[u] = "stored" /\ Call(u)'.on = id <=> pc[u] = "stored" /\ Call(u).on = id
           /\ pc[u] = "stored" /\ Call(u).on = id => Call(u)' = Call(u) /\ reg'[u] = reg[u]
    BY <1>1
  <2> QED
    BY <2>2, <2>3, VmKept DEF VmInv
<1> QED
  BY <1>2, <1>3 DEF VmInv, Byte

(* The byte is loaded. *)
LEMMA VmLoads ==
    ASSUME DpuType, AlreadyInv, DpuType', AlreadyInv', PlaceInv, VmInv, NEW t \in Tasklets, ~Over(t),
           Apart(t), Moves(t), VmLoad(t)
    PROVE  VmInv'
<1>1. \A u \in Tasklets \ {t} : Call(u)' = Call(u) /\ pc'[u] = pc[u]
                                /\ \A k, o : In(u, k, o)' = In(u, k, o)
  BY OthersKept DEF Apart
<1>2. /\ vm' = vm /\ at' = at /\ pc[t] = "locked" /\ pc'[t] = "loaded" /\ Call(t)' = Call(t)
      /\ reg'[t].byte = vm[Byte(Call(t).on)] /\ \A u \in Tasklets \ {t} : reg'[u] = reg[u]
  BY CallKept DEF VmLoad, At, Goto, DpuType, Apart
<1>3. \A u \in Tasklets : pc'[u] = "loaded" => reg'[u].byte = vm'[Byte(Call(u)'.on)]
  BY <1>1, <1>2 DEF VmInv
<1>4. ASSUME NEW id \in VmIds PROVE VmOf(id)'
  <2>1. \A u \in Tasklets : Has(u, id)' <=> Has(u, id)
    BY <1>2, HasStep
  <2>2. VmHolders(id)' = VmHolders(id)
    BY <1>1, <1>2, <2>1, HoldersAre
  <2>3. \A u \in Tasklets :
           /\ pc'[u] = "stored" /\ Call(u)'.on = id <=> pc[u] = "stored" /\ Call(u).on = id
           /\ pc[u] = "stored" /\ Call(u).on = id => Call(u)' = Call(u) /\ reg'[u] = reg[u]
    BY <1>1, <1>2
  <2> QED
    BY <1>2, <2>2, <2>3, VmKept DEF VmInv
<1> QED
  BY <1>3, <1>4 DEF VmInv, Byte

(* The byte is stored: the bit of the caller's id changes, the bits of the *)
(* other ids of that byte are the ones that were loaded.                   *)
LEMMA VmStores ==
    ASSUME DpuType, AlreadyInv, DpuType', AlreadyInv', PlaceInv, LockInv, VmInv,
           NEW t \in Tasklets, ~Over(t), Apart(t), Moves(t), VmStore(t)
    PROVE  VmInv'
<1>0. PICK mine : mine = Call(t).on
  OBVIOUS
<1>1. \A u \in Tasklets \ {t} : Call(u)' = Call(u) /\ pc'[u] = pc[u]
                                /\ \A k, o : In(u, k, o)' = In(u, k, o)
  BY OthersKept DEF Apart
<1>2. /\ at' = at /\ reg' = reg /\ pc[t] = "loaded" /\ pc'[t] = "stored" /\ Call(t)' = Call(t)
      /\ \A k, o : In(t, k, o)' = In(t, k, o)
      /\ vm' = [vm EXCEPT ![Byte(mine)] = Stored(t)]
  BY <1>0, CallKept DEF VmStore, At, Goto, DpuType, Apart
<1>3. /\ mine \in VmIds
      /\ Call(t) = [kind |-> "vlock", on |-> mine] \/ Call(t) = [kind |-> "vunlock", on |-> mine]
  BY <1>0, <1>2, Updates
<1>4. reg[t].byte = vm[Byte(mine)] /\ Byte(mine) \in Bytes /\ vm \in [Bytes -> SUBSET (0..7)]
  BY <1>0, <1>2, <1>3, BitType DEF VmInv, DpuType
<1>5. \A u \in Tasklets : pc[u] \in {"loaded", "stored"} /\ Byte(Call(u).on) = Byte(mine) => u = t
  BY <1>0, <1>2, OneUpdates
<1>6. \A u \in Tasklets : pc'[u] = "loaded" => reg'[u].byte = vm'[Byte(Call(u)'.on)]
  <2> SUFFICES ASSUME NEW u \in Tasklets, pc'[u] = "loaded"
               PROVE  reg'[u].byte = vm'[Byte(Call(u)'.on)]
    OBVIOUS
  <2>1. u # t /\ pc[u] = "loaded" /\ Call(u)' = Call(u)
    BY <1>0, <1>1, <1>2
  <2>2. Byte(Call(u).on) # Byte(mine)
    BY <1>0, <1>5, <2>1
  <2>3. Byte(Call(u).on) \in Bytes
    BY <1>0, <2>1, Updates, BitType
  <2>4. reg[u].byte = vm[Byte(Call(u).on)]
    BY <1>0, <2>1 DEF VmInv
  <2> QED
    BY <1>0, <1>2, <1>4, <2>1, <2>2, <2>3, <2>4
<1>7. ASSUME NEW id \in VmIds, id # mine PROVE VmOf(id)'
  <2>1. \A u \in Tasklets : Has(u, id)' <=> Has(u, id)
    BY <1>0, <1>2, HasStep
  <2>2. ~In(t, "vunlock", id)
    BY <1>0, <1>7 DEF In
  <2>3. VmHolders(id)' = VmHolders(id)
    BY <1>0, <1>1, <1>2, <2>1, <2>2, HoldersAre
  <2>4. \A u \in Tasklets :
           /\ pc'[u] = "stored" /\ Call(u)'.on = id <=> pc[u] = "stored" /\ Call(u).on = id
           /\ pc[u] = "stored" /\ Call(u).on = id => Call(u)' = Call(u) /\ reg'[u] = reg[u]
    BY <1>0, <1>1, <1>2, <1>7
  <2>5. Bit(id) \in vm'[Byte(id)] <=> Bit(id) \in vm[Byte(id)]
    <3>1. CASE Byte(id) = Byte(mine)
      <4>1. Bit(id) # Bit(mine)
        BY <1>0, <1>3, <1>7, <3>1, IdParts
      <4>2. vm'[Byte(id)] = Stored(t)
        BY <1>0, <1>2, <1>4, <3>1
      <4>3. Bit(id) \in Stored(t) <=> Bit(id) \in reg[t].byte
        BY <1>0, <4>1 DEF Stored
      <4> QED
        BY <1>0, <1>4, <3>1, <4>2, <4>3
    <3>2. CASE Byte(id) # Byte(mine)
      <4>1. vm'[Byte(id)] = vm[Byte(id)]
        BY <1>0, <1>2, <1>4, <3>2, BitType
      <4> QED
        BY <1>0, <4>1
    <3> QED
      BY <1>0, <3>1, <3>2
  <2> QED
    BY <1>0, <2>3, <2>4, <2>5, VmKept DEF VmInv
<1>8. VmOf(mine)'
  <2>1. \A u \in Tasklets : Has(u, mine)' <=> Has(u, mine)
    BY <1>0, <1>2, <1>3, HasStep
  <2>2. \A u \in Tasklets : ~(pc[u] = "stored" /\ Call(u).on = mine)
    BY <1>0, <1>2, <1>5
  <2>3. \A u \in Tasklets : pc'[u] = "stored" /\ Call(u)'.on = mine => u = t
    BY <1>0, <1>1, <2>2
  <2>4. Bit(mine) \in vm[Byte(mine)] <=> VmHolders(mine) # {}
    BY <1>0, <1>3, <2>2 DEF VmInv, VmOf
  <2>5. \A u, v \in VmHolders(mine) : u = v
    BY <1>0, <1>3 DEF VmInv, VmOf
  <2>6. vm'[Byte(mine)] = Stored(t)
    BY <1>0, <1>2, <1>4
  <2>7. CASE Call(t) = [kind |-> "vlock", on |-> mine]
    <3>1. ~In(t, "vunlock", mine) /\ Call(t).kind = "vlock"
      BY <1>0, <2>7 DEF In
    <3>2. VmHolders(mine)' = VmHolders(mine)
      BY <1>0, <1>1, <1>2, <2>1, <3>1, HoldersAre, SMTT(60)
    <3>3. Bit(mine) \in vm'[Byte(mine)]
      BY <1>0, <2>6, <3>1 DEF Stored
    <3>4. Bit(mine) \in reg[t].byte <=> VmHolders(mine) # {}
      BY <1>0, <1>4, <2>4
    <3> QED
      BY <1>0, <1>2, <2>3, <2>5, <3>1, <3>2, <3>3, <3>4 DEF VmOf, Bit, Byte
  <2>8. CASE Call(t) = [kind |-> "vunlock", on |-> mine]
    <3>1. In(t, "vunlock", mine) /\ Call(t).kind = "vunlock"
      BY <1>0, <2>8 DEF In
    <3>2. Has(t, mine)
      BY <1>0, <1>3, <2>8, HasStep
    <3>3. t \in VmHolders(mine)
      BY <1>0, <1>2, <3>2, HoldersAre
    <3>4. VmHolders(mine)' = {}
      BY <1>0, <1>1, <1>2, <2>1, <2>5, <3>1, <3>3, HoldersAre
    <3>5. Bit(mine) \notin vm'[Byte(mine)]
      BY <1>0, <2>6, <3>1 DEF Stored
    <3> QED
      BY <1>0, <1>2, <2>3, <3>1, <3>4, <3>5 DEF VmOf, Bit, Byte
  <2> QED
    BY <1>0, <1>3, <2>7, <2>8
<1> QED
  BY <1>0, <1>6, <1>7, <1>8 DEF VmInv, Byte

(* The call returns, or tries again when the bit was set already. *)
LEMMA VmDones ==
    ASSUME DpuType, AlreadyInv, DpuType', AlreadyInv', PlaceInv, LockInv, VmInv,
           NEW t \in Tasklets, ~Over(t), Apart(t), Moves(t), VmDone(t)
    PROVE  VmInv'
<1>0. PICK mine : mine = Call(t).on
  OBVIOUS
<1>1. \A u \in Tasklets \ {t} : Call(u)' = Call(u) /\ pc'[u] = pc[u]
                                /\ \A k, o : In(u, k, o)' = In(u, k, o)
  BY OthersKept DEF Apart
<1>2. /\ reg' = reg /\ pc[t] = "stored" /\ pc'[t] = "call" /\ vm' = vm
      /\ VmGot(t) => at' # at
      /\ ~VmGot(t) => at' = at
  <2>1. at \in [Tasklets -> Nat \ {0}] /\ pc \in [Tasklets -> Places]
    BY DEF DpuType
  <2>2. at' = [at EXCEPT ![t] = @ + 1] => at' # at
    BY <2>1
  <2> QED
    BY <2>1, <2>2 DEF VmDone, At, Goto, Return
<1>3. /\ mine \in VmIds
      /\ Call(t) = [kind |-> "vlock", on |-> mine] \/ Call(t) = [kind |-> "vunlock", on |-> mine]
  BY <1>0, <1>2, Updates
<1>4. \A u \in Tasklets : pc[u] \in {"loaded", "stored"} /\ Byte(Call(u).on) = Byte(mine) => u = t
  BY <1>0, <1>2, OneUpdates
<1>5. \A u \in Tasklets : pc'[u] = "loaded" => reg'[u].byte = vm'[Byte(Call(u)'.on)]
  BY <1>1, <1>2 DEF VmInv
<1>6. ASSUME NEW id \in VmIds, id # mine PROVE VmOf(id)'
  <2>1. \A u \in Tasklets : Has(u, id)' <=> Has(u, id)
    BY <1>0, <1>6, HasStep
  <2>2. ~In(t, "vunlock", id)
    BY <1>0, <1>6 DEF In
  <2>3. VmHolders(id)' = VmHolders(id)
    BY <1>0, <1>1, <1>2, <2>1, <2>2, HoldersAre
  <2>4. \A u \in Tasklets :
           /\ pc'[u] = "stored" /\ Call(u)'.on = id <=> pc[u] = "stored" /\ Call(u).on = id
           /\ pc[u] = "stored" /\ Call(u).on = id => Call(u)' = Call(u) /\ reg'[u] = reg[u]
    BY <1>0, <1>1, <1>2, <1>6
  <2> QED
    BY <1>0, <1>2, <2>3, <2>4, VmKept DEF VmInv
<1>7. VmOf(mine)'
  <2>1. /\ \A u \in Tasklets \ {t} : Has(u, mine)' <=> Has(u, mine)
        /\ at' = at => (Has(t, mine)' <=> Has(t, mine))
    BY <1>0, <1>3, HasStep
  <2>2. \A u \in Tasklets : ~(pc'[u] = "stored" /\ Call(u)'.on = mine)
    BY <1>0, <1>1, <1>2, <1>4
  <2>3. \A u, v \in VmHolders(mine) : u = v
    BY <1>0, <1>3 DEF VmInv, VmOf
  <2>4. \A u \in Tasklets \ {t} : u \in VmHolders(mine)' <=> u \in VmHolders(mine)
    BY <1>0, <1>1, <2>1, HoldersAre
  <2>5. t \in VmHolders(mine)' <=> Has(t, mine)'
    BY <1>0, <1>2, HoldersAre
  <2>6. VmHolders(mine) \subseteq Tasklets /\ VmHolders(mine)' \subseteq Tasklets
    BY HoldersAre
  <2>7. CASE Call(t) = [kind |-> "vlock", on |-> mine]
    <3>0. ~Has(t, mine)
      BY <1>3, <2>7, HasStep
    <3>1. Call(t).kind = "vlock" /\ t \notin VmHolders(mine)
      BY <2>7, <3>0, HoldersAre
    <3>2. Bit(mine) \in vm[Byte(mine)] /\ (Bit(mine) \in reg[t].byte <=> VmHolders(mine) # {})
      BY <1>0, <1>2, <1>3, <3>1 DEF VmInv, VmOf
    <3>3. VmGot(t) <=> Bit(mine) \notin reg[t].byte
      BY <1>0, <3>1 DEF VmGot, Stored
    <3>4. CASE VmGot(t)
      <4>1. VmHolders(mine) = {} /\ Has(t, mine)'
        BY <1>0, <1>2, <1>3, <2>7, <3>2, <3>3, <3>4, HasStep
      <4>2. VmHolders(mine)' = {t}
        BY <1>0, <2>4, <2>5, <2>6, <4>1
      <4> QED
        BY <1>0, <1>2, <2>2, <3>2, <4>2 DEF VmOf, Bit, Byte
    <3>5. CASE ~VmGot(t)
      <4>1. ~Has(t, mine)'
        BY <1>0, <1>2, <1>3, <2>1, <2>7, <3>5, HasStep
      <4>2. VmHolders(mine)' = VmHolders(mine)
        BY <1>0, <2>4, <2>5, <2>6, <3>1, <4>1
      <4> QED
        BY <1>0, <1>2, <2>2, <2>3, <3>2, <3>3, <3>5, <4>2 DEF VmOf, Bit, Byte
    <3> QED
      BY <1>0, <3>4, <3>5
  <2>8. CASE Call(t) = [kind |-> "vunlock", on |-> mine]
    <3>1. Call(t).kind = "vunlock" /\ Call(t) # [kind |-> "vlock", on |-> mine]
      BY <1>0, <2>8
    <3>2. Bit(mine) \notin vm[Byte(mine)] /\ VmHolders(mine) = {}
      BY <1>0, <1>2, <1>3, <3>1 DEF VmInv, VmOf
    <3>3. ~Has(t, mine)'
      BY <1>0, <1>2, <1>3, <2>8, <3>1, HasStep DEF VmGot
    <3>4. VmHolders(mine)' = {}
      BY <1>0, <2>4, <2>5, <2>6, <3>2, <3>3
    <3> QED
      BY <1>0, <1>2, <2>2, <3>2, <3>4 DEF VmOf, Bit, Byte
  <2> QED
    BY <1>0, <1>3, <2>7, <2>8
<1> QED
  BY <1>0, <1>5, <1>6, <1>7 DEF VmInv, Byte

(* Every step keeps the virtual mutexes. *)
LEMMA VmStep ==
    ASSUME DpuType, AlreadyInv, DpuType', AlreadyInv', PlaceInv, LockInv, VmInv,
           NEW t \in Tasklets, Step(t)
    PROVE  VmInv'
<1>1. Apart(t) /\ ~Over(t) /\ Moves(t)
  BY StepApart, StepShape
<1>2. CASE VmLoad(t) \/ VmStore(t) \/ VmDone(t)
  BY <1>1, <1>2, VmLoads, VmStores, VmDones
<1>3. CASE ~(VmLoad(t) \/ VmStore(t) \/ VmDone(t))
  <2>1. vm' = vm
    BY <1>3 DEF Step, Acquire, Stop, Resumed, Leave, BarrierEnqueue, BarrierAlone, BarrierLast,
       BarrierWake, BarrierLink, BarrierWakeLast, BarrierRearm, SemTake, SemTakeWait, SemGive,
       SemUnlink, SemGiveWake, ShakeFirst, ShakeSecond, ShakeAlready
  <2>2. \A u \in Tasklets \ {t} : reg'[u] = reg[u]
    BY <1>3 DEF DpuType, Step, Acquire, Stop, Resumed, Leave, BarrierEnqueue, BarrierAlone, BarrierLast,
       BarrierWake, BarrierLink, BarrierWakeLast, BarrierRearm, SemTake, SemTakeWait, SemGive,
       SemUnlink, SemGiveWake, ShakeFirst, ShakeSecond, ShakeAlready
  <2>3. pc[t] \notin {"loaded", "stored"}
    BY <1>3 DEF At, Step, Acquire, Stop, Resumed, Leave, BarrierEnqueue, BarrierAlone, BarrierLast,
       BarrierWake, BarrierLink, BarrierWakeLast, BarrierRearm, SemTake, SemTakeWait, SemGive,
       SemUnlink, SemGiveWake, ShakeFirst, ShakeSecond, ShakeAlready
  <2>4. pc'[t] \notin {"loaded", "stored"}
    <3>1. pc \in [Tasklets -> Places]
      BY DEF DpuType
    <3> QED
      BY <1>3, <3>1 DEF Goto, Return, Step, Acquire, Stop, Resumed, Leave, BarrierEnqueue, BarrierAlone,
         BarrierLast, BarrierWake, BarrierLink, BarrierWakeLast, BarrierRearm, SemTake, SemTakeWait,
         SemGive, SemUnlink, SemGiveWake, ShakeFirst, ShakeSecond, ShakeAlready
  <2>5. at' = at \/ Call(t).kind \notin VmKinds
    <3>1. PlaceIn(pc[t], Call(t).kind)
      BY DEF PlaceInv, PlaceOf
    <3> QED
      BY <1>3, <3>1 DEF VmKinds, PlaceIn, Waking, At, InHandshake, Step, Acquire, Stop, Resumed, Leave,
         BarrierEnqueue, BarrierAlone, BarrierLast, BarrierWake, BarrierLink, BarrierWakeLast,
         BarrierRearm, SemTake, SemTakeWait, SemGive, SemUnlink, SemGiveWake, ShakeFirst, ShakeSecond,
         ShakeAlready
  <2> QED
    BY <1>1, <2>1, <2>2, <2>3, <2>4, <2>5, VmOther
<1> QED
  BY <1>2, <1>3

-----------------------------------------------------------------------------
(***************************************************************************)
(* The inductive invariant.                                                *)
(***************************************************************************)

(* At the start nobody is in an object. *)
LEMMA InitInv == Init => IInv
<1> SUFFICES ASSUME Init PROVE IInv
  OBVIOUS
<1>1. /\ program \in Programs /\ at = [t \in Tasklets |-> 1] /\ pc = [t \in Tasklets |-> "call"]
      /\ reg = [t \in Tasklets |-> [first |-> Empty, last |-> Empty, byte |-> {}]]
      /\ running = [t \in Tasklets |-> TRUE] /\ lock = [l \in Locks |-> Empty]
      /\ barrier = [b \in Barriers |-> [queue |-> Empty, count |-> BarrierSize[b]]]
      /\ sem = [s \in Sems |-> [queue |-> Empty, count |-> SemCount[s]]]
      /\ wq = [t \in Tasklets |-> Empty] /\ shake = [t \in Tasklets |-> Empty]
      /\ already = {} /\ vm = [y \in Bytes |-> {}]
  BY DEF Init, Bytes
<1>2. DpuType
  <2>1. /\ \A b \in Barriers : BarrierSize[b] \in Int
        /\ \A s \in Sems : SemCount[s] \in Int
    BY DpuSyncAssumption
  <2> QED
    BY <1>1, <2>1 DEF DpuType, Nobody, Places
<1>3. \A t \in Tasklets : pc[t] = "call" /\ running[t]
  BY <1>1
<1>4. \A k, o : Waits(k, o) = {}
  BY <1>3 DEF Waits
<1>5. (\A b : Waker(b) = {}) /\ (\A s : Giver(s) = {} /\ Off(s) = {})
  BY <1>3 DEF Waker, Giver, Off
<1>6. PlaceInv
  BY <1>3 DEF PlaceInv, PlaceOf, PlaceIn, Waking
<1>7. LockInv
  BY <1>1, <1>3 DEF LockInv, Critical
<1>8. AlreadyInv
  BY <1>1 DEF AlreadyInv
<1>9. PICK q : q = [i \in 1..0 |-> Empty]
  OBVIOUS
<1>10. \A S : S = {} => Ring(wq, 0, q, S)
  BY <1>9 DEF Ring
<1>11. BarrierInv
  <2>1. ASSUME NEW b \in Barriers PROVE BarrierList(b, 0, q)
    <3>1. barrier[b].queue = Empty /\ barrier[b].count = BarrierSize[b]
      BY <1>1
    <3>2. BarrierSize[b] \in Nat \ {0}
      BY DpuSyncAssumption
    <3> QED
      BY <1>4, <1>5, <1>10, <3>1, <3>2 DEF BarrierList, Closed
  <2> QED
    BY <2>1 DEF BarrierInv
<1>12. SemInv
  <2>1. ASSUME NEW s \in Sems PROVE SemList(s, 0, q)
    <3>1. sem[s].queue = Empty
      BY <1>1
    <3> QED
      BY <1>4, <1>5, <1>10, <3>1 DEF SemList, Closed
  <2> QED
    BY <2>1 DEF SemInv
<1>13. LinkInv
  BY <1>3 DEF LinkInv
<1>14. ShakeInv
  BY <1>1, <1>4, DpuSyncAssumption DEF ShakeInv
<1>15. VmInv
  <2>1. ASSUME NEW id \in VmIds PROVE VmOf(id)
    <3>1. \A t \in Tasklets : \A k : ReturnedOf(t, k, id) = {}
      BY <1>1 DEF ReturnedOf
    <3>2. VmHolders(id) = {}
      BY <3>1, FS_EmptySet DEF VmHolders
    <3>3. Bit(id) \notin vm[Byte(id)]
      BY <1>1, <2>1, BitType
    <3> QED
      BY <1>3, <3>2, <3>3 DEF VmOf
  <2> QED
    BY <1>3, <2>1 DEF VmInv
<1> QED
  BY <1>2, <1>6, <1>7, <1>8, <1>11, <1>12, <1>13, <1>14, <1>15 DEF IInv

(* A step of a tasklet keeps it. *)
LEMMA StepInv ==
    ASSUME IInv, NEW t \in Tasklets, Step(t)
    PROVE  IInv'
<1>1. /\ DpuType /\ PlaceInv /\ LockInv /\ AlreadyInv /\ ListInv /\ ShakeInv /\ VmInv
  BY DEF IInv, ListInv
<1>2. DpuType' /\ AlreadyInv'
  BY <1>1, TypeStep, AlreadyStep
<1>3. PlaceInv' /\ LockInv'
  BY <1>1, PlaceStep, LockStep
<1>4. ListInv' /\ ShakeInv'
  BY <1>1, ListStep, ShakeStep
<1>5. VmInv'
  BY <1>1, <1>2, VmStep
<1> QED
  BY <1>2, <1>3, <1>4, <1>5 DEF IInv, ListInv

(* So does a step that changes nothing. *)
LEMMA StutterInv ==
    ASSUME IInv, UNCHANGED vars
    PROVE  IInv'
<1>1. /\ program' = program /\ at' = at /\ pc' = pc /\ reg' = reg /\ running' = running
      /\ lock' = lock /\ barrier' = barrier /\ sem' = sem /\ wq' = wq /\ shake' = shake
      /\ already' = already /\ vm' = vm
  BY DEF vars
<1>2. /\ \A t : Over(t)' = Over(t) /\ Call(t)' = Call(t) /\ LockOf(t)' = LockOf(t)
      /\ \A t, k, o : In(t, k, o)' = In(t, k, o)
  BY <1>1, CallKept
<1>3. /\ \A k, o : Waits(k, o)' = Waits(k, o)
      /\ \A o : Waker(o)' = Waker(o) /\ Giver(o)' = Giver(o) /\ VmHolders(o)' = VmHolders(o)
  BY <1>1, <1>2 DEF Waits, Waker, Giver, VmHolders, ReturnedOf
<1>4. \A s : Off(s)' = Off(s)
  BY <1>1, <1>3 DEF Off
<1>5. DpuType' /\ AlreadyInv' /\ PlaceInv' /\ LockInv'
  BY <1>1, <1>2 DEF IInv, DpuType, Locks, Bytes, Byte, AlreadyInv, PlaceInv, PlaceOf, LockInv
<1>6. \A b, n, q : BarrierList(b, n, q)' <=> BarrierList(b, n, q)
  BY <1>1, <1>3 DEF BarrierList
<1>7. \A s, n, q : SemList(s, n, q)' <=> SemList(s, n, q)
  BY <1>1, <1>3, <1>4 DEF SemList
<1>8. BarrierInv' /\ SemInv' /\ LinkInv' /\ ShakeInv'
  BY <1>1, <1>3, <1>6, <1>7 DEF IInv, BarrierInv, SemInv, LinkInv, ShakeInv
<1>9. VmInv'
  BY <1>1, <1>2, <1>3 DEF IInv, VmInv, VmOf, Byte, Bit
<1> QED
  BY <1>5, <1>8, <1>9 DEF IInv

(* Types, places and locks; the lists of barriers and semaphores; the      *)
(* handshakes; the virtual mutexes: they hold in every reachable state.    *)
THEOREM Inductive == Spec => []IInv
<1>1. IInv /\ [Next]_vars => IInv'
  BY StepInv, StutterInv DEF Next
<1> QED
  BY InitInv, <1>1, PTL DEF Spec

(* The virtual mutexes of vmutex.h: two tasklets never have the same one,  *)
(* and no update of a byte is lost, though eight of them share a byte and  *)
(* the bytes share the hardware mutexes.                                   *)
THEOREM MutexesExclusive == Spec => []VmExclusion
<1>1. IInv => VmExclusion
  <2> SUFFICES ASSUME IInv, NEW id \in VmIds
               PROVE  /\ Cardinality(VmHolders(id)) <= 1
                      /\ lock[<<"vm", HwMutex(id)>>] = Empty =>
                            (Bit(id) \in vm[Byte(id)] <=> VmHolders(id) # {})
    BY DEF VmExclusion
  <2>1. \A t, u \in VmHolders(id) : t = u
    BY DEF IInv, VmInv, VmOf
  <2>2. Cardinality(VmHolders(id)) <= 1
    <3>1. CASE VmHolders(id) = {}
      BY <3>1, FS_EmptySet
    <3>2. CASE VmHolders(id) # {}
      <4>1. PICK t : VmHolders(id) = {t}
        BY <2>1, <3>2
      <4> QED
        BY <4>1, FS_Singleton
    <3> QED
      BY <3>1, <3>2
  <2>3. ASSUME lock[<<"vm", HwMutex(id)>>] = Empty, NEW t \in Tasklets
        PROVE  ~(pc[t] = "stored" /\ Call(t).on = id)
    <3> SUFFICES ASSUME pc[t] = "stored", Call(t).on = id PROVE FALSE
      OBVIOUS
    <3>1. DpuType /\ PlaceInv /\ LockInv
      BY DEF IInv
    <3>2. ~Over(t) /\ Call(t).kind \in VmKinds
      BY <3>1 DEF PlaceInv, PlaceOf, PlaceIn, VmKinds
    <3>3. LockOf(t) = <<"vm", HwMutex(id)>>
      BY <3>1, <3>2, LockCases DEF VmKinds
    <3>4. lock[LockOf(t)] = t
      BY <3>1 DEF LockInv, Critical
    <3> QED
      BY <2>3, <3>3, <3>4, DpuSyncAssumption
  <2> QED
    BY <2>2, <2>3 DEF IInv, VmInv, VmOf
<1> QED
  BY Inductive, <1>1, PTL

-----------------------------------------------------------------------------
(***************************************************************************)
(* The barriers implement the abstract barrier.                            *)
(***************************************************************************)

GroupStep(b) == Group(b)!Next \/ UNCHANGED <<WaitingAt(b), ReleasedAt(b)>>

(* The cardinality that the abstract barrier speaks of. *)
LEMMA GroupCardinality ==
    ASSUME NEW b, NEW S
    PROVE  Group(b)!Cardinality(S) = Cardinality(S)
  BY DEF Cardinality, Group!Cardinality

(* A step that leaves the ones that wait, wake and were woken. *)
LEMMA GroupKept ==
    ASSUME NEW b, Waits("barrier", b)' = Waits("barrier", b), Waker(b)' = Waker(b),
           Woken("barrier", b)' = Woken("barrier", b)
    PROVE  GroupStep(b)
  BY DEF GroupStep, WaitingAt, ReleasedAt

(* t comes: the group is complete when Size came. *)
LEMMA GroupArrives ==
    ASSUME NEW b \in Barriers, NEW t \in Tasklets, t \notin WaitingAt(b) \union ReleasedAt(b),
           \/ /\ Cardinality(WaitingAt(b)) + 1 = BarrierSize[b]
              /\ WaitingAt(b)' = {}
              /\ ReleasedAt(b)' = ReleasedAt(b) \union WaitingAt(b) \union {t}
           \/ /\ Cardinality(WaitingAt(b)) + 1 # BarrierSize[b]
              /\ WaitingAt(b)' = WaitingAt(b) \union {t}
              /\ ReleasedAt(b)' = ReleasedAt(b)
    PROVE  GroupStep(b)
<1>1. Group(b)!Cardinality(WaitingAt(b)) = Cardinality(WaitingAt(b))
  BY GroupCardinality
<1>2. Group(b)!Arrive(t)
  BY <1>1 DEF Group!Arrive
<1> QED
  BY <1>2 DEF GroupStep, Group!Next

(* t goes. *)
LEMMA GroupDeparts ==
    ASSUME NEW b, NEW t \in Tasklets, t \in ReleasedAt(b),
           ReleasedAt(b)' = ReleasedAt(b) \ {t}, WaitingAt(b)' = WaitingAt(b)
    PROVE  GroupStep(b)
<1>1. Group(b)!Depart(t)
  BY DEF Group!Depart
<1> QED
  BY <1>1 DEF GroupStep, Group!Next

(* The steps that are not about barriers, and the ones under the lock of a *)
(* barrier that no other tasklet sees.                                     *)
LEMMA GroupQuiet ==
    ASSUME DpuType, PlaceInv, NEW t \in Tasklets, Apart(t), running[t],
           \/ Acquire(t) \/ Stop(t) \/ BarrierAlone(t) \/ BarrierLink(t) \/ SemTake(t) \/ SemGive(t)
           \/ ShakeAlready(t) \/ Leave(t) \/ VmLoad(t) \/ VmStore(t) \/ VmDone(t)
    PROVE  \A b : GroupStep(b)
<1>0. pc \in [Tasklets -> Places]
  BY DEF DpuType
<1>1. CASE Acquire(t) \/ VmLoad(t) \/ VmStore(t)
  <2>1. running' = running /\ pc[t] \in Plain /\ pc'[t] \in Plain
    BY <1>0, <1>1 DEF Acquire, VmLoad, VmStore, At, Goto, Plain
  <2> QED
    BY <2>1, QuietSets, AllSame, GroupKept
<1>2. CASE BarrierAlone(t) \/ SemTake(t) \/ SemGive(t) \/ ShakeAlready(t) \/ Leave(t) \/ VmDone(t)
  <2>1. running' = running /\ pc[t] \in Plain /\ pc'[t] \in Plain
    BY <1>0, <1>2 DEF BarrierAlone, SemTake, SemGive, ShakeAlready, Leave, VmDone, At, Goto, Return, Plain
  <2> QED
    BY <2>1, QuietSets, AllSame, GroupKept
<1>3. CASE BarrierLink(t)
  <2>1. running' = running /\ at' = at /\ pc[t] \in Waking /\ pc'[t] \in Waking
    BY <1>0, <1>3 DEF BarrierLink, At, Goto, Waking
  <2> QED
    BY <2>1, QuietSets, AllSame, GroupKept
<1>4. CASE Stop(t)
  <2>1. /\ running' = [running EXCEPT ![t] = FALSE] /\ at' = at
        /\ pc[t] = "stop" /\ pc'[t] = "stopped"
    BY <1>0, <1>4 DEF Stop, At, Goto
  <2> QED
    BY <2>1, QuietSets, AllSame, GroupKept
<1> QED
  BY <1>1, <1>2, <1>3, <1>4

(* A first of the list of a semaphore is taken off. *)
LEMMA GroupUnlink ==
    ASSUME DpuType, PlaceInv, NEW t \in Tasklets, Apart(t), running[t], SemUnlink(t)
    PROVE  \A b : GroupStep(b)
<1>0. pc \in [Tasklets -> Places]
  BY DEF DpuType
<1>1. running' = running /\ pc[t] = "locked" /\ pc'[t] = "wake1"
  BY <1>0 DEF SemUnlink, At, Goto
<1>2. \A k, o : Waits(k, o)' = Waits(k, o)
  BY <1>1, WaitsSame
<1>3. \A u \in Tasklets \ {t} : Same(u)
  BY <1>1, OthersSeen
<1>4. \A b : /\ t \notin Waker(b) /\ t \notin Waker(b)'
             /\ t \notin Woken("barrier", b) /\ t \notin Woken("barrier", b)'
  BY <1>1 DEF Waker, Woken
<1>5. \A b : Waker(b) \subseteq Tasklets /\ Waker(b)' \subseteq Tasklets
             /\ Woken("barrier", b) \subseteq Tasklets /\ Woken("barrier", b)' \subseteq Tasklets
  BY DEF Waker, Woken
<1>6. \A b : Waker(b)' = Waker(b) /\ Woken("barrier", b)' = Woken("barrier", b)
  BY <1>3, <1>4, <1>5 DEF Same
<1> QED
  BY <1>2, <1>6, GroupKept

(* A tasklet that was resumed returns: it departs if it was in a barrier.  *)
LEMMA GroupResumed ==
    ASSUME DpuType, PlaceInv, NEW t \in Tasklets, Apart(t), running[t], ~Over(t), Resumed(t), NEW b
    PROVE  GroupStep(b)
<1>0. pc \in [Tasklets -> Places]
  BY DEF DpuType
<1>1. running' = running /\ pc[t] = "stopped" /\ pc'[t] = "call"
  BY <1>0 DEF Resumed, At, Return
<1>2. Waits("barrier", b)' = Waits("barrier", b) /\ t \notin Waits("barrier", b)
  BY <1>1, WaitsSame
<1>3. \A u \in Tasklets \ {t} : Same(u)
  BY <1>1, OthersSeen
<1>4. /\ t \notin Waker(b) /\ t \notin Waker(b)' /\ t \notin Woken("barrier", b)'
      /\ t \in Woken("barrier", b) <=> In(t, "barrier", b)
  BY <1>1 DEF Waker, Woken
<1>5. Waker(b) \subseteq Tasklets /\ Waker(b)' \subseteq Tasklets
      /\ Woken("barrier", b) \subseteq Tasklets /\ Woken("barrier", b)' \subseteq Tasklets
  BY DEF Waker, Woken
<1>6. Waker(b)' = Waker(b)
  BY <1>3, <1>4, <1>5 DEF Same
<1>7. Woken("barrier", b)' = Woken("barrier", b) \ {t}
  BY <1>3, <1>4, <1>5 DEF Same
<1>8. CASE In(t, "barrier", b)
  <2>1. t \in ReleasedAt(b)
    BY <1>4, <1>8 DEF ReleasedAt
  <2>2. ReleasedAt(b)' = ReleasedAt(b) \ {t}
    BY <1>2, <1>4, <1>6, <1>7 DEF ReleasedAt
  <2>3. WaitingAt(b)' = WaitingAt(b)
    BY <1>2, <1>6 DEF WaitingAt
  <2> QED
    BY <2>1, <2>2, <2>3, GroupDeparts
<1>9. CASE ~In(t, "barrier", b)
  <2>1. Woken("barrier", b)' = Woken("barrier", b)
    BY <1>4, <1>7, <1>9
  <2> QED
    BY <1>2, <1>6, <2>1, GroupKept
<1> QED
  BY <1>8, <1>9

(* While nobody wakes the group of b, its counter tells how many wait. *)
LEMMA GroupCount ==
    ASSUME BarrierInv, NEW b \in Barriers, Waker(b) = {}
    PROVE  /\ Cardinality(Waits("barrier", b)) = BarrierSize[b] - barrier[b].count
           /\ Cardinality(Waits("barrier", b)) \in Nat /\ BarrierSize[b] \in Nat
<1>1. PICK n, q : BarrierList(b, n, q)
  BY DEF BarrierInv
<1>2. Ring(wq, n, q, Waits("barrier", b)) /\ barrier[b].count = BarrierSize[b] - n /\ n \in Nat
  BY <1>1 DEF BarrierList, Ring
<1>3. Waits("barrier", b) \in SUBSET Tasklets
  BY DEF Waits
<1>4. Cardinality(Waits("barrier", b)) = n
  BY <1>2, <1>3, RingCard
<1> QED
  BY <1>2, <1>4, DpuSyncAssumption

(* Not the last of its group. *)
LEMMA GroupEnqueue ==
    ASSUME DpuType, PlaceInv, LockInv, BarrierInv, NEW t \in Tasklets, Apart(t), running[t], ~Over(t),
           BarrierEnqueue(t), NEW b \in Barriers
    PROVE  GroupStep(b)
<1>1. /\ running' = running /\ at' = at /\ pc[t] = "locked" /\ pc'[t] = "stop"
      /\ Call(t).kind = "barrier" /\ barrier[Call(t).on].count # 1
  BY DEF BarrierEnqueue, At, Goto, DpuType
<1>2. PICK c : c = Call(t).on
  OBVIOUS
<1>3. Joins(t, "barrier", c)
  BY <1>1, <1>2, EnqueueSets DEF In
<1>4. CASE b # c
  BY <1>3, <1>4, GroupKept DEF Joins
<1>5. CASE b = c
  <2>1. Waker(b) = {} /\ Waker(b)' = {}
    BY <1>1, <1>2, <1>3, <1>5, WakerAlone DEF Critical, Waking, Joins
  <2>2. /\ WaitingAt(b) = Waits("barrier", b) /\ WaitingAt(b)' = Waits("barrier", b) \union {t}
        /\ ReleasedAt(b) = Woken("barrier", b) /\ ReleasedAt(b)' = Woken("barrier", b)
    BY <1>3, <1>5, <2>1 DEF WaitingAt, ReleasedAt, Joins
  <2>3. t \notin Waits("barrier", b) /\ t \notin Woken("barrier", b)
    BY <1>1, <1>3 DEF Joins, Woken
  <2>4. barrier[b].count \in Int /\ barrier[b].count # 1
    BY <1>1, <1>2, <1>5 DEF DpuType
  <2>5. Cardinality(WaitingAt(b)) + 1 # BarrierSize[b]
    BY <2>1, <2>2, <2>4, GroupCount
  <2> QED
    BY <2>2, <2>3, <2>5, GroupArrives
<1> QED
  BY <1>4, <1>5

(* The last of its group: the group is complete. *)
LEMMA GroupLast ==
    ASSUME DpuType, PlaceInv, LockInv, BarrierInv, NEW t \in Tasklets, Apart(t), running[t], ~Over(t),
           BarrierLast(t), NEW b \in Barriers
    PROVE  GroupStep(b)
<1>0. pc \in [Tasklets -> Places]
  BY DEF DpuType
<1>1. /\ running' = running /\ at' = at /\ pc[t] = "locked" /\ pc'[t] = "wake"
      /\ Call(t).kind = "barrier" /\ barrier[Call(t).on].count = 1
  BY <1>0 DEF BarrierLast, At, Goto
<1>2. PICK c : c = Call(t).on
  OBVIOUS
<1>3. \A k, o : Waits(k, o)' = Waits(k, o) /\ t \notin Waits(k, o)
  BY <1>1, WaitsSame
<1>4. \A u \in Tasklets \ {t} : Same(u)
  BY <1>1, OthersSeen
<1>5. In(t, "barrier", b)' <=> b = c
  BY <1>1, <1>2, CallKept DEF In, Apart
<1>6. /\ t \notin Waker(b) /\ (t \in Waker(b)' <=> b = c)
      /\ t \notin Woken("barrier", b)' /\ t \notin Woken("barrier", b)
  BY <1>1, <1>5 DEF Waker, Woken
<1>7. Waker(b) \subseteq Tasklets /\ Waker(b)' \subseteq Tasklets
      /\ Woken("barrier", b) \subseteq Tasklets /\ Woken("barrier", b)' \subseteq Tasklets
  BY DEF Waker, Woken
<1>8. Woken("barrier", b)' = Woken("barrier", b)
  BY <1>4, <1>6, <1>7 DEF Same
<1>9. CASE b # c
  <2>1. Waker(b)' = Waker(b)
    BY <1>4, <1>6, <1>7, <1>9 DEF Same
  <2> QED
    BY <1>3, <1>8, <2>1, GroupKept
<1>10. CASE b = c
  <2>1. Waker(b) = {}
    BY <1>1, <1>2, <1>10, WakerAlone DEF Critical, Waking
  <2>2. Waker(b)' = {t}
    BY <1>4, <1>6, <1>7, <1>10, <2>1 DEF Same
  <2>3. /\ WaitingAt(b) = Waits("barrier", b) /\ WaitingAt(b)' = {}
        /\ ReleasedAt(b) = Woken("barrier", b)
        /\ ReleasedAt(b)' = Woken("barrier", b) \union Waits("barrier", b) \union {t}
    BY <1>3, <1>8, <2>1, <2>2 DEF WaitingAt, ReleasedAt
  <2>4. barrier[b].count = 1
    BY <1>1, <1>2, <1>10
  <2>5. Cardinality(WaitingAt(b)) + 1 = BarrierSize[b]
    BY <2>1, <2>3, <2>4, GroupCount
  <2>6. t \notin WaitingAt(b) \union ReleasedAt(b)
    BY <1>3, <1>6, <2>3
  <2> QED
    BY <2>3, <2>5, <2>6, GroupArrives
<1> QED
  BY <1>9, <1>10

(* A member is resumed: it was let go before. *)
LEMMA GroupWake ==
    ASSUME DpuType, PlaceInv, LockInv, ListInv, NEW t \in Tasklets, Apart(t), running[t], ~Over(t),
           BarrierWake(t) \/ BarrierWakeLast(t), NEW b
    PROVE  GroupStep(b)
<1>0. pc \in [Tasklets -> Places] /\ reg[t].first \in Nobody
  BY DEF DpuType
<1>1. PICK v, c : v = reg[t].first /\ c = Call(t).on
  OBVIOUS
<1>2. v \in Waits("barrier", c) /\ v \in Tasklets
  BY <1>1, ListsWake DEF Waits
<1>3. /\ pc[t] \in Critical /\ pc'[t] \notin {"stop", "stopped"} /\ at' = at
      /\ pc[t] \in Waking /\ pc'[t] \in Waking
      /\ ~running[v] /\ running' = [running EXCEPT ![v] = TRUE]
  BY <1>0, <1>1 DEF BarrierWake, BarrierWakeLast, At, Goto, Resume, Critical, Waking
<1>4. /\ Waits("barrier", b)' = Waits("barrier", b) \ {v}
      /\ Woken("barrier", b)' = (IF v \in Waits("barrier", b) THEN Woken("barrier", b) \union {v} ELSE Woken("barrier", b))
  BY <1>2, <1>3, WakeSets
<1>5. t \in Waker(b)' <=> t \in Waker(b)
  BY <1>3, CallKept DEF Waker, Waking, Apart
<1>6. Waker(b)' = Waker(b)
  <2>1. Waker(b) \subseteq Tasklets /\ Waker(b)' \subseteq Tasklets
    BY DEF Waker
  <2> QED
    BY <1>5, <2>1, OthersSeen
<1>7. CASE b # c
  <2>1. v \notin Waits("barrier", b)
    BY <1>2, <1>7, OneList
  <2>2. Waits("barrier", b)' = Waits("barrier", b) /\ Woken("barrier", b)' = Woken("barrier", b)
    BY <1>4, <2>1
  <2> QED
    BY <1>6, <2>2, GroupKept
<1>8. CASE b = c
  <2>1. Call(t).kind = "barrier"
    BY <1>3 DEF PlaceInv, PlaceOf, PlaceIn
  <2>2. t \in Waker(b)
    BY <1>1, <1>3, <1>8, <2>1, WakerAlone
  <2>3. Woken("barrier", b)' = Woken("barrier", b) \union {v}
    BY <1>2, <1>4, <1>8
  <2>4. WaitingAt(b)' = {} /\ WaitingAt(b) = {}
    BY <1>6, <2>2 DEF WaitingAt
  <2>5. ReleasedAt(b)' = ReleasedAt(b)
    <3>1. ReleasedAt(b) = Woken("barrier", b) \union Waker(b) \union Waits("barrier", b)
      BY <2>2 DEF ReleasedAt
    <3>2. ReleasedAt(b)' = (Woken("barrier", b) \union {v}) \union Waker(b) \union (Waits("barrier", b) \ {v})
      BY <1>4, <1>6, <2>2, <2>3 DEF ReleasedAt
    <3> QED
      BY <1>2, <1>8, <3>1, <3>2
  <2> QED
    BY <2>4, <2>5 DEF GroupStep
<1> QED
  BY <1>7, <1>8

(* The last of the group returns, when the others are woken. *)
LEMMA GroupRearm ==
    ASSUME DpuType, PlaceInv, LockInv, ListInv, NEW t \in Tasklets, Apart(t), running[t], ~Over(t),
           BarrierRearm(t), NEW b
    PROVE  GroupStep(b)
<1>0. pc \in [Tasklets -> Places]
  BY DEF DpuType
<1>1. /\ running' = running /\ pc[t] = "rearm" /\ pc'[t] = "call"
  BY <1>0 DEF BarrierRearm, At, Return
<1>2. PICK c : c = Call(t).on
  OBVIOUS
<1>3. Waits("barrier", b)' = Waits("barrier", b)
  BY <1>1, WaitsSame
<1>4. \A u \in Tasklets \ {t} : Same(u)
  BY <1>1, OthersSeen
<1>5. t \notin Waker(b)' /\ t \notin Woken("barrier", b)' /\ t \notin Woken("barrier", b)
  BY <1>1 DEF Waker, Woken
<1>6. Waker(b) \subseteq Tasklets /\ Waker(b)' \subseteq Tasklets
      /\ Woken("barrier", b) \subseteq Tasklets /\ Woken("barrier", b)' \subseteq Tasklets
  BY DEF Waker, Woken
<1>7. Woken("barrier", b)' = Woken("barrier", b)
  BY <1>4, <1>5, <1>6 DEF Same
<1>8. Call(t).kind = "barrier"
  BY <1>1 DEF PlaceInv, PlaceOf, PlaceIn, Waking
<1>9. CASE b # c
  <2>1. t \notin Waker(b)
    BY <1>2, <1>9 DEF Waker, In
  <2>2. Waker(b)' = Waker(b)
    BY <1>4, <1>5, <1>6, <2>1 DEF Same
  <2> QED
    BY <1>3, <1>7, <2>2, GroupKept
<1>10. CASE b = c
  <2>1. Waker(b) = {t}
    BY <1>1, <1>2, <1>8, <1>10, WakerAlone DEF Critical, Waking
  <2>2. Waker(b)' = {}
    BY <1>4, <1>5, <1>6, <2>1 DEF Same
  <2>3. Waits("barrier", b) = {}
    BY <1>2, <1>10, ListsRearm
  <2>4. /\ WaitingAt(b) = {} /\ WaitingAt(b)' = {}
        /\ ReleasedAt(b) = Woken("barrier", b) \union {t}
        /\ ReleasedAt(b)' = Woken("barrier", b)
    BY <1>3, <1>7, <2>1, <2>2, <2>3 DEF WaitingAt, ReleasedAt
  <2> QED
    BY <1>5, <2>4, GroupDeparts
<1> QED
  BY <1>9, <1>10

(* Waiting elsewhere, and waking one that waits elsewhere. *)
LEMMA GroupElsewhere ==
    ASSUME DpuType, PlaceInv, LockInv, ListInv, ShakeInv, NEW t \in Tasklets, Apart(t), running[t],
           ~Over(t), SemTakeWait(t) \/ SemGiveWake(t) \/ ShakeFirst(t) \/ ShakeSecond(t), NEW b
    PROVE  GroupStep(b)
<1>0. pc \in [Tasklets -> Places]
  BY DEF DpuType
<1>1. CASE SemTakeWait(t) \/ ShakeFirst(t)
  <2>1. /\ running' = running /\ at' = at /\ pc[t] = "locked" /\ pc'[t] = "stop"
        /\ Call(t).kind # "barrier"
    BY <1>0, <1>1 DEF SemTakeWait, ShakeFirst, InHandshake, At, Goto
  <2>2. PICK k, o : k = Call(t).kind /\ o = Call(t).on
    OBVIOUS
  <2>3. Joins(t, k, o)
    BY <2>1, <2>2, EnqueueSets DEF In
  <2> QED
    BY <2>1, <2>2, <2>3, GroupKept DEF Joins
<1>2. CASE SemGiveWake(t) \/ ShakeSecond(t)
  <2>1. PICK v : v = IF SemGiveWake(t) THEN reg[t].first ELSE shake[Notifier(t)]
    OBVIOUS
  <2>2. /\ pc[t] \in Critical \ Waking /\ pc'[t] = "leave" /\ ~running[v]
        /\ running' = [running EXCEPT ![v] = TRUE]
    BY <1>0, <1>2, <2>1 DEF SemGiveWake, ShakeSecond, At, Goto, Resume, Critical, Waking
  <2>3. \E k, o : k # "barrier" /\ v \in Waits(k, o)
    <3>1. CASE SemGiveWake(t)
      BY <2>1, <3>1, ListsGiveWake
    <3>2. CASE ~SemGiveWake(t)
      <4>1. InHandshake(t) /\ Partner(t) /\ pc[t] = "locked"
        BY <1>2, <3>2 DEF ShakeSecond, At
      <4> QED
        BY <2>1, <3>2, <4>1, PartnerWaits DEF Notifier, InHandshake
    <3> QED
      BY <3>1, <3>2
  <2>4. v \in Tasklets /\ v \notin Waits("barrier", b)
    BY <2>3, OneList DEF Waits
  <2>5. /\ Waits("barrier", b)' = Waits("barrier", b) \ {v}
        /\ Woken("barrier", b)' = (IF v \in Waits("barrier", b) THEN Woken("barrier", b) \union {v} ELSE Woken("barrier", b))
    BY <2>2, <2>4, WakeSets
  <2>6. t \notin Waker(b)' /\ t \notin Waker(b)
    BY <2>2 DEF Waker, Waking
  <2>7. Waker(b)' = Waker(b)
    <3>1. Waker(b) \subseteq Tasklets /\ Waker(b)' \subseteq Tasklets
      BY DEF Waker
    <3> QED
      BY <2>6, <3>1, OthersSeen
  <2>8. Waits("barrier", b)' = Waits("barrier", b) /\ Woken("barrier", b)' = Woken("barrier", b)
    BY <2>4, <2>5
  <2> QED
    BY <2>7, <2>8, GroupKept
<1> QED
  BY <1>1, <1>2

(* Every step is a step of the abstract barrier, or none of it. *)
LEMMA StepGroups ==
    ASSUME IInv, NEW t \in Tasklets, Step(t), NEW b \in Barriers
    PROVE  GroupStep(b)
<1>1. DpuType /\ PlaceInv /\ LockInv /\ BarrierInv /\ ListInv /\ ShakeInv
  BY DEF IInv, ListInv
<1>2. Apart(t) /\ ~Over(t) /\ running[t]
  BY <1>1, StepApart, StepShape
<1>3. CASE \/ Acquire(t) \/ Stop(t) \/ BarrierAlone(t) \/ BarrierLink(t) \/ SemTake(t) \/ SemGive(t)
           \/ ShakeAlready(t) \/ Leave(t) \/ VmLoad(t) \/ VmStore(t) \/ VmDone(t)
  BY <1>1, <1>2, <1>3, GroupQuiet
<1>4. CASE SemUnlink(t) \/ Resumed(t)
  BY <1>1, <1>2, <1>4, GroupUnlink, GroupResumed
<1>5. CASE BarrierEnqueue(t)
  BY <1>1, <1>2, <1>5, GroupEnqueue
<1>6. CASE BarrierLast(t)
  BY <1>1, <1>2, <1>6, GroupLast
<1>7. CASE BarrierWake(t) \/ BarrierWakeLast(t)
  BY <1>1, <1>2, <1>7, GroupWake
<1>8. CASE BarrierRearm(t)
  BY <1>1, <1>2, <1>8, GroupRearm
<1>9. CASE SemTakeWait(t) \/ SemGiveWake(t) \/ ShakeFirst(t) \/ ShakeSecond(t)
  BY <1>1, <1>2, <1>9, GroupElsewhere
<1> QED
  BY <1>3, <1>4, <1>5, <1>6, <1>7, <1>8, <1>9 DEF Step

(* At the start nobody is in a barrier. *)
LEMMA GroupInit ==
    ASSUME Init, NEW b
    PROVE  Group(b)!Init
<1>1. \A t \in Tasklets : pc[t] = "call" /\ running[t]
  BY DEF Init
<1>2. Waits("barrier", b) = {} /\ Woken("barrier", b) = {} /\ Waker(b) = {}
  BY <1>1 DEF Waits, Woken, Waker
<1> QED
  BY <1>2 DEF Group!Init, WaitingAt, ReleasedAt

(* The same of the next-state relation. *)
LEMMA NextGroups ==
    ASSUME IInv, [Next]_vars, NEW b \in Barriers
    PROVE  GroupStep(b)
<1>1. CASE UNCHANGED vars
  <2>1. /\ program' = program /\ at' = at /\ pc' = pc /\ running' = running
    BY <1>1 DEF vars
  <2>2. \A t, k, o : In(t, k, o)' = In(t, k, o)
    BY <2>1, CallKept
  <2> QED
    BY <2>1, <2>2, GroupKept DEF Waits, Woken, Waker
<1> QED
  BY <1>1, StepGroups DEF Next

(* barrier_wait implements the abstract barrier, for every barrier at      *)
(* once: nobody leaves it before its group is complete, and the one that   *)
(* completes a group wakes every member of it.                             *)
THEOREM BarriersGroup == Spec => BarrierGroups
<1>1. Init => \A b \in Barriers : Group(b)!Init
  BY GroupInit
<1>2. IInv /\ [Next]_vars =>
        [\A b \in Barriers : Group(b)!Next \/ UNCHANGED <<WaitingAt(b), ReleasedAt(b)>>]_vars
  BY NextGroups DEF GroupStep
<1> QED
  BY Inductive, <1>1, <1>2, PTL DEF Spec, BarrierGroups

(* The same as a refinement of the module Barrier. *)
THEOREM BarrierRefines ==
    ASSUME NEW b \in Barriers
    PROVE  Spec => Group(b)!Spec
<1>1. Init => Group(b)!Init
  BY GroupInit
<1>2. IInv /\ [Next]_vars => [Group(b)!Next]_<<WaitingAt(b), ReleasedAt(b)>>
  BY NextGroups DEF GroupStep
<1> QED
  BY Inductive, <1>1, <1>2, PTL DEF Spec, Group!Spec

-----------------------------------------------------------------------------
(***************************************************************************)
(* Counting calls: the units of semaphores and the pairs of handshakes.    *)
(***************************************************************************)

Begun == {"stop", "stopped", "leave"}

(* The call of t gets past the accesses to its object. *)
Begins(t) ==
    /\ pc[t] \notin Begun
    /\ IF at' = at THEN pc'[t] \in Begun ELSE <<t, at[t]>> \notin already'

(* Only handshake_wait_for fails, and it returns when it does. *)
LEMMA FailedStep ==
    ASSUME DpuType, PlaceInv, AlreadyInv, NEW t \in Tasklets, Step(t)
    PROVE  /\ <<t, at[t]>> \notin already
           /\ \A u, i : ~(u = t /\ i = at[t]) => (<<u, i>> \in already' <=> <<u, i>> \in already)
           /\ <<t, at[t]>> \in already' <=> ShakeAlready(t)
<1>1. at[t] \in Nat /\ ~(at[t] \in 1..at[t] - 1)
  BY DEF DpuType
<1>2. <<t, at[t]>> \notin already
  BY <1>1 DEF AlreadyInv
<1>3. CASE ShakeAlready(t)
  <2>1. already' = already \union {<<t, at[t]>>}
    BY <1>3 DEF ShakeAlready
  <2> QED
    BY <1>2, <1>3, <2>1
<1>4. CASE ~ShakeAlready(t)
  <2>1. already' = already
    BY <1>4 DEF Step, Acquire, Stop, Resumed, Leave, BarrierEnqueue, BarrierAlone, BarrierLast,
       BarrierWake, BarrierLink, BarrierWakeLast, BarrierRearm, SemTake, SemTakeWait, SemGive,
       SemUnlink, SemGiveWake, ShakeFirst, ShakeSecond, VmLoad, VmStore, VmDone
  <2> QED
    BY <1>2, <1>4, <2>1
<1> QED
  BY <1>3, <1>4

Past(u, i, k, o) ==
    i \in 1..at[u] - 1 /\ <<u, i>> \notin already /\ program[u][i] = [kind |-> k, on |-> o]

Waiting(u, i, k, o) == i = at[u] /\ In(u, k, o) /\ pc[u] \in Begun

(* The calls that returned and the ones past their accesses, by tasklet    *)
(* and index.                                                              *)
LEMMA CallSets ==
    ASSUME NEW k, NEW o, at \in [Tasklets -> Nat \ {0}]
    PROVE  /\ Returned(k, o) \subseteq Tasklets \X Nat /\ Started(k, o) \subseteq Tasklets \X Nat
           /\ \A u \in Tasklets, i \in Nat :
                 /\ <<u, i>> \in Returned(k, o) <=>
                       Past(u, i, k, o)
                 /\ <<u, i>> \in Started(k, o) <=>
                       <<u, i>> \in Returned(k, o) \/ Waiting(u, i, k, o)
<1>1. \A u \in Tasklets : at[u] - 1 \in Nat /\ ReturnedOf(u, k, o) \subseteq Nat
  BY DEF ReturnedOf
<1>2. Returned(k, o) \subseteq Tasklets \X Nat
  BY <1>1 DEF Returned
<1>3. Started(k, o) \subseteq Tasklets \X Nat
  BY <1>2 DEF Started
<1>4. \A u \in Tasklets, i \in Nat : <<u, i>> \in Returned(k, o) <=> i \in ReturnedOf(u, k, o)
  BY DEF Returned
<1>5. \A u \in Tasklets, i \in Nat : <<u, i>> \in Returned(k, o) <=>
         Past(u, i, k, o)
  BY <1>4 DEF ReturnedOf, Past
<1>6. \A u \in Tasklets, i \in Nat :
         <<u, i>> \in Started(k, o) <=>
            <<u, i>> \in Returned(k, o) \/ Waiting(u, i, k, o)
  BY DEF Started, Begun, Waiting
<1> QED
  BY <1>2, <1>3, <1>5, <1>6

(* The same in the next state. *)
LEMMA CallSetsNext ==
    ASSUME NEW k, NEW o, at' \in [Tasklets -> Nat \ {0}]
    PROVE  /\ Returned(k, o)' \subseteq Tasklets \X Nat /\ Started(k, o)' \subseteq Tasklets \X Nat
           /\ \A u \in Tasklets, i \in Nat :
                 /\ <<u, i>> \in Returned(k, o)' <=>
                       Past(u, i, k, o)'
                 /\ <<u, i>> \in Started(k, o)' <=>
                       <<u, i>> \in Returned(k, o)' \/ Waiting(u, i, k, o)'
<1>1. \A u \in Tasklets : at'[u] - 1 \in Nat /\ ReturnedOf(u, k, o)' \subseteq Nat
  BY DEF ReturnedOf
<1>2. Returned(k, o)' \subseteq Tasklets \X Nat
  BY <1>1 DEF Returned
<1>3. Started(k, o)' \subseteq Tasklets \X Nat
  BY <1>2 DEF Started
<1>4. \A u \in Tasklets, i \in Nat : <<u, i>> \in Returned(k, o)' <=> i \in ReturnedOf(u, k, o)'
  BY DEF Returned
<1>5. \A u \in Tasklets, i \in Nat : <<u, i>> \in Returned(k, o)' <=>
         Past(u, i, k, o)'
  BY <1>4 DEF ReturnedOf, Past
<1>6. \A u \in Tasklets, i \in Nat :
         <<u, i>> \in Started(k, o)' <=>
            <<u, i>> \in Returned(k, o)' \/ Waiting(u, i, k, o)'
  BY DEF Started, Begun, Waiting
<1> QED
  BY <1>2, <1>3, <1>5, <1>6

(* Two sets of calls are the same when they have the same pairs. *)
LEMMA SamePairs ==
    ASSUME NEW A, NEW B, A \subseteq Tasklets \X Nat, B \subseteq Tasklets \X Nat,
           \A u \in Tasklets, i \in Nat : <<u, i>> \in A <=> <<u, i>> \in B
    PROVE  A = B
<1>1. ASSUME NEW x \in Tasklets \X Nat PROVE x \in A <=> x \in B
  <2>1. PICK u \in Tasklets, i \in Nat : x = <<u, i>>
    OBVIOUS
  <2> QED
    BY <2>1
<1> QED
  BY <1>1

(* What a step adds to them: the call of t when it returns without an      *)
(* error, and when it gets past its accesses.                              *)
LEMMA CallsStep ==
    ASSUME DpuType, PlaceInv, AlreadyInv, NEW t \in Tasklets, Step(t), NEW k, NEW o
    PROVE  /\ Returned(k, o)' = Returned(k, o) \union
                (IF at' # at /\ Call(t) = [kind |-> k, on |-> o] /\ ~ShakeAlready(t)
                 THEN {<<t, at[t]>>} ELSE {})
           /\ Started(k, o)' = Started(k, o) \union
                (IF Call(t) = [kind |-> k, on |-> o] /\ Begins(t) THEN {<<t, at[t]>>} ELSE {})
           /\ <<t, at[t]>> \notin Returned(k, o)
           /\ Begins(t) => <<t, at[t]>> \notin Started(k, o)
<1> DEFINE x == <<t, at[t]>>
<1>1. /\ Apart(t) /\ ~Over(t) /\ Moves(t) /\ program' = program
      /\ at \in [Tasklets -> Nat \ {0}] /\ at' \in [Tasklets -> Nat \ {0}]
  BY StepApart, StepShape DEF DpuType, Apart
<1>2. /\ x \notin already
      /\ \A u, i : ~(u = t /\ i = at[t]) => (<<u, i>> \in already' <=> <<u, i>> \in already)
      /\ x \in already' <=> ShakeAlready(t)
  BY FailedStep
<1>3. /\ \A u \in Tasklets : u # t => at'[u] = at[u]
      /\ at' # at => at'[t] = at[t] + 1 /\ pc'[t] = "call"
      /\ at[t] \in Nat \ {0}
  <2>1. pc \in [Tasklets -> Places]
    BY DEF DpuType
  <2>2. at' # at => at' = [at EXCEPT ![t] = @ + 1] /\ pc' = [pc EXCEPT ![t] = "call"]
    BY <1>1 DEF Moves
  <2>3. \A u \in Tasklets : u # t => at'[u] = at[u]
    BY <1>1 DEF Apart
  <2> QED
    BY <1>1, <2>1, <2>2, <2>3
<1>4. /\ Returned(k, o) \subseteq Tasklets \X Nat /\ Started(k, o) \subseteq Tasklets \X Nat
      /\ Returned(k, o)' \subseteq Tasklets \X Nat /\ Started(k, o)' \subseteq Tasklets \X Nat
  BY <1>1, CallSets, CallSetsNext
<1>5. \A u \in Tasklets, i \in Nat :
         /\ <<u, i>> \in Returned(k, o) <=>
               /\ i \in 1..at[u] - 1 /\ <<u, i>> \notin already
               /\ program[u][i] = [kind |-> k, on |-> o]
         /\ <<u, i>> \in Returned(k, o)' <=>
               /\ i \in 1..at'[u] - 1 /\ <<u, i>> \notin already'
               /\ program[u][i] = [kind |-> k, on |-> o]
  <2>1. \A u \in Tasklets, i \in Nat :
           /\ <<u, i>> \in Returned(k, o) <=> Past(u, i, k, o)
           /\ <<u, i>> \in Returned(k, o)' <=> Past(u, i, k, o)'
    BY <1>1, CallSets, CallSetsNext
  <2> QED
    BY <1>1, <2>1 DEF Past
<1>6. \A u \in Tasklets, i \in Nat :
         /\ <<u, i>> \in Started(k, o) <=>
               \/ <<u, i>> \in Returned(k, o)
               \/ i = at[u] /\ In(u, k, o) /\ pc[u] \in Begun
         /\ <<u, i>> \in Started(k, o)' <=>
               \/ <<u, i>> \in Returned(k, o)'
               \/ i = at'[u] /\ In(u, k, o)' /\ pc'[u] \in Begun
  <2>1. \A u \in Tasklets, i \in Nat :
           /\ <<u, i>> \in Started(k, o) <=> <<u, i>> \in Returned(k, o) \/ Waiting(u, i, k, o)
           /\ <<u, i>> \in Started(k, o)' <=> <<u, i>> \in Returned(k, o)' \/ Waiting(u, i, k, o)'
    BY <1>1, CallSets, CallSetsNext
  <2> QED
    BY <2>1 DEF Waiting
<1>7. x \in Tasklets \X Nat
  BY <1>3
<1>8. In(t, k, o) <=> Call(t) = [kind |-> k, on |-> o]
  BY <1>1, CallCases DEF In
<1>9. at' = at => (In(t, k, o)' <=> In(t, k, o))
  BY <1>1, CallKept
<1>10. x \notin Returned(k, o)
  BY <1>3, <1>5
<1>11. ASSUME NEW u \in Tasklets, NEW i \in Nat, ~(u = t /\ i = at[t])
       PROVE  /\ <<u, i>> \in Returned(k, o)' <=> <<u, i>> \in Returned(k, o)
              /\ <<u, i>> \in Started(k, o)' <=> <<u, i>> \in Started(k, o)
  <2>1. CASE u # t
    <3>1. at'[u] = at[u] /\ pc'[u] = pc[u] /\ In(u, k, o)' = In(u, k, o)
      BY <1>1, <2>1, OthersKept DEF Apart
    <3>2. <<u, i>> \in already' <=> <<u, i>> \in already
      BY <1>2, <2>1
    <3> QED
      BY <1>5, <1>6, <3>1, <3>2
  <2>2. CASE u = t
    <3>1. i # at[t] /\ (<<u, i>> \in already' <=> <<u, i>> \in already)
      BY <1>2, <1>11, <2>2
    <3>2. <<u, i>> \in Returned(k, o)' <=> <<u, i>> \in Returned(k, o)
      <4>1. i \in 1..at'[t] - 1 <=> i \in 1..at[t] - 1
        BY <1>3, <3>1
      <4> QED
        BY <1>5, <2>2, <3>1, <4>1
    <3>3. ~(i = at'[u] /\ In(u, k, o)' /\ pc'[u] \in Begun)
      BY <1>3, <2>2, <3>1 DEF Begun
    <3> QED
      BY <1>6, <2>2, <3>1, <3>2, <3>3
  <2> QED
    BY <2>1, <2>2
<1>12. x \in Returned(k, o)' <=> at' # at /\ Call(t) = [kind |-> k, on |-> o] /\ ~ShakeAlready(t)
  <2>1. at[t] \in 1..at'[t] - 1 <=> at' # at
    BY <1>3
  <2>2. program[t][at[t]] = Call(t)
    BY DEF Call
  <2> QED
    BY <1>2, <1>3, <1>5, <2>1, <2>2
<1>13. x \in Started(k, o) <=> In(t, k, o) /\ pc[t] \in Begun
  BY <1>3, <1>6, <1>10
<1>14. x \in Started(k, o)' <=>
          /\ Call(t) = [kind |-> k, on |-> o]
          /\ IF at' = at THEN pc'[t] \in Begun ELSE x \notin already'
  <2>1. CASE at' = at
    BY <1>3, <1>6, <1>8, <1>9, <1>12, <2>1
  <2>2. CASE at' # at
    <3>1. at[t] # at'[t]
      BY <1>3, <2>2
    <3> QED
      BY <1>2, <1>3, <1>6, <1>12, <2>2, <3>1
  <2> QED
    BY <2>1, <2>2
<1>15. pc[t] \in Begun => IF at' = at THEN pc'[t] \in Begun ELSE x \notin already'
  <2>1. CASE Stop(t) \/ Resumed(t) \/ Leave(t)
    <3>1. ~ShakeAlready(t)
      BY <2>1 DEF Stop, Resumed, Leave, ShakeAlready, At
    <3>2. Stop(t) => pc'[t] \in Begun /\ at' = at
      BY DEF Stop, Goto, Begun, DpuType
    <3>3. Resumed(t) \/ Leave(t) => at' # at
      <4>1. Resumed(t) \/ Leave(t) => at'[t] = at[t] + 1
        BY <1>1 DEF Resumed, Leave, Return
      <4> QED
        BY <1>3, <4>1
    <3> QED
      BY <1>2, <2>1, <3>1, <3>2, <3>3
  <2>2. CASE ~(Stop(t) \/ Resumed(t) \/ Leave(t))
    BY <2>2 DEF Begun, At, Step, Acquire, BarrierEnqueue, BarrierAlone, BarrierLast, BarrierWake,
       BarrierLink, BarrierWakeLast, BarrierRearm, SemTake, SemTakeWait, SemGive, SemUnlink,
       SemGiveWake, ShakeFirst, ShakeSecond, ShakeAlready, VmLoad, VmStore, VmDone
  <2> QED
    BY <2>1, <2>2
<1>16. x \in Started(k, o)' <=>
          x \in Started(k, o) \/ (Call(t) = [kind |-> k, on |-> o] /\ Begins(t))
  BY <1>8, <1>13, <1>14, <1>15 DEF Begins
<1>17. Begins(t) => x \notin Started(k, o)
  BY <1>13 DEF Begins
<1> HIDE DEF x
<1>18. \A u \in Tasklets, i \in Nat : <<u, i>> = x <=> u = t /\ i = at[t]
  BY DEF x
<1>19. PICK R : R = Returned(k, o) \union
                     (IF at' # at /\ Call(t) = [kind |-> k, on |-> o] /\ ~ShakeAlready(t) THEN {x} ELSE {})
  OBVIOUS
<1>20. PICK S : S = Started(k, o) \union
                     (IF Call(t) = [kind |-> k, on |-> o] /\ Begins(t) THEN {x} ELSE {})
  OBVIOUS
<1>21. Returned(k, o)' = R
  <2>1. R \subseteq Tasklets \X Nat
    BY <1>4, <1>7, <1>19
  <2>2. \A u \in Tasklets, i \in Nat : <<u, i>> \in Returned(k, o)' <=> <<u, i>> \in R
    BY <1>10, <1>11, <1>12, <1>18, <1>19
  <2> QED
    BY <1>4, <2>1, <2>2, SamePairs
<1>22. Started(k, o)' = S
  <2>1. S \subseteq Tasklets \X Nat
    BY <1>4, <1>7, <1>20
  <2>2. \A u \in Tasklets, i \in Nat : <<u, i>> \in Started(k, o)' <=> <<u, i>> \in S
    BY <1>11, <1>16, <1>18, <1>20
  <2> QED
    BY <1>4, <2>1, <2>2, SamePairs
<1> QED
  BY <1>10, <1>17, <1>19, <1>20, <1>21, <1>22 DEF x

(* What a semaphore whose counter was initialised to i holds, after the    *)
(* calls that got past their accesses, g gives and k takes, w of which     *)
(* wait: the counter c is the number of units left, as far as a byte can   *)
(* hold it; that number is not below the initial value but for the ones    *)
(* that wait; and it is their number, if all the units fit in the byte.    *)
Counted(c, i, g, k, w) ==
    /\ c = Char(i + g - k)
    /\ i >= DPU_NR_THREADS - 128 => i + g - k + w >= (IF i > 0 THEN 0 ELSE i)
    /\ i >= 0 /\ i + g <= 127 /\ w > 0 => i + g - k = -w

SemBalanced(s) ==
    /\ IsFiniteSet(Started("give", s)) /\ IsFiniteSet(Started("take", s))
    /\ Counted(sem[s].count, SemCount[s], Cardinality(Started("give", s)),
               Cardinality(Started("take", s)), Cardinality(Waits("take", s)))

SemBalance == \A s \in Sems : SemBalanced(s)

(* Notifiers and waiters have come in equal numbers, but for the one that  *)
(* is alone.                                                               *)
Alone(n) == IF shake[n] = Empty THEN 0 ELSE IF shake[n] = n THEN -1 ELSE 1

ShakeBalance ==
    \A n \in Tasklets :
       /\ IsFiniteSet(Started("notify", n)) /\ IsFiniteSet(Started("wait_for", n))
       /\ Cardinality(Started("notify", n)) + Alone(n) = Cardinality(Started("wait_for", n))

(* The steps of t that change the counter of s. *)
Takes(t, s) == SemTake(t) /\ Call(t).on = s
Queues(t, s) == SemTakeWait(t) /\ Call(t).on = s
Gives(t, s) == SemGive(t) /\ Call(t).on = s
Hands(t, s) == SemGiveWake(t) /\ Call(t).on = s

(* How they change it, and that they are where the calls get past their    *)
(* accesses to s.                                                          *)
LEMMA SemCounts ==
    ASSUME DpuType, PlaceInv, AlreadyInv, NEW t \in Tasklets, Step(t), NEW s \in Sems
    PROVE  /\ Takes(t, s) => Char(sem[s].count - 1) >= 0
           /\ Queues(t, s) => Char(sem[s].count - 1) < 0
           /\ Takes(t, s) \/ Queues(t, s) => sem'[s].count = Char(sem[s].count - 1)
           /\ Gives(t, s) \/ Hands(t, s) => sem'[s].count = Char(sem[s].count + 1)
           /\ ~(Takes(t, s) \/ Queues(t, s) \/ Gives(t, s) \/ Hands(t, s)) => sem'[s].count = sem[s].count
           /\ Takes(t, s) \/ Queues(t, s) <=> Call(t) = [kind |-> "take", on |-> s] /\ Begins(t)
           /\ Gives(t, s) \/ Hands(t, s) <=> Call(t) = [kind |-> "give", on |-> s] /\ Begins(t)
<1>1. /\ ~Over(t) /\ at \in [Tasklets -> Nat \ {0}] /\ pc \in [Tasklets -> Places]
      /\ at[t] \in Nat /\ sem \in [Sems -> QueueType]
  BY StepShape DEF DpuType, QueueType
<1>2. PlaceIn(pc[t], Call(t).kind) /\ Call(t) = [kind |-> Call(t).kind, on |-> Call(t).on]
  BY <1>1, CallCases DEF PlaceInv, PlaceOf
<1>3. ShakeAlready(t) => Call(t).kind \in {"notify", "wait_for"}
  BY DEF ShakeAlready, InHandshake
<1>4. Return(t) => at' # at /\ pc'[t] = "call"
  <2>1. at' = [at EXCEPT ![t] = @ + 1] => at' # at
    BY <1>1
  <2> QED
    BY <1>1, <2>1 DEF Return
<1>5. <<t, at[t]>> \in already' <=> ShakeAlready(t)
  BY FailedStep
<1>6. CASE SemTake(t)
  <2>1. PICK r, c : r = Call(t).on /\ c = Char(sem[r].count - 1)
    OBVIOUS
  <2>2. /\ Call(t).kind = "take" /\ Begins(t) /\ c >= 0
        /\ sem' = [sem EXCEPT ![r].count = c]
    BY <1>3, <1>4, <1>5, <1>6, <2>1 DEF SemTake, At, Begins, Begun
  <2>3. r \in Sems /\ (sem'[s].count = IF r = s THEN c ELSE sem[s].count)
    BY <1>1, <2>1, <2>2, CallCases DEF QueueType
  <2>4. ~SemTakeWait(t) /\ ~SemGive(t) /\ ~SemGiveWake(t)
    <3>1. c \in Int
      BY <1>1, <2>1, <2>3, CharType DEF QueueType
    <3> QED
      BY <1>6, <2>1, <2>2, <3>1 DEF SemTake, SemTakeWait, SemGive, SemGiveWake, At
  <2> QED
    BY <1>2, <1>6, <2>1, <2>2, <2>3, <2>4 DEF Takes, Queues, Gives, Hands
<1>7. CASE SemTakeWait(t)
  <2>1. PICK r, c : r = Call(t).on /\ c = Char(sem[r].count - 1)
    OBVIOUS
  <2>2. /\ Call(t).kind = "take" /\ Begins(t) /\ c < 0
        /\ sem' = [sem EXCEPT ![r] = [queue |-> t, count |-> c]]
    BY <1>1, <1>7, <2>1 DEF SemTakeWait, At, Goto, Begins, Begun
  <2>3. r \in Sems /\ (sem'[s].count = IF r = s THEN c ELSE sem[s].count)
    BY <1>1, <2>1, <2>2, CallCases DEF QueueType
  <2>4. ~SemTake(t) /\ ~SemGive(t) /\ ~SemGiveWake(t)
    <3>1. c \in Int
      BY <1>1, <2>1, <2>3, CharType DEF QueueType
    <3> QED
      BY <1>7, <2>1, <2>2, <3>1 DEF SemTake, SemTakeWait, SemGive, SemGiveWake, At
  <2> QED
    BY <1>2, <1>7, <2>1, <2>2, <2>3, <2>4 DEF Takes, Queues, Gives, Hands
<1>8. CASE SemGive(t) \/ SemGiveWake(t)
  <2>1. PICK r, c : r = Call(t).on /\ c = Char(sem[r].count + 1)
    OBVIOUS
  <2>2. Call(t).kind = "give" /\ sem' = [sem EXCEPT ![r].count = c]
    BY <1>2, <1>8, <2>1 DEF SemGive, SemGiveWake, At, PlaceIn
  <2>3. Begins(t)
    <3>1. CASE SemGive(t)
      BY <1>3, <1>4, <1>5, <2>2, <3>1 DEF SemGive, At, Begins, Begun
    <3>2. CASE SemGiveWake(t)
      BY <1>1, <3>2 DEF SemGiveWake, At, Goto, Begins, Begun
    <3> QED
      BY <1>8, <3>1, <3>2
  <2>4. r \in Sems /\ (sem'[s].count = IF r = s THEN c ELSE sem[s].count)
    BY <1>1, <2>1, <2>2, CallCases DEF QueueType
  <2>5. ~SemTake(t) /\ ~SemTakeWait(t)
    BY <2>2 DEF SemTake, SemTakeWait
  <2> QED
    BY <1>2, <1>8, <2>1, <2>2, <2>3, <2>4, <2>5 DEF Takes, Queues, Gives, Hands
<1>9. CASE ~(SemTake(t) \/ SemTakeWait(t) \/ SemGive(t) \/ SemGiveWake(t))
  <2>1. sem'[s].count = sem[s].count
    <3>1. CASE SemUnlink(t)
      <4>1. Call(t).kind = "give" /\ (sem' = sem \/ sem' = [sem EXCEPT ![Call(t).on].queue = Empty])
        BY <3>1 DEF SemUnlink
      <4> QED
        BY <1>1, <4>1 DEF QueueType
    <3>2. CASE ~SemUnlink(t)
      BY <1>9, <3>2 DEF Step, Acquire, Stop, Resumed, Leave, BarrierEnqueue, BarrierAlone, BarrierLast,
         BarrierWake, BarrierLink, BarrierWakeLast, BarrierRearm, ShakeFirst, ShakeSecond, ShakeAlready,
         VmLoad, VmStore, VmDone
    <3> QED
      BY <3>1, <3>2
  <2>2. ~(Call(t).kind \in {"take", "give"} /\ Begins(t))
    <3>1. CASE Acquire(t)
      BY <1>1, <3>1 DEF Acquire, Goto, Begins, Begun
    <3>2. CASE Stop(t) \/ Resumed(t) \/ Leave(t)
      BY <3>2 DEF Stop, Resumed, Leave, At, Begins, Begun
    <3>3. CASE SemUnlink(t)
      BY <1>1, <3>3 DEF SemUnlink, Goto, Begins, Begun
    <3>4. CASE ~(Acquire(t) \/ Stop(t) \/ Resumed(t) \/ Leave(t) \/ SemUnlink(t))
      <4>1. Call(t).kind \notin {"take", "give"}
        BY <1>2, <1>9, <3>4 DEF PlaceIn, Waking, At, InHandshake, Step, BarrierEnqueue,
           BarrierAlone, BarrierLast, BarrierWake, BarrierLink, BarrierWakeLast, BarrierRearm,
           ShakeFirst, ShakeSecond, ShakeAlready, VmLoad, VmStore, VmDone
      <4> QED
        BY <4>1
    <3> QED
      BY <3>1, <3>2, <3>3, <3>4
  <2>3. /\ ~(Call(t) = [kind |-> "take", on |-> s] /\ Begins(t))
        /\ ~(Call(t) = [kind |-> "give", on |-> s] /\ Begins(t))
    BY <2>2
  <2> QED
    BY <1>9, <2>1, <2>3 DEF Takes, Queues, Gives, Hands
<1> QED
  BY <1>6, <1>7, <1>8, <1>9

(* How they change the ones that wait for s. *)
LEMMA SemWaits ==
    ASSUME DpuType, PlaceInv, LockInv, ListInv, ShakeInv, NEW t \in Tasklets, Step(t), NEW s \in Sems
    PROVE  /\ Takes(t, s) => t \notin Waits("take", s)
           /\ Queues(t, s) => /\ t \notin Waits("take", s)
                              /\ Waits("take", s)' = Waits("take", s) \union {t}
           /\ Gives(t, s) => Waits("take", s) = {}
           /\ Hands(t, s) => \E v \in Waits("take", s) : Waits("take", s)' = Waits("take", s) \ {v}
           /\ ~(Queues(t, s) \/ Hands(t, s)) => Waits("take", s)' = Waits("take", s)
<1>1. Apart(t) /\ ~Over(t) /\ running[t] /\ pc \in [Tasklets -> Places]
  BY StepApart, StepShape DEF DpuType
<1>2. Takes(t, s) => t \notin Waits("take", s)
  BY <1>1 DEF Takes, SemTake, At, Waits
<1>3. Gives(t, s) => Waits("take", s) = {}
  <2> SUFFICES ASSUME Gives(t, s) PROVE Waits("take", s) = {}
    OBVIOUS
  <2>1. pc[t] = "locked" /\ Call(t).kind = "give" /\ Call(t).on = s /\ sem[s].queue = Empty
    BY DEF Gives, SemGive, At
  <2>2. Giver(s) = {}
    BY <1>1, <2>1, GiverAlone DEF Critical
  <2>3. PICK n, q : SemList(s, n, q)
    BY DEF ListInv, SemInv
  <2>4. Waits("take", s) \ Off(s) = Waits("take", s) /\ Waits("take", s) \subseteq Tasklets
    BY <2>2 DEF Off, Waits
  <2>5. Ring(wq, n, q, Waits("take", s)) /\ Closed(wq, Empty, n, q)
    BY <2>1, <2>3, <2>4 DEF SemList
  <2>6. n = 0
    BY <2>5, DpuSyncAssumption DEF Ring, Closed
  <2> QED
    BY <2>4, <2>5, <2>6 DEF Ring
<1>4. CASE \/ Acquire(t) \/ BarrierAlone(t) \/ ShakeAlready(t) \/ VmLoad(t) \/ VmStore(t) \/ VmDone(t)
           \/ Resumed(t) \/ SemTake(t) \/ SemGive(t) \/ BarrierLast(t) \/ BarrierLink(t)
           \/ BarrierRearm(t) \/ SemUnlink(t) \/ Leave(t)
  <2>1. running' = running /\ pc[t] # "stop" /\ pc'[t] # "stop"
    <3>1. CASE Acquire(t) \/ VmLoad(t) \/ VmStore(t) \/ BarrierLast(t) \/ BarrierLink(t) \/ SemUnlink(t)
      BY <1>1, <3>1 DEF Acquire, VmLoad, VmStore, BarrierLast, BarrierLink, SemUnlink, At, Goto
    <3>2. CASE \/ BarrierAlone(t) \/ ShakeAlready(t) \/ Resumed(t) \/ SemTake(t) \/ SemGive(t)
               \/ BarrierRearm(t) \/ Leave(t)
      BY <1>1, <3>2 DEF BarrierAlone, ShakeAlready, Resumed, Leave, SemTake, SemGive, BarrierRearm, At, Return
    <3>3. CASE VmDone(t)
      BY <1>1, <3>3 DEF VmDone, At, Goto, Return
    <3> QED
      BY <1>4, <3>1, <3>2, <3>3
  <2>2. Waits("take", s)' = Waits("take", s)
    BY <1>1, <2>1, WaitsSame
  <2>3. ~SemTakeWait(t)
    BY <1>1, <2>1 DEF SemTakeWait, Goto
  <2>4. ~SemGiveWake(t)
    <3>1. ASSUME SemGiveWake(t) PROVE FALSE
      <4>1. reg[t].first \in Tasklets /\ ~running[reg[t].first]
        BY <1>1, <3>1, ListsGiveWake DEF SemGiveWake, Resume, Waits
      <4>2. running' = [running EXCEPT ![reg[t].first] = TRUE] /\ running \in [Tasklets -> BOOLEAN]
        BY <3>1 DEF SemGiveWake, Resume, DpuType
      <4> QED
        BY <2>1, <4>1, <4>2
    <3> QED
      BY <3>1
  <2> QED
    BY <1>2, <1>3, <2>2, <2>3, <2>4 DEF Queues, Hands
<1>5. CASE Stop(t)
  <2>1. /\ at' = at /\ pc[t] = "stop" /\ pc'[t] = "stopped" /\ running' = [running EXCEPT ![t] = FALSE]
    BY <1>5 DEF Stop, At, Goto, DpuType
  <2>2. Waits("take", s)' = Waits("take", s)
    BY <1>1, <2>1, QuietSets, AllSame
  <2>3. ~SemTakeWait(t) /\ ~SemGiveWake(t)
    BY <2>1 DEF SemTakeWait, SemGiveWake, At
  <2> QED
    BY <1>2, <1>3, <2>2, <2>3 DEF Queues, Hands
<1>6. CASE BarrierEnqueue(t) \/ SemTakeWait(t) \/ ShakeFirst(t)
  <2>1. /\ running' = running /\ at' = at /\ pc[t] = "locked" /\ pc'[t] = "stop"
    BY <1>6 DEF BarrierEnqueue, SemTakeWait, ShakeFirst, At, Goto, DpuType
  <2>2. Joins(t, Call(t).kind, Call(t).on)
    BY <1>1, <2>1, EnqueueSets DEF In
  <2>3. SemTakeWait(t) <=> Call(t).kind = "take"
    BY <1>6 DEF BarrierEnqueue, SemTakeWait, ShakeFirst, InHandshake
  <2>4. ~SemGiveWake(t)
    BY <2>1 DEF SemGiveWake, At
  <2>5. /\ Queues(t, s) => t \notin Waits("take", s) /\ Waits("take", s)' = Waits("take", s) \union {t}
        /\ ~Queues(t, s) => Waits("take", s)' = Waits("take", s)
    BY <2>2, <2>3 DEF Joins, Queues
  <2> QED
    BY <1>2, <1>3, <2>4, <2>5 DEF Hands
<1>7. CASE BarrierWake(t) \/ BarrierWakeLast(t) \/ SemGiveWake(t) \/ ShakeSecond(t)
  <2>1. PICK v : v = IF pc[t] = "locked" THEN shake[Notifier(t)] ELSE reg[t].first
    OBVIOUS
  <2>2. /\ pc[t] \in Critical /\ pc'[t] \notin {"stop", "stopped"}
        /\ ~running[v] /\ running' = [running EXCEPT ![v] = TRUE]
    BY <1>7, <2>1 DEF BarrierWake, BarrierWakeLast, SemGiveWake, ShakeSecond, At, Goto, Resume, Critical,
       DpuType
  <2>3. v \in Tasklets /\ (Hands(t, s) => v \in Waits("take", s)) /\ (~Hands(t, s) => v \notin Waits("take", s))
    <3>1. CASE BarrierWake(t) \/ BarrierWakeLast(t)
      <4>1. v = reg[t].first /\ ~SemGiveWake(t)
        BY <2>1, <3>1 DEF BarrierWake, BarrierWakeLast, SemGiveWake, At
      <4>2. v \in Waits("barrier", Call(t).on)
        BY <1>1, <3>1, <4>1, ListsWake
      <4> QED
        BY <4>1, <4>2 DEF Hands, Waits, In
    <3>2. CASE SemGiveWake(t)
      <4>1. v = reg[t].first
        BY <2>1, <3>2 DEF SemGiveWake, At
      <4>2. v \in Waits("take", Call(t).on)
        BY <1>1, <3>2, <4>1, ListsGiveWake
      <4> QED
        BY <3>2, <4>1, <4>2 DEF Hands, Waits, In
    <3>3. CASE ShakeSecond(t)
      <4>1. v = shake[Notifier(t)] /\ InHandshake(t) /\ Partner(t) /\ pc[t] = "locked" /\ ~SemGiveWake(t)
        BY <2>1, <3>3 DEF ShakeSecond, SemGiveWake, At
      <4>2. \E k \in {"notify", "wait_for"} : \E o : v \in Waits(k, o)
        BY <1>1, <4>1, PartnerWaits DEF Notifier
      <4> QED
        BY <4>1, <4>2 DEF Hands, Waits, In
    <3> QED
      BY <1>7, <3>1, <3>2, <3>3
  <2>4. Waits("take", s)' = Waits("take", s) \ {v}
    BY <1>1, <2>2, <2>3, WakeSets
  <2>5. ~SemTakeWait(t)
    BY <1>1, <2>2 DEF SemTakeWait, Goto
  <2>6. ~Hands(t, s) => Waits("take", s)' = Waits("take", s)
    BY <2>3, <2>4
  <2> QED
    BY <1>2, <1>3, <2>3, <2>4, <2>5, <2>6 DEF Queues
<1> QED
  BY <1>4, <1>5, <1>6, <1>7 DEF Step

(* One more or one less, in the byte. *)
LEMMA CharAdd ==
    ASSUME NEW x \in Int
    PROVE  Char(Char(x) + 1) = Char(x + 1) /\ Char(Char(x) - 1) = Char(x - 1)
<1>1. PICK y \in Int, r \in 0..255 : x + 128 = 256 * y + r /\ (x + 128) % 256 = r
  <2>1. PICK n \in Int : n = x + 128
    OBVIOUS
  <2>2. n = 256 * (n \div 256) + (n % 256) /\ n % 256 \in 0..255 /\ n \div 256 \in Int
    OBVIOUS
  <2> QED
    BY <2>1, <2>2
<1>2. Char(x) = r - 128
  BY <1>1 DEF Char
<1>3. (r + 1) % 256 = (x + 1 + 128) % 256 /\ (r - 1) % 256 = (x - 1 + 128) % 256
  BY <1>1
<1> QED
  BY <1>2, <1>3 DEF Char

(* A take that gets a unit or waits, a give that finds nobody or a waiter. *)
LEMMA CountedStep ==
    ASSUME NEW i \in -127..127, NEW g \in Nat, NEW k \in Nat, NEW w \in Nat, NEW c,
           Counted(c, i, g, k, w)
    PROVE  /\ w < DPU_NR_THREADS /\ Char(c - 1) >= 0 => Counted(Char(c - 1), i, g, k + 1, w)
           /\ w < DPU_NR_THREADS /\ Char(c - 1) < 0 => Counted(Char(c - 1), i, g, k + 1, w + 1)
           /\ w = 0 => Counted(Char(c + 1), i, g + 1, k, w)
           /\ w > 0 => Counted(Char(c + 1), i, g + 1, k, w - 1)
<1>1. PICK x : x = i + g - k
  OBVIOUS
<1>2. x \in Int /\ c = Char(x) /\ DPU_NR_THREADS = 24
  BY <1>1 DEF Counted, DPU_NR_THREADS
<1>3. Char(c + 1) = Char(x + 1) /\ Char(c - 1) = Char(x - 1)
  BY <1>2, CharAdd
<1>4. /\ i + g - (k + 1) = x - 1 /\ i + (g + 1) - k = x + 1
  BY <1>1
<1>5. /\ i >= -104 => x + w >= (IF i > 0 THEN 0 ELSE i)
      /\ i >= 0 /\ i + g <= 127 /\ w > 0 => x = -w
  BY <1>1, <1>2 DEF Counted
<1>6. Char(x - 1) \in Int /\ (x - 1 \in -128..127 => Char(x - 1) = x - 1) /\ Char(x - 1) \in -128..127
  BY <1>2, CharType
<1>7. ASSUME w < 24, Char(x - 1) >= 0 PROVE Counted(Char(c - 1), i, g, k + 1, w)
  <2>1. i >= -104 => x - 1 >= 0
    BY <1>2, <1>5, <1>6, <1>7
  <2>2. i >= 0 /\ i + g <= 127 /\ w > 0 => FALSE
    BY <1>2, <1>5, <1>6, <1>7
  <2>3. i >= -104 => x - 1 + w >= (IF i > 0 THEN 0 ELSE i)
    BY <1>2, <2>1
  <2> QED
    BY <1>2, <1>3, <1>4, <2>2, <2>3 DEF Counted
<1>8. ASSUME w < 24, Char(x - 1) < 0 PROVE Counted(Char(c - 1), i, g, k + 1, w + 1)
  <2>1. i >= 0 /\ i + g <= 127 => x - 1 = -(w + 1)
    <3>1. CASE w > 0
      BY <1>2, <1>5, <3>1
    <3>2. CASE w = 0
      <4>1. i >= 0 /\ i + g <= 127 => x >= 0 /\ x <= 127
        BY <1>1, <1>2, <1>5, <3>2
      <4> QED
        BY <1>2, <1>6, <1>8, <3>2, <4>1
    <3> QED
      BY <3>1, <3>2
  <2>2. i >= -104 => x - 1 + (w + 1) >= (IF i > 0 THEN 0 ELSE i)
    BY <1>2, <1>5
  <2> QED
    BY <1>2, <1>3, <1>4, <2>1, <2>2 DEF Counted
<1>9. ASSUME w = 0 PROVE Counted(Char(c + 1), i, g + 1, k, w)
  <2>1. i >= -104 => x + 1 + w >= (IF i > 0 THEN 0 ELSE i)
    BY <1>2, <1>5
  <2> QED
    BY <1>2, <1>3, <1>4, <1>9, <2>1 DEF Counted
<1>10. ASSUME w > 0 PROVE Counted(Char(c + 1), i, g + 1, k, w - 1)
  <2>1. i >= -104 => x + 1 + (w - 1) >= (IF i > 0 THEN 0 ELSE i)
    BY <1>2, <1>5
  <2>2. i >= 0 /\ i + (g + 1) <= 127 => x + 1 = -(w - 1)
    BY <1>2, <1>5, <1>10
  <2> QED
    BY <1>2, <1>3, <1>4, <2>1, <2>2 DEF Counted
<1> QED
  BY <1>2, <1>3, <1>7, <1>8, <1>9, <1>10

(* A set of calls after the step. *)
LEMMA AddCall ==
    ASSUME NEW A, IsFiniteSet(A), NEW x, NEW add \in BOOLEAN, add => x \notin A, NEW B,
           B = A \union (IF add THEN {x} ELSE {})
    PROVE  /\ IsFiniteSet(B) /\ Cardinality(A) \in Nat
           /\ Cardinality(B) = Cardinality(A) + (IF add THEN 1 ELSE 0)
<1>1. Cardinality(A) \in Nat
  BY FS_CardinalityType
<1>2. CASE add
  BY <1>1, <1>2, FS_AddElement
<1>3. CASE ~add
  <2>1. B = A
    BY <1>3
  <2> QED
    BY <1>1, <1>3, <2>1
<1> QED
  BY <1>2, <1>3

(* The ones that wait are tasklets, and there are at most 24 of those. *)
LEMMA FewWait ==
    ASSUME NEW W \in SUBSET Tasklets
    PROVE  /\ IsFiniteSet(W) /\ Cardinality(W) \in Nat /\ Cardinality(W) <= DPU_NR_THREADS
           /\ Cardinality(W) = 0 <=> W = {}
           /\ \A t \in Tasklets : t \notin W =>
                 Cardinality(W) < DPU_NR_THREADS /\ Cardinality(W \union {t}) = Cardinality(W) + 1
           /\ \A v \in W : Cardinality(W) > 0 /\ Cardinality(W \ {v}) = Cardinality(W) - 1
<1>1. /\ IsFiniteSet(Tasklets) /\ Cardinality(Tasklets) <= DPU_NR_THREADS
      /\ Cardinality(Tasklets) \in Nat /\ DPU_NR_THREADS = 24
  BY DpuSyncAssumption, FS_CardinalityType DEF DPU_NR_THREADS
<1>2. \A A \in SUBSET Tasklets : /\ IsFiniteSet(A) /\ Cardinality(A) \in Nat
                                 /\ Cardinality(A) <= DPU_NR_THREADS
  BY <1>1, FS_Subset, FS_CardinalityType
<1>3. Cardinality(W) = 0 <=> W = {}
  BY <1>2, FS_EmptySet
<1>4. ASSUME NEW t \in Tasklets, t \notin W
      PROVE  Cardinality(W) < DPU_NR_THREADS /\ Cardinality(W \union {t}) = Cardinality(W) + 1
  <2>1. Cardinality(W \union {t}) = Cardinality(W) + 1
    BY <1>2, <1>4, FS_AddElement
  <2>2. Cardinality(W \union {t}) <= DPU_NR_THREADS
    BY <1>2
  <2> QED
    BY <1>1, <1>2, <2>1, <2>2
<1>5. ASSUME NEW v \in W
      PROVE  Cardinality(W) > 0 /\ Cardinality(W \ {v}) = Cardinality(W) - 1
  <2>1. Cardinality(W \ {v}) = Cardinality(W) - 1
    BY <1>2, FS_RemoveElement
  <2> QED
    BY <1>2, <1>3, <2>1
<1> QED
  BY <1>2, <1>3, <1>4, <1>5

(* A unit is counted when it is taken or given. *)
LEMMA SemBalanceStep ==
    ASSUME DpuType, PlaceInv, LockInv, ListInv, ShakeInv, AlreadyInv, SemBalance,
           NEW t \in Tasklets, Step(t)
    PROVE  SemBalance'
<1> SUFFICES ASSUME NEW s \in Sems PROVE SemBalanced(s)'
  BY DEF SemBalance
<1>1. PICK x, take, give :
         /\ x = <<t, at[t]>>
         /\ take = (Call(t) = [kind |-> "take", on |-> s] /\ Begins(t))
         /\ give = (Call(t) = [kind |-> "give", on |-> s] /\ Begins(t))
  OBVIOUS
<1>2. take \in BOOLEAN /\ give \in BOOLEAN
  BY <1>1
<1>3. PICK G, K, W, H, L, V, c, d, i :
         /\ G = Started("give", s) /\ K = Started("take", s) /\ W = Waits("take", s)
         /\ H = Started("give", s)' /\ L = Started("take", s)' /\ V = Waits("take", s)'
         /\ c = sem[s].count /\ d = sem'[s].count /\ i = SemCount[s]
  OBVIOUS
<1>4. /\ IsFiniteSet(G) /\ IsFiniteSet(K) /\ Counted(c, i, Cardinality(G), Cardinality(K), Cardinality(W))
  BY <1>3 DEF SemBalance, SemBalanced
<1>5. H = G \union (IF give THEN {x} ELSE {}) /\ (give => x \notin G)
  <2>1. /\ Started("give", s)' = Started("give", s)
             \union (IF Call(t) = [kind |-> "give", on |-> s] /\ Begins(t) THEN {<<t, at[t]>>} ELSE {})
        /\ Call(t) = [kind |-> "give", on |-> s] /\ Begins(t) => <<t, at[t]>> \notin Started("give", s)
    BY CallsStep
  <2> QED
    BY <1>1, <1>3, <2>1
<1>6. L = K \union (IF take THEN {x} ELSE {}) /\ (take => x \notin K)
  <2>1. /\ Started("take", s)' = Started("take", s)
             \union (IF Call(t) = [kind |-> "take", on |-> s] /\ Begins(t) THEN {<<t, at[t]>>} ELSE {})
        /\ Call(t) = [kind |-> "take", on |-> s] /\ Begins(t) => <<t, at[t]>> \notin Started("take", s)
    BY CallsStep
  <2> QED
    BY <1>1, <1>3, <2>1
<1>7. /\ IsFiniteSet(H) /\ Cardinality(G) \in Nat
      /\ Cardinality(H) = Cardinality(G) + (IF give THEN 1 ELSE 0)
  BY <1>2, <1>4, <1>5, AddCall
<1>8. /\ IsFiniteSet(L) /\ Cardinality(K) \in Nat
      /\ Cardinality(L) = Cardinality(K) + (IF take THEN 1 ELSE 0)
  BY <1>2, <1>4, <1>6, AddCall
<1>9. W \in SUBSET Tasklets /\ i \in -127..127
  BY <1>3, DpuSyncAssumption DEF Waits
<1>10. /\ take <=> Takes(t, s) \/ Queues(t, s)
       /\ give <=> Gives(t, s) \/ Hands(t, s)
       /\ Takes(t, s) => Char(c - 1) >= 0
       /\ Queues(t, s) => Char(c - 1) < 0
       /\ take => d = Char(c - 1)
       /\ give => d = Char(c + 1)
       /\ ~take /\ ~give => d = c
       /\ ~(take /\ give)
  <2>1. /\ Takes(t, s) => Char(c - 1) >= 0
        /\ Queues(t, s) => Char(c - 1) < 0
        /\ Takes(t, s) \/ Queues(t, s) => d = Char(c - 1)
        /\ Gives(t, s) \/ Hands(t, s) => d = Char(c + 1)
        /\ ~(Takes(t, s) \/ Queues(t, s) \/ Gives(t, s) \/ Hands(t, s)) => d = c
    BY <1>3, SemCounts
  <2>2. take <=> Takes(t, s) \/ Queues(t, s)
    BY <1>1, SemCounts
  <2>3. give <=> Gives(t, s) \/ Hands(t, s)
    BY <1>1, SemCounts
  <2>4. ~(take /\ give)
    <3>1. [kind |-> "take", on |-> s] # [kind |-> "give", on |-> s]
      OBVIOUS
    <3> QED
      BY <1>1, <3>1
  <2> QED
    BY <2>1, <2>2, <2>3, <2>4
<1>11. /\ Takes(t, s) => t \notin W
       /\ Queues(t, s) => t \notin W /\ V = W \union {t}
       /\ Gives(t, s) => W = {}
       /\ Hands(t, s) => \E v \in W : V = W \ {v}
       /\ ~(Queues(t, s) \/ Hands(t, s)) => V = W
  BY <1>3, SemWaits
<1>12. PICK g, k, w : g = Cardinality(G) /\ k = Cardinality(K) /\ w = Cardinality(W)
  OBVIOUS
<1>13. g \in Nat /\ k \in Nat /\ w \in Nat /\ Counted(c, i, g, k, w)
  BY <1>4, <1>7, <1>8, <1>9, <1>12, FewWait
<1>14. Counted(d, i, Cardinality(H), Cardinality(L), Cardinality(V))
  <2>1. CASE take
    <3>1. Cardinality(H) = g /\ Cardinality(L) = k + 1 /\ d = Char(c - 1) /\ ~give
      BY <1>7, <1>8, <1>10, <1>12, <2>1
    <3>2. CASE Queues(t, s)
      <4>1. Char(c - 1) < 0 /\ w < DPU_NR_THREADS /\ Cardinality(V) = w + 1
        BY <1>9, <1>10, <1>11, <1>12, <3>2, FewWait
      <4>2. Counted(Char(c - 1), i, g, k + 1, w + 1)
        BY <1>9, <1>13, <4>1, CountedStep
      <4> QED
        BY <3>1, <4>1, <4>2
    <3>3. CASE Takes(t, s) /\ ~Queues(t, s)
      <4>1. ~Hands(t, s)
        BY <1>10, <3>1
      <4>2. Char(c - 1) >= 0 /\ w < DPU_NR_THREADS /\ Cardinality(V) = w
        BY <1>9, <1>10, <1>11, <1>12, <3>3, <4>1, FewWait
      <4>3. Counted(Char(c - 1), i, g, k + 1, w)
        BY <1>9, <1>13, <4>2, CountedStep
      <4> QED
        BY <3>1, <4>2, <4>3
    <3> QED
      BY <1>10, <2>1, <3>2, <3>3
  <2>2. CASE give
    <3>1. Cardinality(H) = g + 1 /\ Cardinality(L) = k /\ d = Char(c + 1) /\ ~take
      BY <1>7, <1>8, <1>10, <1>12, <2>2
    <3>2. CASE Hands(t, s)
      <4>1. w > 0 /\ Cardinality(V) = w - 1
        BY <1>9, <1>11, <1>12, <3>2, FewWait
      <4>2. Counted(Char(c + 1), i, g + 1, k, w - 1)
        BY <1>9, <1>13, <4>1, CountedStep
      <4> QED
        BY <3>1, <4>1, <4>2
    <3>3. CASE Gives(t, s) /\ ~Hands(t, s)
      <4>1. ~Queues(t, s)
        BY <1>10, <3>1
      <4>2. w = 0 /\ Cardinality(V) = w
        BY <1>9, <1>11, <1>12, <3>3, <4>1, FewWait
      <4>3. Counted(Char(c + 1), i, g + 1, k, w)
        BY <1>9, <1>13, <4>2, CountedStep
      <4> QED
        BY <3>1, <4>2, <4>3
    <3> QED
      BY <1>10, <2>2, <3>2, <3>3
  <2>3. CASE ~take /\ ~give
    <3>1. Cardinality(H) = g /\ Cardinality(L) = k /\ d = c /\ V = W
      BY <1>7, <1>8, <1>10, <1>11, <1>12, <2>3
    <3> QED
      BY <1>12, <1>13, <3>1
  <2> QED
    BY <1>2, <2>1, <2>2, <2>3
<1> QED
  BY <1>3, <1>7, <1>8, <1>14 DEF SemBalanced

(* How a step changes the entry of a notifier. *)
LEMMA ShakeCounts ==
    ASSUME DpuType, PlaceInv, AlreadyInv, ShakeInv, NEW t \in Tasklets, Step(t), NEW n \in Tasklets
    PROVE  Alone(n)' = Alone(n)
              - (IF Call(t) = [kind |-> "notify", on |-> n] /\ Begins(t) THEN 1 ELSE 0)
              + (IF Call(t) = [kind |-> "wait_for", on |-> n] /\ Begins(t) THEN 1 ELSE 0)
<1>1. /\ ~Over(t) /\ running[t] /\ at \in [Tasklets -> Nat \ {0}] /\ pc \in [Tasklets -> Places]
      /\ at[t] \in Nat /\ shake \in [Tasklets -> Nobody]
  BY StepShape DEF DpuType
<1>2. PlaceIn(pc[t], Call(t).kind) /\ Call(t) = [kind |-> Call(t).kind, on |-> Call(t).on]
  BY <1>1, CallCases DEF PlaceInv, PlaceOf
<1>3. Return(t) => at' # at
  <2>1. at' = [at EXCEPT ![t] = @ + 1] => at' # at
    BY <1>1
  <2> QED
    BY <2>1 DEF Return
<1>4. <<t, at[t]>> \in already' <=> ShakeAlready(t)
  BY FailedStep
<1>5. Alone(n) \in Int
  BY DEF Alone
<1>6. CASE ShakeFirst(t) \/ ShakeSecond(t)
  <2>1. InHandshake(t) /\ pc[t] = "locked"
    BY <1>6 DEF ShakeFirst, ShakeSecond, At
  <2>2. /\ Notifier(t) = Call(t).on /\ Call(t).on \in Tasklets
        /\ Call(t).kind = "notify" => Call(t).on = t
        /\ Call(t).kind = "wait_for" => Call(t).on # t
        /\ Call(t).kind \in {"notify", "wait_for"}
    BY <1>1, <2>1, CallCases DEF Notifier, InHandshake
  <2>3. Begins(t)
    <3>1. CASE ShakeFirst(t)
      BY <1>1, <3>1 DEF ShakeFirst, At, Goto, Begins, Begun
    <3>2. CASE ShakeSecond(t)
      BY <1>1, <3>2 DEF ShakeSecond, At, Goto, Begins, Begun
    <3> QED
      BY <1>6, <3>1, <3>2
  <2>4. CASE n # Call(t).on
    <3>1. shake'[n] = shake[n]
      BY <1>1, <1>6, <2>2, <2>4 DEF ShakeFirst, ShakeSecond
    <3>2. Alone(n)' = Alone(n)
      BY <3>1 DEF Alone
    <3>3. Call(t) # [kind |-> "notify", on |-> n] /\ Call(t) # [kind |-> "wait_for", on |-> n]
      BY <2>4
    <3> QED
      BY <1>5, <3>2, <3>3
  <2>5. CASE n = Call(t).on
    <3>1. /\ Call(t) = [kind |-> "notify", on |-> n] <=> Call(t).kind = "notify"
          /\ Call(t) = [kind |-> "wait_for", on |-> n] <=> Call(t).kind = "wait_for"
      BY <1>2, <2>5
    <3>2. CASE ShakeFirst(t)
      <4>1. shake[n] = Empty /\ shake'[n] = t
        BY <1>1, <2>2, <2>5, <3>2 DEF ShakeFirst
      <4>2. t # Empty
        BY DpuSyncAssumption
      <4>3. Alone(n) = 0 /\ Alone(n)' = IF Call(t).kind = "notify" THEN -1 ELSE 1
        BY <2>2, <2>5, <4>1, <4>2 DEF Alone
      <4> QED
        BY <2>2, <2>3, <3>1, <4>3
    <3>3. CASE ShakeSecond(t)
      <4>1. Partner(t) /\ shake'[n] = Empty
        BY <1>1, <2>2, <2>5, <3>3 DEF ShakeSecond
      <4>2. /\ shake[n] \in Tasklets \ {t}
            /\ Call(t).kind = "wait_for" => shake[n] = n
        BY <1>1, <2>1, <2>2, <2>5, <4>1, PartnerWaits
      <4>3. Alone(n)' = 0 /\ Alone(n) = IF Call(t).kind = "notify" THEN 1 ELSE -1
        BY <2>2, <2>5, <4>1, <4>2, DpuSyncAssumption DEF Alone
      <4> QED
        BY <2>2, <2>3, <3>1, <4>3
    <3> QED
      BY <1>6, <3>2, <3>3
  <2> QED
    BY <2>4, <2>5
<1>7. CASE ~(ShakeFirst(t) \/ ShakeSecond(t))
  <2>1. shake' = shake
    BY <1>7 DEF Step, Acquire, Stop, Resumed, Leave, BarrierEnqueue, BarrierAlone, BarrierLast,
       BarrierWake, BarrierLink, BarrierWakeLast, BarrierRearm, SemTake, SemTakeWait, SemGive,
       SemUnlink, SemGiveWake, ShakeAlready, VmLoad, VmStore, VmDone
  <2>2. ~(Call(t).kind \in {"notify", "wait_for"} /\ Begins(t))
    <3>1. CASE Acquire(t)
      BY <1>1, <3>1 DEF Acquire, Goto, Begins, Begun
    <3>2. CASE Stop(t) \/ Resumed(t) \/ Leave(t)
      BY <3>2 DEF Stop, Resumed, Leave, At, Begins, Begun
    <3>3. CASE ShakeAlready(t)
      BY <1>3, <1>4, <3>3 DEF ShakeAlready, Begins
    <3>4. CASE ~(Acquire(t) \/ Stop(t) \/ Resumed(t) \/ Leave(t) \/ ShakeAlready(t))
      <4>1. Call(t).kind \notin {"notify", "wait_for"}
        BY <1>2, <1>7, <3>4 DEF PlaceIn, Waking, At, Step, BarrierEnqueue, BarrierAlone,
           BarrierLast, BarrierWake, BarrierLink, BarrierWakeLast, BarrierRearm, SemTake, SemTakeWait,
           SemGive, SemUnlink, SemGiveWake, VmLoad, VmStore, VmDone
      <4> QED
        BY <4>1
    <3> QED
      BY <3>1, <3>2, <3>3, <3>4
  <2>3. /\ ~(Call(t) = [kind |-> "notify", on |-> n] /\ Begins(t))
        /\ ~(Call(t) = [kind |-> "wait_for", on |-> n] /\ Begins(t))
    BY <2>2
  <2>4. Alone(n)' = Alone(n)
    BY <2>1 DEF Alone
  <2> QED
    BY <1>5, <2>3, <2>4
<1> QED
  BY <1>6, <1>7

(* The two of a handshake are counted when they come. *)
LEMMA ShakeBalanceStep ==
    ASSUME DpuType, PlaceInv, AlreadyInv, ShakeInv, ShakeBalance, NEW t \in Tasklets, Step(t)
    PROVE  ShakeBalance'
<1> SUFFICES ASSUME NEW n \in Tasklets
             PROVE  /\ IsFiniteSet(Started("notify", n)') /\ IsFiniteSet(Started("wait_for", n)')
                    /\ Cardinality(Started("notify", n)') + Alone(n)' = Cardinality(Started("wait_for", n)')
  BY DEF ShakeBalance
<1>1. PICK x, isn, isw :
         /\ x = <<t, at[t]>>
         /\ isn = (Call(t) = [kind |-> "notify", on |-> n] /\ Begins(t))
         /\ isw = (Call(t) = [kind |-> "wait_for", on |-> n] /\ Begins(t))
  OBVIOUS
<1>2. isn \in BOOLEAN /\ isw \in BOOLEAN
  BY <1>1
<1>3. /\ IsFiniteSet(Started("notify", n)) /\ IsFiniteSet(Started("wait_for", n))
      /\ Cardinality(Started("notify", n)) + Alone(n) = Cardinality(Started("wait_for", n))
  BY DEF ShakeBalance
<1>4. Alone(n)' = Alone(n) - (IF isn THEN 1 ELSE 0) + (IF isw THEN 1 ELSE 0)
  BY <1>1, ShakeCounts
<1>5. /\ Started("notify", n)' = Started("notify", n) \union (IF isn THEN {x} ELSE {})
      /\ isn => x \notin Started("notify", n)
  <2>1. /\ Started("notify", n)' = Started("notify", n) \union
              (IF Call(t) = [kind |-> "notify", on |-> n] /\ Begins(t) THEN {<<t, at[t]>>} ELSE {})
        /\ Begins(t) => <<t, at[t]>> \notin Started("notify", n)
    BY CallsStep
  <2> QED
    BY <1>1, <2>1
<1>6. /\ Started("wait_for", n)' = Started("wait_for", n) \union (IF isw THEN {x} ELSE {})
      /\ isw => x \notin Started("wait_for", n)
  <2>1. /\ Started("wait_for", n)' = Started("wait_for", n) \union
              (IF Call(t) = [kind |-> "wait_for", on |-> n] /\ Begins(t) THEN {<<t, at[t]>>} ELSE {})
        /\ Begins(t) => <<t, at[t]>> \notin Started("wait_for", n)
    BY CallsStep
  <2> QED
    BY <1>1, <2>1
<1>7. /\ IsFiniteSet(Started("notify", n)') /\ Cardinality(Started("notify", n)) \in Nat
      /\ Cardinality(Started("notify", n)') = Cardinality(Started("notify", n)) + (IF isn THEN 1 ELSE 0)
  <2>1. PICK A, B : A = Started("notify", n) /\ B = Started("notify", n)'
    OBVIOUS
  <2>2. IsFiniteSet(B) /\ Cardinality(A) \in Nat /\ Cardinality(B) = Cardinality(A) + (IF isn THEN 1 ELSE 0)
    BY <1>2, <1>3, <1>5, <2>1, AddCall
  <2> QED
    BY <2>1, <2>2
<1>8. /\ IsFiniteSet(Started("wait_for", n)') /\ Cardinality(Started("wait_for", n)) \in Nat
      /\ Cardinality(Started("wait_for", n)') = Cardinality(Started("wait_for", n)) + (IF isw THEN 1 ELSE 0)
  <2>1. PICK A, B : A = Started("wait_for", n) /\ B = Started("wait_for", n)'
    OBVIOUS
  <2>2. IsFiniteSet(B) /\ Cardinality(A) \in Nat /\ Cardinality(B) = Cardinality(A) + (IF isw THEN 1 ELSE 0)
    BY <1>2, <1>3, <1>6, <2>1, AddCall
  <2> QED
    BY <2>1, <2>2
<1>9. Alone(n) \in Int
  BY DEF Alone
<1> QED
  BY <1>3, <1>4, <1>7, <1>8, <1>9

(* The ones that wait have not returned. *)
LEMMA WaitersCount ==
    ASSUME DpuType, PlaceInv, NEW k, NEW o, IsFiniteSet(Started(k, o)), NEW W \in SUBSET Waits(k, o)
    PROVE  /\ Cardinality(Returned(k, o)) \in Nat /\ Cardinality(Started(k, o)) \in Nat
           /\ IsFiniteSet(W) /\ Cardinality(W) \in Nat
           /\ Cardinality(Returned(k, o)) + Cardinality(W) <= Cardinality(Started(k, o))
<1>1. PICK R, S, D : R = Returned(k, o) /\ S = Started(k, o) /\ D = S \ R
  OBVIOUS
<1>2. R \subseteq S
  BY <1>1 DEF Started
<1>3. IsFiniteSet(R) /\ IsFiniteSet(S) /\ IsFiniteSet(D)
  BY <1>1, <1>2, FS_Subset, FS_Difference
<1>4. Cardinality(D) = Cardinality(S) - Cardinality(R)
  <2>1. S \cap R = R
    BY <1>2
  <2> QED
    BY <1>1, <1>3, <2>1, FS_Difference
<1>5. PICK f : f = [u \in W |-> <<u, at[u]>>]
  OBVIOUS
<1>6. ASSUME NEW u \in W PROVE <<u, at[u]>> \in D
  <2>1. u \in Tasklets /\ In(u, k, o) /\ pc[u] \in Begun
    BY DEF Waits, Begun, PlaceInv, PlaceOf
  <2>2. at \in [Tasklets -> Nat \ {0}] /\ at[u] \in Nat
    BY <2>1 DEF DpuType
  <2>3. <<u, at[u]>> \in Started(k, o)
    BY <2>1, <2>2, CallSets DEF Waiting
  <2>4. ~Past(u, at[u], k, o)
    BY <2>2 DEF Past
  <2>5. <<u, at[u]>> \notin Returned(k, o)
    BY <2>1, <2>2, <2>4, CallSets
  <2> QED
    BY <1>1, <2>3, <2>5
<1>7. f \in Injection(W, D)
  BY <1>5, <1>6 DEF Injection, IsInjective
<1>8. IsFiniteSet(W) /\ Cardinality(W) <= Cardinality(D)
  BY <1>3, <1>7, FS_Injection
<1>9. Cardinality(W) \in Nat /\ Cardinality(D) \in Nat /\ Cardinality(R) \in Nat /\ Cardinality(S) \in Nat
  BY <1>3, <1>8, FS_CardinalityType
<1> QED
  BY <1>1, <1>4, <1>8, <1>9

(* The counters keep in step with the calls. *)
THEOREM Counting == Spec => [](SemBalance /\ ShakeBalance)
<1>1. Init => SemBalance /\ ShakeBalance
  <2> SUFFICES ASSUME Init PROVE SemBalance /\ ShakeBalance
    OBVIOUS
  <2>1. /\ \A u \in Tasklets : at[u] = 1 /\ pc[u] = "call" /\ running[u]
        /\ \A s \in Sems : sem[s].count = SemCount[s]
        /\ \A n \in Tasklets : shake[n] = Empty
    BY DEF Init
  <2>2. \A k, o : Returned(k, o) = {}
    <3>1. \A u \in Tasklets : \A k, o : ReturnedOf(u, k, o) = {}
      BY <2>1 DEF ReturnedOf
    <3>2. \A u \in Tasklets : \A k, o : {u} \X ReturnedOf(u, k, o) = {}
      BY <3>1
    <3> QED
      BY <3>2 DEF Returned
  <2>3. \A k, o : Started(k, o) = {}
    BY <2>1, <2>2 DEF Started
  <2>4. \A s \in Sems : SemCount[s] \in -127..127
    BY DpuSyncAssumption
  <2>5. IsFiniteSet({}) /\ Cardinality({}) = 0
    BY FS_EmptySet
  <2>6. SemBalance
    <3>1. ASSUME NEW s \in Sems PROVE SemBalanced(s)
      <4>1. /\ sem[s].count = SemCount[s] /\ Started("give", s) = {} /\ Started("take", s) = {}
        BY <2>1, <2>3
      <4>2. Waits("take", s) = {}
        BY <2>1 DEF Waits
      <4>3. Counted(SemCount[s], SemCount[s], 0, 0, 0)
        <5>1. PICK i \in -127..127 : i = SemCount[s]
          BY <2>4
        <5>2. Char(i) = i /\ i + 0 - 0 = i
          BY CharType
        <5> QED
          BY <5>1, <5>2 DEF Counted
      <4> QED
        BY <2>5, <4>1, <4>2, <4>3 DEF SemBalanced
    <3> QED
      BY <3>1 DEF SemBalance
  <2>7. ShakeBalance
    <3>1. ASSUME NEW n \in Tasklets
          PROVE  Alone(n) = 0 /\ Started("notify", n) = {} /\ Started("wait_for", n) = {}
      BY <2>1, <2>3 DEF Alone
    <3> QED
      BY <2>5, <3>1 DEF ShakeBalance
  <2> QED
    BY <2>6, <2>7
<1>2. IInv /\ SemBalance /\ ShakeBalance /\ [Next]_vars => (SemBalance /\ ShakeBalance)'
  <2> SUFFICES ASSUME IInv, SemBalance, ShakeBalance, [Next]_vars PROVE SemBalance' /\ ShakeBalance'
    OBVIOUS
  <2>1. CASE UNCHANGED vars
    <3>1. /\ program' = program /\ at' = at /\ pc' = pc /\ already' = already
          /\ sem' = sem /\ shake' = shake /\ running' = running
      BY <2>1 DEF vars
    <3>2. \A u, k, o : In(u, k, o)' = In(u, k, o) /\ ReturnedOf(u, k, o)' = ReturnedOf(u, k, o)
      BY <3>1, CallKept DEF ReturnedOf
    <3>3. \A k, o : Returned(k, o)' = Returned(k, o)
      BY <3>2 DEF Returned
    <3>4. \A k, o : Started(k, o)' = Started(k, o)
      BY <3>1, <3>2, <3>3 DEF Started
    <3>5. \A k, o : Waits(k, o)' = Waits(k, o)
      BY <3>1, <3>2 DEF Waits
    <3>6. SemBalance'
      BY <3>1, <3>4, <3>5 DEF SemBalance, SemBalanced
    <3>7. ShakeBalance'
      BY <3>1, <3>4 DEF ShakeBalance, Alone
    <3> QED
      BY <3>6, <3>7
  <2>2. ASSUME NEW t \in Tasklets, Step(t) PROVE SemBalance' /\ ShakeBalance'
    BY <2>2, SemBalanceStep, ShakeBalanceStep DEF IInv, ListInv
  <2> QED
    BY <2>1, <2>2 DEF Next
<1> QED
  BY Inductive, <1>1, <1>2, PTL DEF Spec

(* sem_take and sem_give: no more takes return than there are units, from  *)
(* the initial value and the gives that counted or resumed a taker, though *)
(* the counter is one byte that the gives may take over 127.               *)
THEOREM UnitsBounded == Spec => []SemUnits
<1>1. IInv /\ SemBalance => SemUnits
  <2> SUFFICES ASSUME IInv, SemBalance, NEW s \in Sems, SemCount[s] >= DPU_NR_THREADS - 128
               PROVE  Cardinality(Returned("take", s)) <= InitialUnits(s) + Cardinality(Started("give", s))
    BY DEF SemUnits
  <2>1. DpuType /\ PlaceInv
    BY DEF IInv
  <2>2. PICK i, g, k, w : /\ i = SemCount[s] /\ g = Cardinality(Started("give", s))
                          /\ k = Cardinality(Started("take", s)) /\ w = Cardinality(Waits("take", s))
    OBVIOUS
  <2>3. /\ IsFiniteSet(Started("take", s)) /\ IsFiniteSet(Started("give", s))
        /\ i + g - k + w >= (IF i > 0 THEN 0 ELSE i)
    BY <2>2 DEF SemBalance, SemBalanced, Counted
  <2>4. PICK r : r = Cardinality(Returned("take", s))
    OBVIOUS
  <2>5. r \in Nat /\ k \in Nat /\ w \in Nat /\ r + w <= k
    BY <2>1, <2>2, <2>3, <2>4, WaitersCount
  <2>6. g \in Nat /\ i \in Int
    BY <2>2, <2>3, FS_CardinalityType, DpuSyncAssumption
  <2>7. r <= (IF i > 0 THEN i ELSE 0) + g
    BY <2>3, <2>5, <2>6
  <2> QED
    BY <2>2, <2>4, <2>7 DEF InitialUnits
<1> QED
  BY Inductive, Counting, <1>1, PTL

(* handshake_notify and handshake_wait_for: a notify returns only if a     *)
(* waiter came for it, and a wait only if the notifier came.               *)
THEOREM HandshakesPair == Spec => []HandshakePaired
<1>1. IInv /\ ShakeBalance => HandshakePaired
  <2> SUFFICES ASSUME IInv, ShakeBalance, NEW n \in Tasklets
               PROVE  /\ Cardinality(Returned("notify", n)) <= Cardinality(Started("wait_for", n))
                      /\ Cardinality(Returned("wait_for", n)) <= Cardinality(Started("notify", n))
    BY DEF HandshakePaired
  <2>1. DpuType /\ PlaceInv /\ ShakeInv
    BY DEF IInv
  <2>2. /\ IsFiniteSet(Started("notify", n)) /\ IsFiniteSet(Started("wait_for", n))
        /\ Cardinality(Started("notify", n)) + Alone(n) = Cardinality(Started("wait_for", n))
    BY DEF ShakeBalance
  <2>3. shake[n] \in Nobody /\ Empty \notin Tasklets
    BY <2>1, DpuSyncAssumption DEF DpuType
  <2>4. PICK N, W : /\ N = IF shake[n] = n THEN {n} ELSE {}
                    /\ W = IF shake[n] \in Tasklets \ {n} THEN {shake[n]} ELSE {}
    OBVIOUS
  <2>5. N \in SUBSET Waits("notify", n) /\ W \in SUBSET Waits("wait_for", n)
    BY <2>1, <2>4 DEF ShakeInv
  <2>6. Alone(n) = Cardinality(W) - Cardinality(N) /\ Cardinality(W) \in {0, 1} /\ Cardinality(N) \in {0, 1}
    <3>1. CASE shake[n] = Empty
      BY <2>3, <2>4, <3>1, FS_EmptySet DEF Alone
    <3>2. CASE shake[n] = n
      <4>1. N = {n} /\ W = {} /\ Alone(n) = -1
        BY <2>3, <2>4, <3>2 DEF Alone
      <4>2. Cardinality(N) = 1 /\ Cardinality(W) = 0
        BY <4>1, FS_EmptySet, FS_Singleton
      <4> QED
        BY <4>1, <4>2
    <3>3. CASE shake[n] \in Tasklets \ {n}
      <4>1. N = {} /\ W = {shake[n]} /\ Alone(n) = 1
        BY <2>3, <2>4, <3>3 DEF Alone
      <4>2. Cardinality(N) = 0 /\ Cardinality(W) = 1
        BY <4>1, FS_EmptySet, FS_Singleton
      <4> QED
        BY <4>1, <4>2
    <3> QED
      BY <2>3, <3>1, <3>2, <3>3 DEF Nobody
  <2>7. /\ Cardinality(Returned("notify", n)) \in Nat /\ Cardinality(Started("notify", n)) \in Nat
        /\ Cardinality(Returned("notify", n)) + Cardinality(N) <= Cardinality(Started("notify", n))
    BY <2>1, <2>2, <2>5, WaitersCount
  <2>8. /\ Cardinality(Returned("wait_for", n)) \in Nat /\ Cardinality(Started("wait_for", n)) \in Nat
        /\ Cardinality(Returned("wait_for", n)) + Cardinality(W) <= Cardinality(Started("wait_for", n))
    BY <2>1, <2>2, <2>5, WaitersCount
  <2> QED
    BY <2>2, <2>6, <2>7, <2>8
<1> QED
  BY Inductive, Counting, <1>1, PTL

-----------------------------------------------------------------------------
(***************************************************************************)
(* The lists while the lock is free.                                       *)
(***************************************************************************)

(* A set of numbers has a least one. *)
LEMMA Least ==
    ASSUME NEW M \in SUBSET Nat, M # {}
    PROVE  \E m \in M : \A k \in M : m <= k
<1>1. IsWellFoundedOn(OpToRel(<, Nat), Nat)
  BY NatLessThanWellFounded
<1>2. PICK m \in M : \A k \in M : <<k, m>> \notin OpToRel(<, Nat)
  BY <1>1, WFMin
<1>3. \A k \in M : ~(k < m)
  BY <1>2 DEF OpToRel
<1> QED
  BY <1>3

(* The links lead from the last to every member of the list and to nobody  *)
(* else.                                                                   *)
LEMMA RingListed ==
    ASSUME NEW n, NEW q, NEW W \in SUBSET Tasklets, NEW last, Ring(wq, n, q, W), Closed(wq, last, n, q)
    PROVE  Listed(last) = W
<1>1. n \in Nat /\ Empty \notin Tasklets
  BY DpuSyncAssumption DEF Ring
<1>2. CASE n = 0
  <2>1. last = Empty /\ W = {}
    BY <1>2 DEF Ring, Closed
  <2> QED
    BY <2>1 DEF Listed
<1>3. CASE n # 0
  <2>1. /\ n \in 1..n /\ 1 \in 1..n /\ last = q[n] /\ wq[last] = q[1]
        /\ \A i \in 1..n : q[i] \in Tasklets /\ q[i] \in W
        /\ \A i \in 1..n - 1 : wq[q[i]] = q[i + 1]
        /\ \A t \in W : \E i \in 1..n : t = q[i]
    BY <1>1, <1>3 DEF Ring, Closed
  <2>2. last \in W /\ last # Empty
    BY <1>1, <2>1
  <2>3. \A u \in W : wq[u] \in W
    <3> SUFFICES ASSUME NEW u \in W PROVE wq[u] \in W
      OBVIOUS
    <3>1. PICK i \in 1..n : u = q[i]
      BY <2>1
    <3>2. CASE i = n
      BY <2>1, <3>1, <3>2
    <3>3. CASE i # n
      <4>1. i \in 1..n - 1 /\ i + 1 \in 1..n
        BY <1>1, <3>3
      <4> QED
        BY <2>1, <3>1, <4>1
    <3> QED
      BY <3>2, <3>3
  <2>4. Listed(last) \subseteq W
    BY <2>2, <2>3 DEF Listed
  <2>5. ASSUME NEW S \in SUBSET Tasklets, last \in S, \A u \in S : wq[u] \in S \union {Empty}
        PROVE  W \subseteq S
    <3>1. PICK M : M = {i \in 1..n : q[i] \notin S}
      OBVIOUS
    <3>2. M = {}
      <4> SUFFICES ASSUME M # {} PROVE FALSE
        OBVIOUS
      <4>1. PICK m \in M : \A k \in M : m <= k
        <5>1. M \in SUBSET Nat
          BY <1>1, <3>1
        <5> QED
          BY <5>1, Least
      <4>2. m \in 1..n /\ q[m] \notin S
        BY <3>1, <4>1
      <4>3. q[1] \in S
        BY <1>1, <2>1, <2>5
      <4>4. m - 1 \in 1..n /\ m - 1 \in 1..n - 1 /\ m - 1 + 1 = m /\ ~(m <= m - 1)
        BY <1>1, <4>2, <4>3
      <4>5. q[m - 1] \in S
        BY <3>1, <4>1, <4>4
      <4>6. wq[q[m - 1]] = q[m] /\ q[m] \in Tasklets
        BY <2>1, <4>2, <4>4
      <4> QED
        BY <1>1, <2>5, <4>2, <4>5, <4>6
    <3> QED
      BY <2>1, <3>1, <3>2
  <2>6. W \subseteq Listed(last)
    BY <2>2, <2>5 DEF Listed
  <2> QED
    BY <2>4, <2>6
<1> QED
  BY <1>2, <1>3

(* Nobody wakes the ones of an object whose lock is free. *)
LEMMA FreeLock ==
    ASSUME IInv
    PROVE  /\ \A b \in Barriers : lock[<<"barrier", b>>] = Empty => Waker(b) = {}
           /\ \A s \in Sems : lock[<<"sem", s>>] = Empty => Giver(s) = {}
<1>1. DpuType /\ LockInv /\ Empty \notin Tasklets
  BY DpuSyncAssumption DEF IInv
<1>2. ASSUME NEW b \in Barriers, NEW t \in Waker(b) PROVE lock[<<"barrier", b>>] = t /\ t \in Tasklets
  <2>1. t \in Tasklets /\ In(t, "barrier", b) /\ pc[t] \in Critical
    BY DEF Waker, Critical
  <2>2. LockOf(t) = <<"barrier", b>>
    BY <1>1, <2>1, LockCases DEF In, VmKinds
  <2> QED
    BY <1>1, <2>1, <2>2 DEF LockInv
<1>3. ASSUME NEW s \in Sems, NEW t \in Giver(s) PROVE lock[<<"sem", s>>] = t /\ t \in Tasklets
  <2>1. t \in Tasklets /\ In(t, "give", s) /\ pc[t] \in Critical
    BY DEF Giver, Critical
  <2>2. LockOf(t) = <<"sem", s>>
    BY <1>1, <2>1, LockCases DEF In, VmKinds
  <2> QED
    BY <1>1, <2>1, <2>2 DEF LockInv
<1> QED
  BY <1>1, <1>2, <1>3

(* While nobody holds the lock of an object its circular list is exactly   *)
(* the tasklets that wait for it, and the counter counts them, though all  *)
(* the lists share one table and each object has a lock of its own.        *)
THEOREM QueuesExact == Spec => []QueueExact
<1>1. IInv /\ SemBalance => QueueExact
  <2> SUFFICES ASSUME IInv, SemBalance PROVE QueueExact
    OBVIOUS
  <2>1. ASSUME NEW b \in Barriers, lock[<<"barrier", b>>] = Empty
        PROVE  /\ Waits("barrier", b) = Listed(barrier[b].queue)
               /\ barrier[b].count = BarrierSize[b] - Cardinality(Waits("barrier", b))
    <3>1. Waker(b) = {}
      BY <2>1, FreeLock
    <3>2. PICK n, q : BarrierList(b, n, q)
      BY DEF IInv, BarrierInv
    <3>3. /\ Ring(wq, n, q, Waits("barrier", b)) /\ Closed(wq, barrier[b].queue, n, q)
          /\ barrier[b].count = BarrierSize[b] - n /\ Waits("barrier", b) \in SUBSET Tasklets
      BY <3>1, <3>2 DEF BarrierList, Waits
    <3> QED
      BY <3>3, RingListed, RingCard
  <2>2. ASSUME NEW s \in Sems, lock[<<"sem", s>>] = Empty
        PROVE  /\ Waits("take", s) = Listed(sem[s].queue)
               /\ InByte(s) /\ Waits("take", s) # {} => sem[s].count = -Cardinality(Waits("take", s))
    <3>1. Giver(s) = {} /\ Off(s) = {}
      BY <2>2, FreeLock DEF Off
    <3>2. PICK n, q : SemList(s, n, q)
      BY DEF IInv, SemInv
    <3>3. Waits("take", s) \ Off(s) = Waits("take", s) /\ Waits("take", s) \in SUBSET Tasklets
      BY <3>1 DEF Waits
    <3>4. Ring(wq, n, q, Waits("take", s)) /\ Closed(wq, sem[s].queue, n, q)
      BY <3>1, <3>2, <3>3 DEF SemList
    <3>5. Listed(sem[s].queue) = Waits("take", s)
      BY <3>3, <3>4, RingListed
    <3>6. ASSUME InByte(s), Waits("take", s) # {}
          PROVE  sem[s].count = -Cardinality(Waits("take", s))
      <4>1. PICK i, g, k, w : /\ i = SemCount[s] /\ g = Cardinality(Started("give", s))
                              /\ k = Cardinality(Started("take", s)) /\ w = Cardinality(Waits("take", s))
        OBVIOUS
      <4>2. w \in Nat /\ w <= 24 /\ w > 0
        BY <3>3, <3>6, <4>1, FewWait DEF DPU_NR_THREADS
      <4>3. sem[s].count = Char(-w)
        BY <3>6, <4>1, <4>2 DEF SemBalance, SemBalanced, Counted, InByte
      <4>4. -w \in Int /\ -w \in -128..127
        BY <4>2
      <4> QED
        BY <4>1, <4>3, <4>4, CharType
    <3> QED
      BY <3>5, <3>6
  <2> QED
    BY <2>1, <2>2 DEF QueueExact
<1> QED
  BY Inductive, Counting, <1>1, PTL
=============================================================================
