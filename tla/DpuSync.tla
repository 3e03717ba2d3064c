------------------------------ MODULE DpuSync ------------------------------
(***************************************************************************)
(* The synchronisation primitives of the DPU runtime (dpu-rt/src/syslib):  *)
(* barriers, semaphores, handshakes and virtual mutexes, used by the       *)
(* tasklets of one DPU.                                                    *)
(*                                                                         *)
(* A tasklet waits by executing "stop" and is woken by another one that    *)
(* executes "resume"; the code releases the lock of the object BEFORE it   *)
(* stops, so the two race, and resume spins until its target has stopped.  *)
(* The tasklets that wait for an object form a circular list; its links    *)
(* are in one table, wq, that all barriers and semaphores share while each *)
(* of them has a lock of its own.                                          *)
(*                                                                         *)
(* One step is a stretch of code between two points where another tasklet  *)
(* can tell the difference: taking a lock, a resume, a load of the shared  *)
(* table after a resume, a release, a stop.  What is done under a lock and *)
(* seen only under that lock is part of the step before or after it; the   *)
(* return of a call that resumed another tasklet is a step of its own, for *)
(* that tasklet may return first.                                          *)
(***************************************************************************)
EXTENDS FiniteSets, Integers, Sequences

CONSTANTS Tasklets,    \* the tasklets that run
          Empty,       \* __EMPTY_WAIT_QUEUE, 0xFF: no tasklet
          Barriers,    \* the barrier_t objects
          BarrierSize, \* [Barriers -> Nat]: initial_count
          Sems,        \* the sem_t objects
          SemCount,    \* [Sems -> -127..127]: the counter of SEMAPHORE_INIT
          VmIds,       \* the virtual mutexes in use, by id
          NbMutexes,   \* hardware mutexes of the VMUTEX_INIT, a power of 2
          Programs     \* what the tasklets call: a set of functions

DPU_NR_THREADS == 24

ASSUME DpuSyncAssumption ==
  /\ IsFiniteSet(Tasklets) /\ Empty \notin Tasklets
  /\ Cardinality(Tasklets) <= DPU_NR_THREADS
  /\ BarrierSize \in [Barriers -> Nat \ {0}]
  /\ SemCount \in [Sems -> -127..127]
  /\ VmIds \subseteq Nat
  /\ NbMutexes \in Nat \ {0}

(* The calls a tasklet can make.  handshake_notify is about the caller;    *)
(* one does not wait for oneself.                                          *)
CallsOf(t) ==
  [kind : {"barrier"}, on : Barriers]
    \union [kind : {"take", "give"}, on : Sems]
    \union [kind : {"notify"}, on : {t}]
    \union [kind : {"wait_for"}, on : Tasklets \ {t}]
    \union [kind : {"vlock", "vunlock"}, on : VmIds]

(* How often a virtual mutex occurs in the first n calls of a program.     *)
Among(calls, n, kind, id) ==
  {i \in 1..n : calls[i] = [kind |-> kind, on |-> id]}

(* A tasklet unlocks the virtual mutexes it has, and locks the ones it     *)
(* does not have: the code does not record who has one.                    *)
Bracketed(calls) ==
  \A id \in VmIds : \A n \in 0..Len(calls) :
    LET times(kind) == Cardinality(Among(calls, n, kind, id))
    IN  times("vunlock") <= times("vlock") /\ times("vlock") <= times("vunlock") + 1

ASSUME ProgramsAssumption ==
  \A p \in Programs :
    /\ DOMAIN p = Tasklets
    /\ \A t \in Tasklets : p[t] \in Seq(CallsOf(t)) /\ Bracketed(p[t])

VARIABLES
  program,  \* the calls of each tasklet, in order
  at,       \* the index of the call a tasklet is in, or is to start
  pc,       \* where in the call
  reg,      \* its registers: first and last, or the byte of a virtual mutex
  running,  \* the run bit of each tasklet, cleared by stop, set by resume
  lock,     \* the atomic bits: which tasklet acquired each, or Empty
  barrier,  \* wait_queue and count of each barrier
  sem,      \* wait_queue and count, as a signed byte, of each semaphore
  wq,       \* __sys_wq_table
  shake,    \* __handshake_array
  already,  \* the calls that returned EALREADY
  vm        \* the bits of the virtual mutexes, by byte

vars == <<program, at, pc, reg, running, lock, barrier, sem, wq, shake, already, vm>>

-----------------------------------------------------------------------------
(***************************************************************************)
(* Objects and locks.  A call is a record of its kind and its object.      *)
(***************************************************************************)

(* The byte of a virtual mutex and the bit in it.                          *)
Byte(id) == id \div 8

Bit(id) == id % 8

(* Mutant: two ids of one byte are guarded by two hardware mutexes.        *)
HwMutexOfId(id) == id % NbMutexes

(* The hardware mutex that guards the byte: (id >> 3) & (NB_MUTEXES - 1).  *)
HwMutex(id) == Byte(id) % NbMutexes

Over(t) == at[t] > Len(program[t])

Call(t) == program[t][at[t]]

(* The atomic bit that the code takes around the accesses to the object.   *)
LockOf(t) ==
  CASE Call(t).kind = "barrier"              -> <<"barrier", Call(t).on>>
    [] Call(t).kind \in {"take", "give"}     -> <<"sem", Call(t).on>>
    [] Call(t).kind = "notify"               -> <<"shake", t>>
    [] Call(t).kind = "wait_for"             -> <<"shake", Call(t).on>>
    [] Call(t).kind \in {"vlock", "vunlock"} -> <<"vm", HwMutex(Call(t).on)>>

Locks == ({"barrier"} \X Barriers) \union ({"sem"} \X Sems)
           \union ({"shake"} \X Tasklets) \union ({"vm"} \X (0..NbMutexes - 1))

Init ==
  /\ program \in Programs
  /\ at = [t \in Tasklets |-> 1]
  /\ pc = [t \in Tasklets |-> "call"]
  /\ reg = [t \in Tasklets |-> [first |-> Empty, last |-> Empty, byte |-> {}]]
  /\ running = [t \in Tasklets |-> TRUE]
  /\ lock = [l \in Locks |-> Empty]
  /\ barrier = [b \in Barriers |-> [queue |-> Empty, count |-> BarrierSize[b]]]
  /\ sem = [s \in Sems |-> [queue |-> Empty, count |-> SemCount[s]]]
  /\ wq = [t \in Tasklets |-> Empty]
  /\ shake = [t \in Tasklets |-> Empty]
  /\ already = {}
  /\ vm = [y \in {Byte(id) : id \in VmIds} |-> {}]

-----------------------------------------------------------------------------
(***************************************************************************)
(* What the steps share.                                                   *)
(***************************************************************************)

At(t, place) == running[t] /\ pc[t] = place /\ ~Over(t)

Goto(t, place) == pc' = [pc EXCEPT ![t] = place]

(* The call returns: the tasklet is ready for its next one.                *)
Return(t) ==
  /\ at' = [at EXCEPT ![t] = @ + 1]
  /\ pc' = [pc EXCEPT ![t] = "call"]

Release(t) == lock' = [lock EXCEPT ![LockOf(t)] = Empty]

(* Mutant: a tasklet that another one is resuming runs ahead at once.      *)
Ahead(t) == TRUE

(* The pipeline issues one instruction of each running tasklet in turn.  A *)
(* resumed tasklet therefore does not get through the call, the load of a  *)
(* lock and the acquire that precede its next store in wq while the one    *)
(* that resumed it is still at the load that follows its resume.           *)
InTurn(t) == \A u \in Tasklets : ~(pc[u] = "link" /\ reg[u].first = t)

(* Mutant: resume does not wait until its target has stopped.              *)
ResumeAtOnce(u) == running' = [running EXCEPT ![u] = TRUE]

(* resume: repeated until the target has stopped.                          *)
Resume(u) ==
  /\ ~running[u]
  /\ running' = [running EXCEPT ![u] = TRUE]

(* acquire: repeated until the bit is clear.                               *)
Acquire(t) ==
  /\ At(t, "call")
  /\ lock[LockOf(t)] = Empty
  /\ lock' = [lock EXCEPT ![LockOf(t)] = t]
  /\ Goto(t, "locked")
  /\ UNCHANGED <<program, at, reg, running, barrier, sem, wq, shake, already, vm>>

(* The links after t is put at the end of the list whose last is last.     *)
Linked(t, last) ==
  IF last = Empty
    THEN [wq EXCEPT ![t] = t]
    ELSE [wq EXCEPT ![t] = wq[last], ![last] = t]

(* The stop that follows the release.                                      *)
Stop(t) ==
  /\ At(t, "stop")
  /\ running' = [running EXCEPT ![t] = FALSE]
  /\ Goto(t, "stopped")
  /\ UNCHANGED <<program, at, reg, lock, barrier, sem, wq, shake, already, vm>>

(* The tasklet was resumed: the call that stopped it returns.              *)
Resumed(t) ==
  /\ At(t, "stopped")
  /\ Return(t)
  /\ UNCHANGED <<program, reg, running, lock, barrier, sem, wq, shake, already, vm>>

-----------------------------------------------------------------------------
(***************************************************************************)
(* barrier_wait.                                                           *)
(***************************************************************************)

(* Not the last of its group: enqueue, count down, release, then stop.     *)
BarrierEnqueue(t) ==
  LET b == Call(t).on IN
  /\ At(t, "locked") /\ Call(t).kind = "barrier"
  /\ barrier[b].count # 1
  /\ InTurn(t)
  /\ wq' = Linked(t, barrier[b].queue)
  /\ barrier' = [barrier EXCEPT ![b] = [queue |-> t, count |-> @.count - 1]]
  /\ Release(t)
  /\ Goto(t, "stop")
  /\ UNCHANGED <<program, at, reg, running, sem, shake, already, vm>>

(* The last of its group, alone: nobody to wake, the counter stays at 1.   *)
BarrierAlone(t) ==
  LET b == Call(t).on IN
  /\ At(t, "locked") /\ Call(t).kind = "barrier"
  /\ barrier[b].count = 1 /\ barrier[b].queue = Empty
  /\ Release(t)
  /\ Return(t)
  /\ UNCHANGED <<program, reg, running, barrier, sem, wq, shake, already, vm>>

(* The last of its group: load the first of the list.                      *)
BarrierLast(t) ==
  LET last == barrier[Call(t).on].queue IN
  /\ At(t, "locked") /\ Call(t).kind = "barrier"
  /\ barrier[Call(t).on].count = 1 /\ last # Empty
  /\ reg' = [reg EXCEPT ![t].last = last, ![t].first = wq[last]]
  /\ Goto(t, "wake")
  /\ UNCHANGED <<program, at, running, lock, barrier, sem, wq, shake, already, vm>>

(* Wake one that is not the last; its link is loaded AFTER it is resumed.  *)
BarrierWake(t) ==
  /\ At(t, "wake")
  /\ reg[t].first # reg[t].last
  /\ Resume(reg[t].first)
  /\ Goto(t, "link")
  /\ UNCHANGED <<program, at, reg, lock, barrier, sem, wq, shake, already, vm>>

BarrierLink(t) ==
  /\ At(t, "link")
  /\ reg' = [reg EXCEPT ![t].first = wq[reg[t].first]]
  /\ Goto(t, "wake")
  /\ UNCHANGED <<program, at, running, lock, barrier, sem, wq, shake, already, vm>>

BarrierWakeLast(t) ==
  /\ At(t, "wake")
  /\ reg[t].first = reg[t].last
  /\ Resume(reg[t].first)
  /\ Goto(t, "rearm")
  /\ UNCHANGED <<program, at, reg, lock, barrier, sem, wq, shake, already, vm>>

(* The list and the counter are set back, and the lock is released.        *)
BarrierRearm(t) ==
  /\ At(t, "rearm")
  /\ barrier' = [barrier EXCEPT ![Call(t).on] =
                   [queue |-> Empty, count |-> BarrierSize[Call(t).on]]]
  /\ Release(t)
  /\ Return(t)
  /\ UNCHANGED <<program, reg, running, sem, wq, shake, already, vm>>

-----------------------------------------------------------------------------
(***************************************************************************)
(* sem_take and sem_give.                                                  *)
(***************************************************************************)

(* The conversion to char: the counter is kept in a byte.                  *)
Char(n) == ((n + 128) % 256) - 128

(* Mutant: the counter is tested before it is decremented.                 *)
SemTakeEarlyTest(t) ==
  LET s == Call(t).on IN
  /\ At(t, "locked") /\ Call(t).kind = "take"
  /\ sem[s].count >= 0
  /\ sem' = [sem EXCEPT ![s].count = Char(@ - 1)]
  /\ Release(t)
  /\ Return(t)
  /\ UNCHANGED <<program, reg, running, barrier, wq, shake, already, vm>>

(* The counter does not go below 0: the caller has its unit.               *)
SemTake(t) ==
  LET s == Call(t).on  count == Char(sem[s].count - 1) IN
  /\ At(t, "locked") /\ Call(t).kind = "take"
  /\ count >= 0
  /\ sem' = [sem EXCEPT ![s].count = count]
  /\ Release(t)
  /\ Return(t)
  /\ UNCHANGED <<program, reg, running, barrier, wq, shake, already, vm>>

(* It does: the caller is put in the list, releases the lock and stops.    *)
SemTakeWait(t) ==
  LET s == Call(t).on  count == Char(sem[s].count - 1) IN
  /\ At(t, "locked") /\ Call(t).kind = "take"
  /\ count < 0
  /\ InTurn(t)
  /\ wq' = Linked(t, sem[s].queue)
  /\ sem' = [sem EXCEPT ![s] = [queue |-> t, count |-> count]]
  /\ Release(t)
  /\ Goto(t, "stop")
  /\ UNCHANGED <<program, at, reg, running, barrier, shake, already, vm>>

(* Nobody waits.                                                           *)
SemGive(t) ==
  LET s == Call(t).on IN
  /\ At(t, "locked") /\ Call(t).kind = "give"
  /\ sem[s].queue = Empty
  /\ sem' = [sem EXCEPT ![s].count = Char(@ + 1)]
  /\ Release(t)
  /\ Return(t)
  /\ UNCHANGED <<program, reg, running, barrier, wq, shake, already, vm>>

(* Mutant: the waiter taken off the list is the last one, not the first,   *)
(* and the link of the last is changed as if it were the first.            *)
SemUnlinkLast(t) ==
  LET s == Call(t).on  last == sem[s].queue  first == wq[last] IN
  /\ At(t, "locked") /\ Call(t).kind = "give" /\ last # Empty
  /\ wq' = [wq EXCEPT ![last] = wq[first]]
  /\ sem' = [sem EXCEPT ![s].queue = IF first = last THEN Empty ELSE last]
  /\ reg' = [reg EXCEPT ![t].first = last]
  /\ Goto(t, "wake1")
  /\ UNCHANGED <<program, at, running, lock, barrier, shake, already, vm>>

(* The first of the list is taken off.                                     *)
SemUnlink(t) ==
  LET s == Call(t).on  last == sem[s].queue  first == wq[last] IN
  /\ At(t, "locked") /\ Call(t).kind = "give" /\ last # Empty
  /\ IF first = last
       THEN sem' = [sem EXCEPT ![s].queue = Empty] /\ UNCHANGED wq
       ELSE wq' = [wq EXCEPT ![last] = wq[first]] /\ UNCHANGED sem
  /\ reg' = [reg EXCEPT ![t].first = first]
  /\ Goto(t, "wake1")
  /\ UNCHANGED <<program, at, running, lock, barrier, shake, already, vm>>

(* It is resumed, under the lock, and the counter goes up.                 *)
SemGiveWake(t) ==
  LET s == Call(t).on IN
  /\ At(t, "wake1")
  /\ Resume(reg[t].first)
  /\ sem' = [sem EXCEPT ![s].count = Char(@ + 1)]
  /\ Goto(t, "leave")
  /\ UNCHANGED <<program, at, reg, lock, barrier, wq, shake, already, vm>>

(* sem_give, handshake_notify and handshake_wait_for: the call that        *)
(* resumed another tasklet releases the lock and returns.                  *)
Leave(t) ==
  /\ At(t, "leave")
  /\ Release(t)
  /\ Return(t)
  /\ UNCHANGED <<program, reg, running, barrier, sem, wq, shake, already, vm>>

-----------------------------------------------------------------------------
(***************************************************************************)
(* handshake_notify and handshake_wait_for.  The entry of the notifier     *)
(* holds the tasklet that came first, itself or the one that waits for it. *)
(***************************************************************************)

Notifier(t) == IF Call(t).kind = "notify" THEN t ELSE Call(t).on

InHandshake(t) == Call(t).kind \in {"notify", "wait_for"}

(* First of the two: leave one's number, release, then stop.               *)
ShakeFirst(t) ==
  /\ At(t, "locked") /\ InHandshake(t)
  /\ shake[Notifier(t)] = Empty
  /\ shake' = [shake EXCEPT ![Notifier(t)] = t]
  /\ Release(t)
  /\ Goto(t, "stop")
  /\ UNCHANGED <<program, at, reg, running, barrier, sem, wq, already, vm>>

(* Mutant: a waiter does not look whether the one it finds is the notifier.*)
AnyPartner(t) == shake[Notifier(t)] # Empty

(* The one found is the partner: any waiter for a notifier; for a waiter   *)
(* the notifier itself and not another waiter.                             *)
Partner(t) ==
  /\ shake[Notifier(t)] # Empty
  /\ Call(t).kind = "wait_for" => shake[Notifier(t)] = Notifier(t)

(* Second of the two: resume the partner and clear the entry.              *)
ShakeSecond(t) ==
  /\ At(t, "locked") /\ InHandshake(t)
  /\ Partner(t)
  /\ Resume(shake[Notifier(t)])
  /\ shake' = [shake EXCEPT ![Notifier(t)] = Empty]
  /\ Goto(t, "leave")
  /\ UNCHANGED <<program, at, reg, lock, barrier, sem, wq, already, vm>>

(* EALREADY: another tasklet waits for that notifier.  The caller returns  *)
(* without having met it.                                                  *)
ShakeAlready(t) ==
  /\ At(t, "locked") /\ InHandshake(t)
  /\ shake[Notifier(t)] # Empty /\ ~Partner(t)
  /\ Release(t)
  /\ already' = already \union {<<t, at[t]>>}
  /\ Return(t)
  /\ UNCHANGED <<program, reg, running, barrier, sem, wq, shake, vm>>

-----------------------------------------------------------------------------
(***************************************************************************)
(* vmutex_lock and vmutex_unlock: the byte is loaded, the bit set or       *)
(* cleared and the byte stored while the hardware mutex is held.           *)
(***************************************************************************)

VmLoad(t) ==
  /\ At(t, "locked") /\ Call(t).kind \in {"vlock", "vunlock"}
  /\ reg' = [reg EXCEPT ![t].byte = vm[Byte(Call(t).on)]]
  /\ Goto(t, "loaded")
  /\ UNCHANGED <<program, at, running, lock, barrier, sem, wq, shake, already, vm>>

Stored(t) ==
  LET bit == {Bit(Call(t).on)} IN
  IF Call(t).kind = "vlock" THEN reg[t].byte \union bit ELSE reg[t].byte \ bit

VmStore(t) ==
  /\ At(t, "loaded")
  /\ vm' = [vm EXCEPT ![Byte(Call(t).on)] = Stored(t)]
  /\ Goto(t, "stored")
  /\ UNCHANGED <<program, at, reg, running, lock, barrier, sem, wq, shake, already>>

(* The lock was got when the bit was clear in the byte that was loaded.    *)
VmGot(t) == Call(t).kind = "vlock" => reg[t].byte # Stored(t)

VmDone(t) ==
  /\ At(t, "stored")
  /\ Release(t)
  /\ IF VmGot(t) THEN Return(t) ELSE Goto(t, "call") /\ UNCHANGED at
  /\ UNCHANGED <<program, reg, running, barrier, sem, wq, shake, already, vm>>

-----------------------------------------------------------------------------
Step(t) ==
  \/ Acquire(t) \/ Stop(t) \/ Resumed(t) \/ Leave(t)
  \/ BarrierEnqueue(t) \/ BarrierAlone(t) \/ BarrierLast(t)
  \/ BarrierWake(t) \/ BarrierLink(t) \/ BarrierWakeLast(t) \/ BarrierRearm(t)
  \/ SemTake(t) \/ SemTakeWait(t) \/ SemGive(t) \/ SemUnlink(t) \/ SemGiveWake(t)
  \/ ShakeFirst(t) \/ ShakeSecond(t) \/ ShakeAlready(t)
  \/ VmLoad(t) \/ VmStore(t) \/ VmDone(t)

(* A tasklet is at rest when its program is over, or when it waits for a   *)
(* handshake that its partner, whose program is over, will not give.       *)
Unmet(t) == pc[t] = "stopped" /\ ~running[t] /\ InHandshake(t)

AtRest == \A t \in Tasklets : Over(t) \/ Unmet(t)

Next == \/ \E t \in Tasklets : Step(t)
        \/ AtRest /\ UNCHANGED vars

Spec == Init /\ [][Next]_vars

(* Each running tasklet is issued in turn: a step it can take is taken.    *)
(* A tasklet that releases a bit executes at least one other instruction   *)
(* before it can acquire it again, and the ones that spin get their turn.  *)
FairSpec ==
  Spec /\ \A t \in Tasklets : WF_vars(Step(t)) /\ SF_vars(Acquire(t))

-----------------------------------------------------------------------------
(***************************************************************************)
(* Properties.                                                             *)
(***************************************************************************)

(* The tasklet is in a call of that kind on that object.                   *)
In(t, kind, o) == ~Over(t) /\ Call(t).kind = kind /\ Call(t).on = o

(* The tasklets that wait there: about to stop, or stopped and not resumed.*)
Waits(kind, o) ==
  {t \in Tasklets : In(t, kind, o) /\ (pc[t] = "stop" \/ ~running[t])}

(* The ones that were resumed and have not returned.                       *)
Woken(kind, o) ==
  {t \in Tasklets : In(t, kind, o) /\ pc[t] = "stopped" /\ running[t]}

(* The one that completed the group of b and is waking the others.         *)
Waker(b) ==
  {t \in Tasklets : In(t, "barrier", b) /\ pc[t] \in {"wake", "link", "rearm"}}

(* The tasklets of the circular list that ends at last: the ones that the  *)
(* links lead to from there.                                               *)
Listed(last) ==
  IF last = Empty THEN {}
  ELSE {t \in Tasklets :
          \A S \in SUBSET Tasklets :
             last \in S /\ (\A u \in S : wq[u] \in S \union {Empty}) => t \in S}

(* The calls of a kind on an object that have returned, without an error,  *)
(* of one tasklet by their index, and of all.                              *)
ReturnedOf(t, kind, o) ==
  {i \in 1..at[t] - 1 : /\ program[t][i] = [kind |-> kind, on |-> o]
                        /\ <<t, i>> \notin already}

Returned(kind, o) == UNION {{t} \X ReturnedOf(t, kind, o) : t \in Tasklets}

(* The ones that have returned or are past the accesses to the object, in  *)
(* a call that waits or that has resumed another one.                      *)
Started(kind, o) ==
  Returned(kind, o)
    \union {<<t, at[t]>> : t \in {u \in Tasklets : /\ In(u, kind, o)
                                                  /\ pc[u] \in {"stop", "stopped", "leave"}}}

(* The state of the abstract barrier: the ones that wait are let go when   *)
(* the last of the group starts to wake them.                              *)
WaitingAt(b) == IF Waker(b) = {} THEN Waits("barrier", b) ELSE {}

ReleasedAt(b) ==
  Woken("barrier", b) \union Waker(b)
    \union (IF Waker(b) = {} THEN {} ELSE Waits("barrier", b))

Group(b) == INSTANCE Barrier WITH
  Threads <- Tasklets, Size <- BarrierSize[b],
  waiting <- WaitingAt(b), released <- ReleasedAt(b)

(* Every barrier implements the abstract one: nobody leaves it before its  *)
(* group is complete, and whoever completes it wakes every member, though  *)
(* the members it wakes go on to use the table it walks.  This is          *)
(* \A b \in Barriers : Group(b)!Spec in a form that TLC checks.            *)
BarrierGroups ==
  /\ \A b \in Barriers : Group(b)!Init
  /\ [][\A b \in Barriers :
          Group(b)!Next \/ UNCHANGED <<WaitingAt(b), ReleasedAt(b)>>]_vars

(* The byte of s has neither gone over 127 nor been negative at the start. *)
InByte(s) ==
  SemCount[s] >= 0 /\ SemCount[s] + Cardinality(Started("give", s)) <= 127

(* While nobody holds the lock of an object its circular list is exactly   *)
(* the tasklets that wait for it, and the counter counts them; that of a   *)
(* semaphore as long as its units fit in the byte.                         *)
QueueExact ==
  /\ \A b \in Barriers : lock[<<"barrier", b>>] = Empty =>
       LET W == Waits("barrier", b) IN
       /\ W = Listed(barrier[b].queue)
       /\ barrier[b].count = BarrierSize[b] - Cardinality(W)
  /\ \A s \in Sems : lock[<<"sem", s>>] = Empty =>
       LET W == Waits("take", s) IN
       /\ W = Listed(sem[s].queue)
       /\ InByte(s) /\ W # {} => sem[s].count = -Cardinality(W)

(* What the initial counter of a semaphore is worth in units.              *)
InitialUnits(s) == IF SemCount[s] > 0 THEN SemCount[s] ELSE 0

(* A semaphore never hands out more units than its initial value and the   *)
(* gives that have counted or resumed a taker, however many gives the byte *)
(* has gone over; not so for a counter so low that the tasklets can make   *)
(* the byte go under -128.                                                 *)
SemUnits ==
  \A s \in Sems : SemCount[s] >= DPU_NR_THREADS - 128 =>
    Cardinality(Returned("take", s)) <= InitialUnits(s) + Cardinality(Started("give", s))

(* A handshake is between two: a notify returns only if a waiter came for  *)
(* it, and a wait_for returns 0 only if the notifier came.                 *)
HandshakePaired ==
  \A n \in Tasklets :
    /\ Cardinality(Returned("notify", n)) <= Cardinality(Started("wait_for", n))
    /\ Cardinality(Returned("wait_for", n)) <= Cardinality(Started("notify", n))

(* Who has virtual mutex id: its lock returned and the unlock, if called,  *)
(* has not yet stored the byte.                                            *)
VmHolders(id) ==
  {t \in Tasklets :
     /\ Cardinality(ReturnedOf(t, "vlock", id)) > Cardinality(ReturnedOf(t, "vunlock", id))
     /\ ~(In(t, "vunlock", id) /\ pc[t] = "stored")}

(* Two tasklets never have the same virtual mutex, and no update of a byte *)
(* is lost to one for another id of that byte: while the hardware mutex is *)
(* free a bit is set exactly when its mutex is held.                       *)
VmExclusion ==
  \A id \in VmIds :
    /\ Cardinality(VmHolders(id)) <= 1
    /\ lock[<<"vm", HwMutex(id)>>] = Empty =>
         (Bit(id) \in vm[Byte(id)] <=> VmHolders(id) # {})

(* Every tasklet gets to the end of its program, or waits for a handshake  *)
(* its partner does not give: no wake-up is lost between release and stop. *)
Quiesces == <>[]AtRest
=============================================================================
