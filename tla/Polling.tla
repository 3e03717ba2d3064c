------------------------------- MODULE Polling -------------------------------
(***************************************************************************)
(* Launching DPUs and noticing that they have stopped: dpu_boot_rank and   *)
(* dpu_boot_dpu (src/dpu_runner.c), the polling threads, dpu_sync_rank and *)
(* dpu_sync_dpu (src/api/dpu_polling.c).                                   *)
(*                                                                         *)
(* A worker thread runs the launch jobs of a rank one after the other (one *)
(* worker at a time serves a rank: ScheduledOnce of module ThreadJob): it  *)
(* boots the DPUs, tells the polling thread of the queue of the rank, and  *)
(* waits on poll_cond, giving up the mutex of the rank.  The polling       *)
(* thread reads the state of the DPUs of every rank of its queue into the  *)
(* run context of the rank; it skips the ranks whose mutex it cannot take  *)
(* and goes to sleep when it believes that no DPU runs.                    *)
(*                                                                         *)
(* The polling thread holds the mutex of a rank for one poll, which is one *)
(* step; it reads nb_dpu_running before that without any lock.             *)
(* Abstracted: control interfaces (the DPUs of a rank are one set, of the  *)
(* enabled ones), profiling, messages.                                     *)
(***************************************************************************)
EXTENDS Integers, FiniteSets

CONSTANTS
    Rank,               \* the allocated ranks
    Dpu,                \* the enabled DPUs of a rank
    Queue, QueueOf,     \* one polling thread per queue (NUMA node)
    Slot,               \* where the list of the rank handler has a rank
    Targets,            \* what a job may launch: All or a DPU
    All,                \* the target of a LAUNCH_RANK job
    MaxFailures         \* bound: failures of the control interface

ASSUME ConstAssumption ==
    /\ IsFiniteSet(Dpu) /\ Dpu # {}
    /\ QueueOf \in [Rank -> Queue]
    /\ Slot \in [Rank -> Nat]
    /\ \A r, s \in Rank : Slot[r] = Slot[s] => r = s
    /\ Targets \subseteq Dpu \cup {All}
    /\ All \notin Dpu
    /\ MaxFailures \in Nat

VARIABLES
    hwRun, hwFault,     \* the DPUs that run, that are in fault (hardware)
    running, inFault,   \* run_context->dpu_running, ->dpu_in_fault
    nb,                 \* run_context->nb_dpu_running
    pollStatus,         \* run_context->poll_status
    pc, target,         \* where the worker of a rank is, what it launches
    seen, status,       \* locals of dpu_sync_rank: dpu_in_fault and status
    signalled,          \* poll_cond was broadcast while the worker waits
    result,             \* how the last launch job of the rank ended
    ppc,                \* where a polling thread is
    isDpuRunning,       \* polling_thread->is_dpu_running
    isRunning,          \* polling_thread->is_running
    woken,              \* polling_thread->cond signalled while it sleeps
    oneRunning,         \* its local one_rank_running
    todo, cur, was,     \* ranks to scan; the one to poll; its nb as read
    failures            \* how often the control interface has failed

hwVars      == <<hwRun, hwFault>>
contextVars == <<running, inFault, nb, pollStatus>>
workerVars  == <<pc, target, seen, status, result>>
pollerVars  == <<ppc, isDpuRunning, woken, oneRunning, todo, cur, was>>
vars == <<hwVars, contextVars, workerVars, signalled, pollerVars, isRunning, failures>>

RanksOf(q) == {r \in Rank : QueueOf[r] = q}

Status == {"OK", "FAULT", "ERR"}

TypeOK ==
    /\ hwRun \in [Rank -> SUBSET Dpu]
    /\ hwFault \in [Rank -> SUBSET Dpu]
    /\ running \in [Rank -> SUBSET Dpu]
    /\ inFault \in [Rank -> SUBSET Dpu]
    /\ nb \in [Rank -> Nat]
    /\ pollStatus \in [Rank -> {"OK", "ERR"}]
    /\ pc \in [Rank -> {"idle", "boot", "start", "kick", "sync", "block", "wait"}]
    /\ target \in [Rank -> Targets \cup {All}]
    /\ seen \in [Rank -> SUBSET Dpu]
    /\ status \in [Rank -> Status]
    /\ signalled \in [Rank -> BOOLEAN]
    /\ result \in [Rank -> Status]
    /\ ppc \in [Queue -> {"check", "lock", "sleep", "scan", "poll", "exit"}]
    /\ isDpuRunning \in [Queue -> BOOLEAN]
    /\ isRunning \in [Queue -> BOOLEAN]
    /\ woken \in [Queue -> BOOLEAN]
    /\ oneRunning \in [Queue -> BOOLEAN]
    /\ todo \in [Queue -> SUBSET Rank]
    /\ cur \in [Queue -> SUBSET Rank]
    /\ was \in [Queue -> Nat]
    /\ failures \in 0..MaxFailures

(* The ranks are allocated and reset, the polling threads created. *)
Init ==
    /\ hwRun = [r \in Rank |-> {}]
    /\ hwFault = [r \in Rank |-> {}]
    /\ running = [r \in Rank |-> {}]
    /\ inFault = [r \in Rank |-> {}]
    /\ nb = [r \in Rank |-> 0]
    /\ pollStatus = [r \in Rank |-> "OK"]
    /\ pc = [r \in Rank |-> "idle"]
    /\ target = [r \in Rank |-> All]
    /\ seen = [r \in Rank |-> {}]
    /\ status = [r \in Rank |-> "OK"]
    /\ signalled = [r \in Rank |-> FALSE]
    /\ result = [r \in Rank |-> "OK"]
    /\ ppc = [q \in Queue |-> "check"]
    /\ isDpuRunning = [q \in Queue |-> FALSE]
    /\ isRunning = [q \in Queue |-> TRUE]
    /\ woken = [q \in Queue |-> FALSE]
    /\ oneRunning = [q \in Queue |-> FALSE]
    /\ todo = [q \in Queue |-> {}]
    /\ cur = [q \in Queue |-> {}]
    /\ was = [q \in Queue |-> 0]
    /\ failures = 0

-----------------------------------------------------------------------------
(***************************************************************************)
(* The hardware.  The run bit of a DPU in fault stays set; booting a DPU   *)
(* does not clear its fault.                                               *)
(***************************************************************************)

DpuStops(r, d) ==
    /\ d \in hwRun[r] \ hwFault[r]
    /\ \/ hwRun' = [hwRun EXCEPT ![r] = @ \ {d}] /\ UNCHANGED hwFault
       \/ hwFault' = [hwFault EXCEPT ![r] = @ \cup {d}] /\ UNCHANGED hwRun
    /\ UNCHANGED <<contextVars, workerVars, signalled, pollerVars, isRunning, failures>>

(* An access to the control interfaces fails. *)
AccessFails == failures < MaxFailures /\ failures' = failures + 1

-----------------------------------------------------------------------------
(***************************************************************************)
(* dpu_poll_rank, under the mutex of the rank.                             *)
(***************************************************************************)

(* Mutant: a DPU in fault is not looked for. *)
RefreshNoFault(r) ==
    /\ inFault' = inFault
    /\ running' = [running EXCEPT ![r] = hwRun[r] \ hwFault[r]]
    /\ nb' = [nb EXCEPT ![r] = Cardinality(hwRun[r] \ hwFault[r])]

(* The run context gets the state of the DPUs. *)
Refresh(r) ==
    /\ inFault' = [inFault EXCEPT ![r] = hwFault[r]]
    /\ running' = [running EXCEPT ![r] = hwRun[r] \ hwFault[r]]
    /\ nb' = [nb EXCEPT ![r] = Cardinality(hwRun[r] \ hwFault[r])]

-----------------------------------------------------------------------------
(***************************************************************************)
(* The worker of a rank: dpu_thread_compute_job on a launch job.           *)
(***************************************************************************)

(* The worker holds the mutex of the rank. *)
Locked(r) == pc[r] \notin {"idle", "wait"}

(* The job ends with v and the worker releases the rank. *)
JobEnds(r, v) ==
    /\ pc' = [pc EXCEPT ![r] = "idle"]
    /\ result' = [result EXCEPT ![r] = v]
    /\ seen' = [seen EXCEPT ![r] = {}]
    /\ status' = [status EXCEPT ![r] = "OK"]
    /\ UNCHANGED target

(* The worker locks the rank and takes a launch job. *)
StartJob(r) ==
    /\ pc[r] = "idle"
    /\ pc' = [pc EXCEPT ![r] = "boot"]
    /\ \E t \in Targets : target' = [target EXCEPT ![r] = t]
    /\ UNCHANGED <<hwVars, contextVars, seen, status, signalled, result, pollerVars,
                   isRunning, failures>>

(* DPU_ERR_DPU_ALREADY_RUNNING of dpu_boot_rank and dpu_boot_dpu. *)
AlreadyRunning(r) == IF target[r] = All THEN nb[r] # 0 ELSE target[r] \in running[r]

(* dpu_boot_rank and dpu_boot_dpu up to the poll with which                *)
(* dpu_launch_thread_on_rank and dpu_launch_thread_on_dpu begin.           *)
Boot(r) ==
    /\ pc[r] = "boot"
    /\ \/ AlreadyRunning(r) /\ JobEnds(r, "ERR") /\ UNCHANGED <<contextVars, failures>>
       \/ ~AlreadyRunning(r) /\ AccessFails /\ JobEnds(r, "ERR") /\ UNCHANGED contextVars
       \/ /\ ~AlreadyRunning(r)
          /\ Refresh(r)
          /\ pc' = [pc EXCEPT ![r] = "start"]
          /\ UNCHANGED <<pollStatus, target, seen, status, result, failures>>
    /\ UNCHANGED <<hwVars, signalled, pollerVars, isRunning>>

Selected(r) == IF target[r] = All THEN Dpu ELSE {target[r]}

(* Mutant: a DPU that runs already is counted again. *)
CountAllStarted(r) == IF target[r] = All THEN Cardinality(Dpu) ELSE nb[r] + 1

(* What dpu_launch_thread_on_rank, or dpu_launch_thread_on_dpu after it    *)
(* found dpu_is_running unset, writes in nb_dpu_running.                   *)
CountStarted(r) ==
    IF target[r] = All THEN Cardinality(Dpu)
    ELSE IF target[r] \in running[r] THEN nb[r] ELSE nb[r] + 1

(* The rest of dpu_launch_thread_on_rank and dpu_launch_thread_on_dpu:     *)
(* start_thread, which may fail after it has started some of the DPUs.     *)
StartThread(r) ==
    /\ pc[r] = "start"
    /\ \/ /\ AccessFails
          /\ \E S \in SUBSET Selected(r) : hwRun' = [hwRun EXCEPT ![r] = @ \cup S]
          /\ JobEnds(r, "ERR")
          /\ UNCHANGED <<running, nb>>
       \/ /\ hwRun' = [hwRun EXCEPT ![r] = @ \cup Selected(r)]
          /\ running' = [running EXCEPT ![r] = @ \cup Selected(r)]
          /\ nb' = [nb EXCEPT ![r] = CountStarted(r)]
          /\ pc' = [pc EXCEPT ![r] = "kick"]
          /\ UNCHANGED <<target, seen, status, result, failures>>
    /\ UNCHANGED <<hwFault, inFault, pollStatus, signalled, pollerVars, isRunning>>

(* Mutant: the thread that waits is not woken up. *)
SignalNobody(q) == UNCHANGED woken

(* The condition variable of a polling thread: only a thread that waits    *)
(* gets the signal.                                                        *)
SignalPoller(q) == woken' = [woken EXCEPT ![q] = ppc[q] = "sleep"]

(* Mutant: the flag is not set. *)
SignalOnly(q) == UNCHANGED isDpuRunning /\ SignalPoller(q)

(* polling_thread_set_dpu_running. *)
SetDpuRunning(q) ==
    /\ isDpuRunning' = [isDpuRunning EXCEPT ![q] = TRUE]
    /\ SignalPoller(q)

Kick(r) ==
    /\ pc[r] = "kick"
    /\ SetDpuRunning(QueueOf[r])
    /\ pc' = [pc EXCEPT ![r] = "sync"]
    /\ UNCHANGED <<hwVars, contextVars, target, seen, status, signalled, result, ppc,
                   oneRunning, todo, cur, was, isRunning, failures>>

(* The condition of the loops of dpu_sync_rank and dpu_sync_dpu. *)
MustWait(r) ==
    IF target[r] = All THEN nb[r] > 0 /\ status[r] # "ERR" ELSE target[r] \in running[r]

(* Mutant: poll_status is not looked at. *)
CheckFaultOnly(r) == IF inFault[r] # seen[r] THEN "FAULT" ELSE status[r]

(* dpu_check_fault_rank: a failed poll wins, then a change of the DPUs in  *)
(* fault, then the status so far.                                          *)
CheckFault(r) ==
    IF pollStatus[r] # "OK" THEN "ERR"
    ELSE IF inFault[r] # seen[r] THEN "FAULT" ELSE status[r]

(* The status with which dpu_sync_rank or dpu_sync_dpu leaves its loop.    *)
(* dpu_sync_dpu does not look at poll_status.                              *)
SyncStatus(r) ==
    IF target[r] = All THEN CheckFault(r)
    ELSE IF target[r] \in inFault[r] THEN "FAULT" ELSE "OK"

(* One evaluation of the condition of the loop of dpu_sync_rank or         *)
(* dpu_sync_dpu: the worker is about to wait on poll_cond, or leaves with  *)
(* the status of the POSTEXECUTION command when there was no error before. *)
Sync(r) ==
    /\ pc[r] = "sync"
    /\ \/ /\ MustWait(r)
          /\ pc' = [pc EXCEPT ![r] = "block"]
          /\ UNCHANGED <<target, seen, status, result, failures>>
       \/ /\ ~MustWait(r)
          /\ \/ JobEnds(r, SyncStatus(r)) /\ UNCHANGED failures
             \/ SyncStatus(r) = "OK" /\ AccessFails /\ JobEnds(r, "ERR")
    /\ UNCHANGED <<hwVars, contextVars, signalled, pollerVars, isRunning>>

(* pthread_cond_wait on poll_cond blocks and gives up the mutex of the     *)
(* rank.  Who broadcasts without that mutex may do so before this step.    *)
Block(r) ==
    /\ pc[r] = "block"
    /\ pc' = [pc EXCEPT ![r] = "wait"]
    /\ signalled' = [signalled EXCEPT ![r] = FALSE]
    /\ UNCHANGED <<hwVars, contextVars, target, seen, status, result, pollerVars, isRunning,
                   failures>>

(* pthread_cond_wait on poll_cond returns, with the mutex of the rank. *)
WakeUp(r) ==
    /\ pc[r] = "wait"
    /\ signalled[r]
    /\ pc' = [pc EXCEPT ![r] = "sync"]
    /\ IF target[r] = All
       THEN /\ status' = [status EXCEPT ![r] = CheckFault(r)]
            /\ seen' = [seen EXCEPT ![r] = IF pollStatus[r] = "OK" THEN inFault[r] ELSE @]
       ELSE UNCHANGED <<status, seen>>
    /\ signalled' = [signalled EXCEPT ![r] = FALSE]
    /\ UNCHANGED <<hwVars, contextVars, target, result, pollerVars, isRunning, failures>>

-----------------------------------------------------------------------------
(***************************************************************************)
(* The polling thread of a queue, polling_thread_fct.                      *)
(***************************************************************************)

(* The polling thread starts to go through the ranks of its queue. *)
Scan(q) ==
    /\ ppc' = [ppc EXCEPT ![q] = "scan"]
    /\ todo' = [todo EXCEPT ![q] = RanksOf(q)]

(* The condition of the loop, read without any lock. *)
Check(q) ==
    /\ ppc[q] = "check"
    /\ ppc' = [ppc EXCEPT ![q] = IF isRunning[q] THEN "lock" ELSE "exit"]
    /\ UNCHANGED <<hwVars, contextVars, workerVars, signalled, isDpuRunning, woken,
                   oneRunning, todo, cur, was, isRunning, failures>>

NothingToPoll(q) == ~isDpuRunning[q] /\ ~oneRunning[q] /\ isRunning[q]

(* The top of the loop, under polling_thread->mutex: the thread goes to    *)
(* sleep, or clears the flags and scans.                                   *)
SleepOrScan(q) ==
    /\ ppc[q] = "lock"
    /\ \/ /\ NothingToPoll(q)
          /\ ppc' = [ppc EXCEPT ![q] = "sleep"]
          /\ woken' = [woken EXCEPT ![q] = FALSE]
          /\ UNCHANGED <<isDpuRunning, oneRunning, todo>>
       \/ /\ ~NothingToPoll(q)
          /\ isDpuRunning' = [isDpuRunning EXCEPT ![q] = FALSE]
          /\ oneRunning' = [oneRunning EXCEPT ![q] = FALSE]
          /\ Scan(q)
          /\ UNCHANGED woken
    /\ UNCHANGED <<hwVars, contextVars, workerVars, signalled, cur, was, isRunning, failures>>

PollerWakes(q) ==
    /\ ppc[q] = "sleep"
    /\ woken[q]
    /\ woken' = [woken EXCEPT ![q] = FALSE]
    /\ Scan(q)
    /\ UNCHANGED <<hwVars, contextVars, workerVars, signalled, isDpuRunning, oneRunning, cur,
                   was, isRunning, failures>>

(* The next rank of the list: polling_thread_rank reads its nb_dpu_running *)
(* without the mutex of the rank.                                          *)
ReadRank(q) ==
    /\ ppc[q] = "scan"
    /\ \E r \in todo[q] :
          /\ \A s \in todo[q] : Slot[r] <= Slot[s]
          /\ todo' = [todo EXCEPT ![q] = @ \ {r}]
          /\ \/ nb[r] = 0 /\ UNCHANGED <<ppc, cur, was>>
             \/ /\ nb[r] # 0
                /\ ppc' = [ppc EXCEPT ![q] = "poll"]
                /\ cur' = [cur EXCEPT ![q] = {r}]
                /\ was' = [was EXCEPT ![q] = nb[r]]
    /\ UNCHANGED <<hwVars, contextVars, workerVars, signalled, isDpuRunning, woken,
                   oneRunning, isRunning, failures>>

ScanDone(q) ==
    /\ ppc[q] = "scan"
    /\ todo[q] = {}
    /\ ppc' = [ppc EXCEPT ![q] = "check"]
    /\ UNCHANGED <<hwVars, contextVars, workerVars, signalled, isDpuRunning, woken,
                   oneRunning, todo, cur, was, isRunning, failures>>

Broadcast(r) == signalled' = [signalled EXCEPT ![r] = pc[r] = "wait"]

(* Mutant: off by one. *)
BroadcastLate(q, n) == was[q] > n + 1

(* The worker is woken up when fewer DPUs run than were read. *)
MustBroadcast(q, n) == was[q] > n

(* polling_thread_rank could not take the mutex of the rank. *)
RetryRank(q) == oneRunning' = [oneRunning EXCEPT ![q] = TRUE]

(* The rest of polling_thread_rank: trylock, poll, broadcast, unlock. *)
PollRank(q) ==
    /\ ppc[q] = "poll"
    /\ ppc' = [ppc EXCEPT ![q] = "scan"]
    /\ \E r \in cur[q] :
          \/ /\ Locked(r)
             /\ RetryRank(q)
             /\ UNCHANGED <<contextVars, signalled, failures>>
          \/ /\ ~Locked(r)
             /\ AccessFails
             /\ pollStatus' = [pollStatus EXCEPT ![r] = "ERR"]
             /\ Broadcast(r)
             /\ UNCHANGED <<running, inFault, nb, oneRunning>>
          \/ /\ ~Locked(r)
             /\ Refresh(r)
             /\ pollStatus' = [pollStatus EXCEPT ![r] = "OK"]
             /\ IF MustBroadcast(q, nb'[r]) THEN Broadcast(r) ELSE UNCHANGED signalled
             /\ oneRunning' = [oneRunning EXCEPT ![q] = @ \/ nb'[r] # 0]
             /\ UNCHANGED failures
    /\ cur' = [cur EXCEPT ![q] = {}]
    /\ was' = [was EXCEPT ![q] = 0]
    /\ UNCHANGED <<hwVars, workerVars, isDpuRunning, woken, todo, isRunning>>

(* polling_thread_destroy, when the process exits. *)
Destroy(q) ==
    /\ isRunning[q]
    /\ isRunning' = [isRunning EXCEPT ![q] = FALSE]
    /\ SignalPoller(q)
    /\ UNCHANGED <<hwVars, contextVars, workerVars, signalled, ppc, isDpuRunning, oneRunning,
                   todo, cur, was, failures>>

-----------------------------------------------------------------------------

InJob(r) == Boot(r) \/ StartThread(r) \/ Kick(r) \/ Sync(r) \/ Block(r) \/ WakeUp(r)

PollerStep(q) ==
    \/ Check(q) \/ SleepOrScan(q) \/ PollerWakes(q) \/ ReadRank(q) \/ ScanDone(q)
    \/ PollRank(q)

Next ==
    \/ \E r \in Rank : StartJob(r) \/ InJob(r) \/ \E d \in Dpu : DpuStops(r, d)
    \/ \E q \in Queue : PollerStep(q) \/ Destroy(q)

Spec == Init /\ [][Next]_vars

(* The operating system schedules a thread that can run; the program of a  *)
(* DPU ends or faults.  Nothing makes the application launch again, or     *)
(* exit.                                                                   *)
Fairness ==
    /\ \A r \in Rank : WF_vars(InJob(r))
    /\ \A r \in Rank, d \in Dpu : WF_vars(DpuStops(r, d))
    /\ \A q \in Queue : WF_vars(PollerStep(q))

FairSpec == Spec /\ Fairness

-----------------------------------------------------------------------------
(***************************************************************************)
(* Properties.                                                             *)
(***************************************************************************)

(* The counter nb_dpu_running, which dpu_boot_rank, dpu_sync_rank, the     *)
(* polling thread and the copies trust, counts the bits of dpu_running,    *)
(* which dpu_boot_dpu and dpu_sync_dpu trust, after any mixture of         *)
(* launches, polls and failed starts.                                      *)
RunContextCounts == \A r \in Rank : nb[r] = Cardinality(running[r])

(* A launch job that succeeded has waited for its DPUs: none of them runs  *)
(* or is in fault.                                                         *)
LaunchComplete ==
    \A r \in Rank :
        pc[r] = "idle" /\ result[r] = "OK" => Selected(r) \cap (hwRun[r] \cup hwFault[r]) = {}

(* The comment of polling_thread_rank: the polling thread does not sleep   *)
(* while a worker that has told it of its launch waits for DPUs, although  *)
(* the thread reads nb_dpu_running without the mutex of the rank, and      *)
(* skips the rank when it cannot take the mutex.                           *)
PollerAwake ==
    \A r \in Rank :
        pc[r] \in {"sync", "block", "wait"} /\ MustWait(r) /\ pollStatus[r] = "OK" =>
            \/ ppc[QueueOf[r]] # "sleep"
            \/ woken[QueueOf[r]]

(* A worker waits on poll_cond, with no broadcast under way, only for DPUs *)
(* that the run context still shows running: no poll that lowers           *)
(* nb_dpu_running goes by without a broadcast.                             *)
NoMissedBroadcast == \A r \in Rank : pc[r] = "wait" /\ ~signalled[r] => MustWait(r)

(* Every launch job ends, unless the process exits. *)
LaunchReturns ==
    \A r \in Rank : pc[r] # "idle" ~> (pc[r] = "idle" \/ ~isRunning[QueueOf[r]])

(* The polling thread ends when it is told to: pthread_join in             *)
(* polling_thread_destroy returns.                                         *)
PollerStops == \A q \in Queue : ~isRunning[q] ~> ppc[q] = "exit"
====
