------------------------------- MODULE Preempt -------------------------------
(***************************************************************************)
(* Lazy preemption, src/api/dpu_runner.c: dpu_launch_preempt,              *)
(* dpu_launch_preempt_restart and dpu_launch_preempt_advance with the      *)
(* policy DPU_SYNCHRONOUS on a set of ranks.                               *)
(*                                                                         *)
(* The caller starts a preemption thread, has every rank of the set run a  *)
(* LAUNCH_RANK and a SYNC job, and joins the thread.  The thread looks at  *)
(* the run context of every rank each check_interval; when enough ranks    *)
(* are done it aborts the others, once, and ends.  Aborting a rank resets  *)
(* it (restart mode) or clears nb_dpu_running behind the back of the       *)
(* polling thread (advance mode); both tell the worker threads of the rank *)
(* to stop.                                                                *)
(*                                                                         *)
(* Module Polling gives the launch job of a rank and the polling thread.   *)
(* Of the job engine (module ThreadJob) what matters is kept: which ranks  *)
(* are queued, which worker serves which rank, how many SYNC jobs are to   *)
(* be run.  The host function of restart mode changes no state of the API. *)
(***************************************************************************)
EXTENDS Polling

CONSTANTS
    RankAt,             \* dpu_set->list.ranks, all the ranks
    Worker,             \* the threads that run dpu_thread_job_fct
    InfoOf,             \* the rank whose thread_info a worker was given
    Modes,              \* the modes in which the application launches
    ResetMayFail,       \* dpu_reset_rank may fail and leave the DPUs running
    Slow,               \* ranks whose DPUs may run for ever
    MaxLaunches,        \* bound: calls of dpu_launch_preempt
    MaxClock            \* bound: check_intervals told apart

NrRanks == Cardinality(Rank)

ASSUME PreemptAssumption ==
    /\ IsFiniteSet(Rank)
    /\ RankAt \in [1..NrRanks -> Rank]
    /\ \A i, j \in 1..NrRanks : RankAt[i] = RankAt[j] => i = j
    /\ InfoOf \in [Worker -> Rank]
    /\ Targets = {All}
    /\ Modes \subseteq {"restart", "advance"}
    /\ ResetMayFail \in BOOLEAN
    /\ Slow \subseteq Rank
    /\ MaxLaunches \in Nat /\ MaxClock \in Nat \ {0}

VARIABLES
    lpc,                \* where the caller of dpu_launch_preempt is
    launches, mode,     \* how often it has called, which function last
    left,               \* sync->nr_ranks
    syncStatus,         \* sync->status, then what the call returned
    queued,             \* ranks whose launch job no worker has taken
    serving,            \* the rank a worker serves, if any
    shouldStop,         \* rank->api.thread_info.should_stop
    tpc, idx,           \* where the preemption thread is, at which rank
    stopPolling,        \* sync->stop_polling
    clock,              \* check_intervals since preempt.startTime
    rankDone, numDone, avg,  \* preempt.rank_done, .num_done, .avg_execution_dur
    abort,              \* the array given to dpu_launch_preempt
    cut,                \* history: ranks reset while their DPUs were running
    early               \* history: ranks counted as done before they were booted

callVars   == <<lpc, launches, mode>>
jobVars    == <<left, syncStatus, queued, serving>>
threadVars == <<tpc, idx, clock, rankDone, numDone, avg>>
histVars    == <<cut, early>>
preemptVars == <<callVars, jobVars, shouldStop, threadVars, stopPolling, abort, histVars>>
allVars == <<vars, preemptVars>>

PreemptTypeOK ==
    /\ TypeOK
    /\ lpc \in {"idle", "add", "wait", "join"}
    /\ launches \in 0..MaxLaunches
    /\ mode \in {"restart", "advance"}
    /\ left \in 0..NrRanks
    /\ syncStatus \in {"OK", "ERR"}
    /\ queued \in SUBSET Rank
    /\ serving \in [Worker -> SUBSET Rank]
    /\ shouldStop \in [Rank -> BOOLEAN]
    /\ tpc \in {"none", "check", "status", "abort", "reset", "clear", "wake", "done"}
    /\ idx \in 1..NrRanks + 1
    /\ stopPolling \in BOOLEAN
    /\ clock \in 0..MaxClock
    /\ rankDone \in [Rank -> 0..2]
    /\ numDone \in 0..NrRanks
    /\ avg \in 0..MaxClock
    /\ abort \in [Rank -> 0..1]
    /\ cut \in SUBSET Rank /\ early \in SUBSET Rank

PreemptInit ==
    /\ Init
    /\ lpc = "idle" /\ launches = 0 /\ mode = "restart"
    /\ left = 0 /\ syncStatus = "OK"
    /\ queued = {} /\ serving = [w \in Worker |-> {}]
    /\ shouldStop = [r \in Rank |-> FALSE]
    /\ tpc = "none" /\ idx = 1
    /\ stopPolling = FALSE
    /\ clock = 0
    /\ rankDone = [r \in Rank |-> 0] /\ numDone = 0 /\ avg = 0
    /\ abort = [r \in Rank |-> 0]
    /\ cut = {} /\ early = {}

-----------------------------------------------------------------------------
(***************************************************************************)
(* The caller.                                                             *)
(***************************************************************************)

(* The SYNC jobs of the call, one per rank. *)
SyncJobs == NrRanks

(* DPU_THREAD_JOB_GET_JOBS and init_preempt: the preemption thread exists  *)
(* before the jobs are added.                                              *)
InitPreempt ==
    /\ lpc = "idle"
    /\ launches < MaxLaunches
    /\ launches' = launches + 1
    /\ mode' \in Modes
    /\ lpc' = "add"
    /\ left' = SyncJobs
    /\ syncStatus' = "OK"
    /\ stopPolling' = FALSE
    /\ tpc' = "check" /\ idx' = 1
    /\ clock' = 0
    /\ rankDone' = [r \in Rank |-> 0] /\ numDone' = 0 /\ avg' = 0
    /\ cut' = {} /\ early' = {}
    /\ UNCHANGED <<vars, queued, serving, shouldStop, abort>>

(* dpu_thread_job_do_jobs adds the jobs. *)
AddLaunchJobs ==
    /\ lpc = "add"
    /\ lpc' = "wait"
    /\ queued' = Rank
    /\ UNCHANGED <<vars, launches, mode, left, syncStatus, serving, shouldStop, threadVars,
                   stopPolling, abort, histVars>>

(* dpu_thread_job_do_jobs returns; clean_preempt, up to pthread_join. *)
CleanPreempt ==
    /\ lpc = "wait"
    /\ left = 0
    /\ lpc' = "join"
    /\ stopPolling' = TRUE
    /\ UNCHANGED <<vars, launches, mode, jobVars, shouldStop, threadVars, abort, histVars>>

(* pthread_join returns, and the call with it. *)
JoinPreempt ==
    /\ lpc = "join"
    /\ tpc = "done"
    /\ lpc' = "idle"
    /\ UNCHANGED <<vars, launches, mode, jobVars, shouldStop, threadVars, stopPolling, abort, histVars>>

-----------------------------------------------------------------------------
(***************************************************************************)
(* The workers.                                                            *)
(***************************************************************************)

(* dpu_thread_job_fct looks at should_stop of the rank it was created for, *)
(* whatever rank it serves, each time it is about to take a rank.          *)
MayServe(w) == ~shouldStop[InfoOf[w]]

(* The worker takes the first rank of its queue. *)
TakeLaunchJob(w) ==
    /\ serving[w] = {}
    /\ MayServe(w)
    /\ \E i \in 1..NrRanks :
          LET r == RankAt[i] IN
          /\ r \in queued
          /\ QueueOf[r] = QueueOf[InfoOf[w]]
          /\ \A j \in 1..i - 1 : RankAt[j] \in queued => QueueOf[RankAt[j]] # QueueOf[r]
          /\ StartJob(r)
          /\ queued' = queued \ {r}
          /\ serving' = [serving EXCEPT ![w] = {r}]
    /\ UNCHANGED <<callVars, left, syncStatus, shouldStop, threadVars, stopPolling, abort, histVars>>

(* The worker runs its launch job; when the job has ended the SYNC job is  *)
(* run, or counted off with the error by dpu_thread_update_status.         *)
RunLaunchJob(w) ==
    /\ \E r \in serving[w] :
          /\ InJob(r)
          /\ IF pc'[r] = "idle"
             THEN /\ serving' = [serving EXCEPT ![w] = {}]
                  /\ left' = left - 1
                  /\ syncStatus' = IF result'[r] = "OK" THEN syncStatus ELSE "ERR"
             ELSE UNCHANGED <<serving, left, syncStatus>>
    /\ UNCHANGED <<callVars, queued, shouldStop, threadVars, stopPolling, abort, histVars>>

-----------------------------------------------------------------------------
(***************************************************************************)
(* The preemption thread, dpu_poll_status and dpu_poll_status_advance.     *)
(***************************************************************************)

CurRank == RankAt[idx]

(* The launch job of the rank has not been taken in this call. *)
NotBooted(r) == lpc = "add" \/ r \in queued

(* The test of stop_polling, then nano_sleep. *)
PollStatus ==
    /\ tpc = "check"
    /\ \/ /\ stopPolling
          /\ tpc' = "done"
          /\ UNCHANGED <<idx, clock>>
       \/ /\ ~stopPolling
          /\ tpc' = "status"
          /\ idx' = 1
          /\ clock' = IF clock < MaxClock THEN clock + 1 ELSE clock
    /\ UNCHANGED <<vars, callVars, jobVars, shouldStop, rankDone, numDone, avg, stopPolling,
                   abort, histVars>>

(* Mutant: the loop over the control interfaces is skipped. *)
LooksDoneAlways(r) == TRUE

(* dpu_status_rank: the run context shows no DPU running. *)
LooksDone(r) == running[r] = {}

(* each_rank_status on one rank; dpu_status_rank takes the mutex of the    *)
(* rank.  A rank with a DPU in fault while others run is never counted.    *)
EachRankStatus ==
    /\ tpc = "status"
    /\ idx <= NrRanks
    /\ ~Locked(CurRank)
    /\ idx' = idx + 1
    /\ IF LooksDone(CurRank)
       THEN IF rankDone[CurRank] = 0
            THEN /\ rankDone' = [rankDone EXCEPT ![CurRank] = 1]
                 /\ numDone' = numDone + 1
                 /\ avg' = (avg * numDone + clock) \div (numDone + 1)
                 /\ early' = IF NotBooted(CurRank) THEN early \cup {CurRank} ELSE early
            ELSE UNCHANGED <<rankDone, numDone, avg, early>>
       ELSE /\ rankDone' = IF inFault[CurRank] # {} THEN [rankDone EXCEPT ![CurRank] = 2]
                           ELSE rankDone
            /\ UNCHANGED <<numDone, avg, early>>
    /\ UNCHANGED <<vars, callVars, jobVars, shouldStop, tpc, clock, stopPolling, abort, cut>>

(* preempt.nr_rank_threshold: RANK_THRESHOLD * nr_rank, rounded down. *)
Threshold == (2 * NrRanks) \div 5

(* determine_struggle_dpu: elapsed * (1 + EXECUTION_WINDOW) is compared    *)
(* with the average.                                                       *)
DetermineStruggle == numDone >= Threshold /\ 6 * clock > 5 * avg

Determine ==
    /\ tpc = "status"
    /\ idx = NrRanks + 1
    /\ idx' = 1
    /\ \/ DetermineStruggle /\ tpc' = "abort" /\ stopPolling' = TRUE
       \/ ~DetermineStruggle /\ tpc' = "check" /\ UNCHANGED stopPolling
    /\ UNCHANGED <<vars, callVars, jobVars, shouldStop, clock, rankDone, numDone, avg, abort,
                   histVars>>

(* Mutant: only the ranks with a DPU in fault are aborted. *)
FaultsOnly(r) == rankDone[r] = 2

(* abort_struggling_dpus: the ranks that have not been seen done. *)
Struggles(r) == rankDone[r] = 0

(* Mutant: the two assignments are swapped. *)
MarkFinished(r) == abort' = [abort EXCEPT ![r] = 0]

MarkAborted(r) == abort' = [abort EXCEPT ![r] = 1]

(* abort_struggling_dpus and abort_struggling_dpus_advance, one rank; of a *)
(* rank to abort, up to should_stop.                                       *)
AbortStruggling ==
    /\ tpc = "abort"
    /\ idx <= NrRanks
    /\ \/ /\ Struggles(CurRank)
          /\ MarkAborted(CurRank)
          /\ shouldStop' = [shouldStop EXCEPT ![CurRank] = TRUE]
          /\ tpc' = IF mode = "advance" THEN "clear" ELSE "reset"
          /\ UNCHANGED idx
       \/ /\ ~Struggles(CurRank)
          /\ abort' = [abort EXCEPT ![CurRank] = 0]
          /\ idx' = idx + 1
          /\ UNCHANGED <<shouldStop, tpc>>
    /\ UNCHANGED <<vars, callVars, jobVars, clock, rankDone, numDone, avg, stopPolling, histVars>>

(* abort_struggling_dpu: dpu_reset_rank, whose status is ignored, stops    *)
(* the DPUs; the run context is left for the polling thread to refresh.    *)
ResetRank ==
    /\ tpc = "reset"
    /\ ~Locked(CurRank)
    /\ \/ /\ hwRun' = [hwRun EXCEPT ![CurRank] = {}]
          /\ hwFault' = [hwFault EXCEPT ![CurRank] = {}]
          /\ cut' = IF hwRun[CurRank] # {} THEN cut \cup {CurRank} ELSE cut
       \/ ResetMayFail /\ UNCHANGED <<hwVars, cut>>
    /\ tpc' = "abort"
    /\ idx' = idx + 1
    /\ UNCHANGED <<contextVars, workerVars, signalled, pollerVars, isRunning, failures,
                   callVars, jobVars, shouldStop, clock, rankDone, numDone, avg, stopPolling,
                   abort, early>>

(* abort_struggling_dpu_advance: the loop that clears nb_dpu_running, with *)
(* no lock, until it reads zero.                                           *)
ClearRunning ==
    /\ tpc = "clear"
    /\ \/ /\ nb[CurRank] # 0
          /\ nb' = [nb EXCEPT ![CurRank] = 0]
          /\ tpc' = "wake"
          /\ UNCHANGED idx
       \/ /\ nb[CurRank] = 0
          /\ tpc' = "abort"
          /\ idx' = idx + 1
          /\ UNCHANGED nb
    /\ UNCHANGED <<hwVars, running, inFault, pollStatus, workerVars, signalled, pollerVars,
                   isRunning, failures, callVars, jobVars, shouldStop, clock, rankDone,
                   numDone, avg, stopPolling, abort, histVars>>

WakeSync ==
    /\ tpc = "wake"
    /\ Broadcast(CurRank)
    /\ tpc' = "clear"
    /\ UNCHANGED <<hwVars, contextVars, workerVars, pollerVars, isRunning, failures, callVars,
                   jobVars, shouldStop, idx, clock, rankDone, numDone, avg, stopPolling,
                   abort, histVars>>

AbortDone ==
    /\ tpc = "abort"
    /\ idx = NrRanks + 1
    /\ tpc' = "done"
    /\ UNCHANGED <<vars, callVars, jobVars, shouldStop, idx, clock, rankDone, numDone, avg,
                   stopPolling, abort, histVars>>

-----------------------------------------------------------------------------

InLaunch == AddLaunchJobs \/ CleanPreempt \/ JoinPreempt

ThreadStep ==
    \/ PollStatus \/ EachRankStatus \/ Determine \/ AbortStruggling \/ ResetRank
    \/ ClearRunning \/ WakeSync \/ AbortDone

HostWorker(w) == TakeLaunchJob(w) \/ RunLaunchJob(w)

DpusStop(r, d) == DpuStops(r, d) /\ UNCHANGED preemptVars

Poller(q) == PollerStep(q) /\ UNCHANGED preemptVars

PreemptNext ==
    \/ InitPreempt \/ InLaunch \/ ThreadStep
    \/ \E w \in Worker : HostWorker(w)
    \/ \E r \in Rank, d \in Dpu : DpusStop(r, d)
    \/ \E q \in Queue : Poller(q)

PreemptSpec == PreemptInit /\ [][PreemptNext]_allVars

(* As in Polling, and the preemption thread and the caller are scheduled;  *)
(* only the DPUs of the ranks that are not slow are sure to stop.          *)
PreemptFairness ==
    /\ WF_allVars(InLaunch) /\ WF_allVars(ThreadStep)
    /\ \A w \in Worker : WF_allVars(HostWorker(w))
    /\ \A r \in Rank \ Slow, d \in Dpu : WF_allVars(DpusStop(r, d))
    /\ \A q \in Queue : WF_allVars(Poller(q))

PreemptFairSpec == PreemptSpec /\ PreemptFairness

-----------------------------------------------------------------------------
(***************************************************************************)
(* Properties.                                                             *)
(***************************************************************************)

Returned == lpc = "idle" /\ launches > 0 /\ syncStatus = "OK"

(* The host recomputes what abort[] names: when the call has returned      *)
(* DPU_OK, every rank whose DPUs were stopped by the reset, or still run,  *)
(* is marked, whatever rank_done the preemption thread had read before.    *)
UnfinishedReported ==
    Returned => \A r \in Rank :
        r \in cut \/ hwRun[r] \ hwFault[r] # {} => abort[r] = 1

(* A rank that each_rank_status counts as done, although it reads the run  *)
(* context and not the DPUs, has stopped and does not run again in the     *)
(* call.  The exceptions: a rank counted before its launch job was taken,  *)
(* and one whose launch has failed.                                        *)
DoneIsDone ==
    \A r \in Rank :
        /\ lpc # "idle" /\ rankDone[r] = 1 /\ r \notin early
        /\ ~(pc[r] = "idle" /\ result[r] = "ERR")
        => hwRun[r] \subseteq hwFault[r]

(* No worker of the queue of a rank that is to be launched goes on: an     *)
(* earlier abort has left should_stop set for each of them.                *)
Stranded ==
    \E r \in queued : \A w \in Worker :
        QueueOf[InfoOf[w]] = QueueOf[r] => ~MayServe(w) /\ serving[w] = {}

(* A rank that runs will not be aborted: the thread took it as done before *)
(* its boot, or has seen one of its DPUs in fault.                         *)
Overlooked == \E r \in Rank : rankDone[r] # 0 /\ hwRun[r] \ hwFault[r] # {}

(* A call of dpu_launch_preempt returns, even when the DPUs of slow ranks  *)
(* run for ever and whatever earlier calls have aborted, unless its ranks  *)
(* are stranded or one is overlooked.                                      *)
PreemptReturns == lpc # "idle" ~> lpc = "idle" \/ Stranded \/ Overlooked
====
