------------------------------ MODULE ThreadJob ------------------------------
(***************************************************************************)
(* The job engine of the host API (api/src/api/dpu_thread_job.c).          *)
(*                                                                         *)
(* Every API call on a DPU set becomes jobs: one per rank of the set for   *)
(* an asynchronous call or dpu_sync, two (the operation and a SYNC job)    *)
(* for a synchronous call.  A rank owns a FIFO of jobs and a pool of job   *)
(* slots; a rank whose FIFO becomes non-empty is put in a job queue (one   *)
(* per NUMA node), from which worker threads take it and run its FIFO      *)
(* until it is empty.  A client is any thread that calls the API: the      *)
(* application's threads, and a worker that runs a non-blocking callback.  *)
(*                                                                         *)
(* A critical section that takes no other lock is one step.  The sections  *)
(* that nest locks (add_jobs: jobs_mutex then queue mutex; get_jobs:       *)
(* jobs_mutex then the jobs_mutex of earlier ranks; update_status:         *)
(* jobs_mutex then the mutex of a sync) are split at every inner lock.     *)
(*                                                                         *)
(* Abstracted: the operation a job performs is a step that succeeds or     *)
(* fails; job slots of a rank are interchangeable, so the pool is a count. *)
(* A wait on a condition variable may end without a signal, as POSIX says  *)
(* (SpuriousWakeups).                                                      *)
(***************************************************************************)
EXTENDS Integers, Sequences, FiniteSets

CONSTANTS
    Rank,           \* the allocated ranks
    Queue,          \* the job queues, one per NUMA node
    QueueOf,        \* rank->api.thread_info.queue_idx
    Client,         \* threads that call the API
    Worker,         \* threads that run dpu_thread_job_fct
    WorkerQueue,    \* the queue a worker serves
    DpuSets,        \* the DPU sets a client may name: their ranks, in order
    CallKinds,      \* the kinds of call the clients make
    NrJobs,         \* rank->api.nr_jobs
    SpuriousWakeups,\* pthread_cond_wait may return without a signal
    Nobody          \* the holder of a free mutex; the rank of an idle worker

ASSUME SetAssumption ==
    /\ QueueOf \in [Rank -> Queue]
    /\ WorkerQueue \in [Worker -> Queue]
    /\ Client \cap Worker = {}
    /\ Nobody \notin Client \cup Worker \cup Rank

(* A set names at least one rank, and no rank twice. *)
ASSUME DpuSetsAssumption ==
    /\ DpuSets \in [Client -> SUBSET Seq(Rank)]
    /\ \A c \in Client : \A s \in DpuSets[c] :
          /\ Len(s) > 0
          /\ \A i, j \in 1..Len(s) : s[i] = s[j] => i = j

ASSUME NrJobsAssumption == NrJobs \in Nat

ASSUME SpuriousAssumption == SpuriousWakeups \in BOOLEAN

(* An asynchronous call; a synchronous call; dpu_sync. *)
Kind == {"async", "sync", "dpu_sync"}

ASSUME KindsAssumption == CallKinds \subseteq Kind

VARIABLES
    jobs,           \* rank->api.jobs, the FIFO of jobs to run
    available,      \* rank->api.available_jobs_length
    jobError,       \* rank->api.job_error
    jobsMutex,      \* the holder of rank->api.jobs_mutex
    slotWait,       \* the clients blocked on rank->api.available_jobs_cond
    queue,          \* queues[i].list, as the ranks of the jobs it links
    queueMutex,     \* the holder of queues[i].mutex
    rankMutex,      \* the holder of rank->mutex
    pc, kind, set,  \* where a client is, in which call, on which set
    at, got,        \* loop index over the set; slots taken on that rank
    errAt,          \* the index at which get_jobs met an error
    result,         \* what the last call of the client returned
    left, status,   \* sync->nr_ranks and sync->status of the client's call
    syncMutex,      \* the holder of sync->mutex
    signalled,      \* sync->cond has been signalled
    wpc, wrank,     \* where a worker is, the rank it serves
    failed          \* history: the types of the client's jobs that failed
                    \* since a call of the client last returned an error

rankVars   == <<jobs, available, jobError, jobsMutex, slotWait>>
queueVars  == <<queue, queueMutex>>
clientVars == <<pc, kind, set, at, got, errAt, result>>
syncVars   == <<left, status, syncMutex, signalled>>
workerVars == <<wpc, wrank>>
vars == <<rankVars, queueVars, rankMutex, clientVars, syncVars, workerVars, failed>>

Thread == Client \cup Worker

(* The operation of an asynchronous call, of a synchronous one; a SYNC job. *)
JobType == {"async", "op", "sync"}
Job     == [type : JobType, owner : Client]

Status  == {"OK", "ERR"}

(* A call returns the status of its sync, or the job_error get_jobs met. *)
Result  == Status \cup {"JOBERR"}

ClientPc == {"idle", "get", "unget", "add", "addq", "wait", "reset"}
WorkerPc == {"main", "lock", "run", "notify", "advance", "fail", "clear",
             "clearNotify", "unlock"}

TypeOK ==
    /\ jobs \in [Rank -> Seq(Job)]
    /\ available \in [Rank -> Nat]
    /\ jobError \in [Rank -> Status]
    /\ jobsMutex \in [Rank -> Thread \cup {Nobody}]
    /\ slotWait \in [Rank -> SUBSET Client]
    /\ queue \in [Queue -> Seq(Rank)]
    /\ queueMutex \in [Queue -> Client \cup {Nobody}]
    /\ rankMutex \in [Rank -> Worker \cup {Nobody}]
    /\ pc \in [Client -> ClientPc]
    /\ kind \in [Client -> Kind]
    /\ set \in [Client -> Seq(Rank)]
    /\ at \in [Client -> Nat]
    /\ got \in [Client -> Nat]
    /\ errAt \in [Client -> Nat]
    /\ result \in [Client -> Result]
    /\ left \in [Client -> Int]
    /\ status \in [Client -> Status]
    /\ syncMutex \in [Client -> Thread \cup {Nobody}]
    /\ signalled \in [Client -> BOOLEAN]
    /\ wpc \in [Worker -> WorkerPc]
    /\ wrank \in [Worker -> Rank \cup {Nobody}]
    /\ failed \in [Client -> SUBSET JobType]

Init ==
    /\ jobs = [r \in Rank |-> <<>>]
    /\ available = [r \in Rank |-> NrJobs]
    /\ jobError = [r \in Rank |-> "OK"]
    /\ jobsMutex = [r \in Rank |-> Nobody]
    /\ slotWait = [r \in Rank |-> {}]
    /\ queue = [q \in Queue |-> <<>>]
    /\ queueMutex = [q \in Queue |-> Nobody]
    /\ rankMutex = [r \in Rank |-> Nobody]
    /\ pc = [c \in Client |-> "idle"]
    /\ kind = [c \in Client |-> "async"]
    /\ set = [c \in Client |-> <<>>]
    /\ at = [c \in Client |-> 0]
    /\ got = [c \in Client |-> 0]
    /\ errAt = [c \in Client |-> 0]
    /\ result = [c \in Client |-> "OK"]
    /\ left = [c \in Client |-> 0]
    /\ status = [c \in Client |-> "OK"]
    /\ syncMutex = [c \in Client |-> Nobody]
    /\ signalled = [c \in Client |-> FALSE]
    /\ wpc = [w \in Worker |-> "main"]
    /\ wrank = [w \in Worker |-> Nobody]
    /\ failed = [c \in Client |-> {}]

-----------------------------------------------------------------------------
(***************************************************************************)
(* Shared helpers.                                                         *)
(***************************************************************************)

(* Mutants: nobody is woken up; the length is decremented. *)
ReleaseJobSlotSilently(r) ==
    available' = [available EXCEPT ![r] = @ + 1] /\ UNCHANGED slotWait

ReleaseJobSlotMiscounted(r) ==
    available' = [available EXCEPT ![r] = @ - 1] /\ UNCHANGED slotWait

(* dpu_thread_release_job_slot_unlocked: the slot goes back to the pool of *)
(* the rank; a client blocked on the pool is woken up only when the pool   *)
(* was empty.                                                              *)
ReleaseJobSlot(r) ==
    /\ available' = [available EXCEPT ![r] = @ + 1]
    /\ IF available[r] = 0 /\ slotWait[r] # {}
       THEN \E c \in slotWait[r] : slotWait' = [slotWait EXCEPT ![r] = @ \ {c}]
       ELSE UNCHANGED slotWait

(* The call of c returns v to the application. *)
Return(c, v) ==
    /\ pc' = [pc EXCEPT ![c] = "idle"]
    /\ at' = [at EXCEPT ![c] = 0]
    /\ got' = [got EXCEPT ![c] = 0]
    /\ errAt' = [errAt EXCEPT ![c] = 0]
    /\ result' = [result EXCEPT ![c] = v]
    /\ failed' = [failed EXCEPT ![c] = IF v = "OK" THEN @ ELSE {}]
    /\ UNCHANGED <<kind, set>>

(* Moves c to the next rank of its loop. *)
Step(c) == at' = [at EXCEPT ![c] = @ + 1]

CurRank(c) == set[c][at[c]]

-----------------------------------------------------------------------------
(***************************************************************************)
(* An API call: get the job slots, add the jobs, wait for the SYNC jobs.   *)
(***************************************************************************)

(* Mutant: no slot for the SYNC job. *)
OneJobPerRank(c) == 1

(* DPU_THREAD_JOB_GET_JOBS: the slots the call needs on each rank. *)
JobsPerRank(c) == IF kind[c] = "sync" THEN 2 ELSE 1

(* Mutant: the SYNC job goes first. *)
SyncJobFirst(c) ==
    CASE kind[c] = "async"    -> <<[type |-> "async", owner |-> c]>>
      [] kind[c] = "dpu_sync" -> <<[type |-> "sync", owner |-> c]>>
      [] kind[c] = "sync"     -> <<[type |-> "sync", owner |-> c],
                                   [type |-> "op", owner |-> c]>>

(* The jobs of the call on one rank: the operation, then the SYNC job. *)
JobsOf(c) ==
    CASE kind[c] = "async"    -> <<[type |-> "async", owner |-> c]>>
      [] kind[c] = "dpu_sync" -> <<[type |-> "sync", owner |-> c]>>
      [] kind[c] = "sync"     -> <<[type |-> "op", owner |-> c],
                                   [type |-> "sync", owner |-> c]>>

(* Mutants: the mutex is not taken; one rank is not counted. *)
InitSyncJobUnlocked(c, n) ==
    /\ left' = [left EXCEPT ![c] = n]
    /\ status' = [status EXCEPT ![c] = "OK"]
    /\ syncMutex' = [syncMutex EXCEPT ![c] = Nobody]
    /\ signalled' = [signalled EXCEPT ![c] = FALSE]

InitSyncJobShort(c, n) ==
    /\ left' = [left EXCEPT ![c] = IF n > 1 THEN n - 1 ELSE n]
    /\ status' = [status EXCEPT ![c] = "OK"]
    /\ syncMutex' = [syncMutex EXCEPT ![c] = c]
    /\ signalled' = [signalled EXCEPT ![c] = FALSE]

(* dpu_thread_job_init_sync_job.  The caller keeps the mutex of the sync   *)
(* until it waits on its condition variable.                               *)
InitSyncJob(c, n) ==
    /\ left' = [left EXCEPT ![c] = n]
    /\ status' = [status EXCEPT ![c] = "OK"]
    /\ syncMutex' = [syncMutex EXCEPT ![c] = c]
    /\ signalled' = [signalled EXCEPT ![c] = FALSE]

(* The application calls the API. *)
Call(c) ==
    /\ pc[c] = "idle"
    /\ \E k \in CallKinds, s \in DpuSets[c] :
          /\ kind' = [kind EXCEPT ![c] = k]
          /\ set' = [set EXCEPT ![c] = s]
          /\ IF k = "async" THEN UNCHANGED syncVars ELSE InitSyncJob(c, Len(s))
    /\ pc' = [pc EXCEPT ![c] = "get"]
    /\ at' = [at EXCEPT ![c] = 1]
    /\ got' = [got EXCEPT ![c] = 0]
    /\ UNCHANGED <<rankVars, queueVars, rankMutex, errAt, result, workerVars, failed>>

(* dpu_thread_job_get_jobs on the current rank, when the pool holds enough *)
(* slots for the call.                                                     *)
GetJobs(c) ==
    LET r    == CurRank(c)
        need == JobsPerRank(c) - got[c]
    IN
    /\ pc[c] = "get"
    /\ jobsMutex[r] = Nobody
    /\ c \notin slotWait[r]
    /\ jobError[r] = "OK"
    /\ available[r] >= need
    /\ available' = [available EXCEPT ![r] = @ - need]
    /\ got' = [got EXCEPT ![c] = 0]
    /\ IF at[c] < Len(set[c])
       THEN Step(c) /\ UNCHANGED pc
       ELSE /\ at' = [at EXCEPT ![c] = 1]
            /\ pc' = [pc EXCEPT ![c] = "add"]
    /\ UNCHANGED <<jobs, jobError, jobsMutex, slotWait, queueVars, rankMutex, kind,
                   set, errAt, result, syncVars, workerVars, failed>>

(* dpu_thread_job_get_jobs when the pool runs out: the client keeps the    *)
(* slots it has taken on this rank and blocks on available_jobs_cond.      *)
WaitForSlot(c) ==
    LET r == CurRank(c) IN
    /\ pc[c] = "get"
    /\ jobsMutex[r] = Nobody
    /\ c \notin slotWait[r]
    /\ jobError[r] = "OK"
    /\ available[r] < JobsPerRank(c) - got[c]
    /\ got' = [got EXCEPT ![c] = @ + available[r]]
    /\ available' = [available EXCEPT ![r] = 0]
    /\ slotWait' = [slotWait EXCEPT ![r] = @ \cup {c}]
    /\ UNCHANGED <<jobs, jobError, jobsMutex, queueVars, rankMutex, pc, kind, set, at,
                   errAt, result, syncVars, workerVars, failed>>

(* The wait of get_jobs ends without a signal: the client looks at         *)
(* job_error and at the pool again.                                        *)
WakeForNoSlot(c) ==
    /\ SpuriousWakeups
    /\ pc[c] = "get"
    /\ c \in slotWait[CurRank(c)]
    /\ slotWait' = [slotWait EXCEPT ![CurRank(c)] = @ \ {c}]
    /\ UNCHANGED <<jobs, available, jobError, jobsMutex, queueVars, rankMutex, clientVars,
                   syncVars, workerVars, failed>>

(* dpu_thread_job_get_jobs meets job_error: keeping the jobs_mutex of this *)
(* rank, it gives back the slots taken on the earlier ranks of the set.    *)
(* A slot already taken on this rank is not given back.                    *)
GetJobsFails(c) ==
    LET r == CurRank(c) IN
    /\ pc[c] = "get"
    /\ jobsMutex[r] = Nobody
    /\ c \notin slotWait[r]
    /\ jobError[r] # "OK"
    /\ jobsMutex' = [jobsMutex EXCEPT ![r] = c]
    /\ pc' = [pc EXCEPT ![c] = "unget"]
    /\ errAt' = [errAt EXCEPT ![c] = at[c]]
    /\ at' = [at EXCEPT ![c] = 1]
    /\ UNCHANGED <<jobs, available, jobError, slotWait, queueVars, rankMutex, kind, set,
                   got, result, syncVars, workerVars, failed>>

(* dpu_thread_job_unget_jobs, one rank per step; then get_jobs unlocks the *)
(* rank it failed on and the call returns its job_error.                   *)
UngetJobs(c) ==
    LET r == CurRank(c) IN
    /\ pc[c] = "unget"
    /\ at[c] < errAt[c]
    /\ jobsMutex[r] = Nobody
    /\ available' = [available EXCEPT ![r] = @ + JobsPerRank(c)]
    /\ Step(c)
    /\ UNCHANGED <<jobs, jobError, jobsMutex, slotWait, queueVars, rankMutex, pc, kind,
                   set, got, errAt, result, syncVars, workerVars, failed>>

GetJobsReturns(c) ==
    /\ pc[c] = "unget"
    /\ at[c] = errAt[c]
    /\ jobsMutex' = [jobsMutex EXCEPT ![CurRank(c)] = Nobody]
    /\ Return(c, "JOBERR")
    /\ UNCHANGED <<jobs, available, jobError, slotWait, queueVars, rankMutex, syncVars,
                   workerVars>>

(* Mutant: the rank is linked whatever its FIFO holds. *)
AlwaysLink(r) == TRUE

(* dpu_thread_job_add_jobs links the rank in its queue with the first job. *)
MustLink(r) == jobs[r] = <<>>

(* dpu_thread_job_add_jobs on a rank whose FIFO is not empty, or whose     *)
(* queue the client has locked already.                                    *)
AddJobs(c) ==
    LET r == CurRank(c)
        q == QueueOf[r]
    IN
    /\ pc[c] = "add"
    /\ at[c] <= Len(set[c])
    /\ jobsMutex[r] = Nobody
    /\ ~MustLink(r) \/ queueMutex[q] = c
    /\ jobs' = [jobs EXCEPT ![r] = @ \o JobsOf(c)]
    /\ queue' = IF MustLink(r) THEN [queue EXCEPT ![q] = Append(@, r)] ELSE queue
    /\ Step(c)
    /\ UNCHANGED <<available, jobError, jobsMutex, slotWait, queueMutex, rankMutex, pc,
                   kind, set, got, errAt, result, syncVars, workerVars, failed>>

(* dpu_thread_job_add_jobs on a rank whose FIFO is empty: holding the      *)
(* jobs_mutex, the client has to lock the queue, which it keeps until it   *)
(* has been through all its ranks.                                         *)
AddJobsLocksRank(c) ==
    LET r == CurRank(c) IN
    /\ pc[c] = "add"
    /\ at[c] <= Len(set[c])
    /\ jobsMutex[r] = Nobody
    /\ MustLink(r)
    /\ queueMutex[QueueOf[r]] # c
    /\ jobsMutex' = [jobsMutex EXCEPT ![r] = c]
    /\ pc' = [pc EXCEPT ![c] = "addq"]
    /\ UNCHANGED <<jobs, available, jobError, slotWait, queueVars, rankMutex, kind, set,
                   at, got, errAt, result, syncVars, workerVars, failed>>

AddFirstJobs(c) ==
    LET r == CurRank(c)
        q == QueueOf[r]
    IN
    /\ pc[c] = "addq"
    /\ queueMutex[q] = Nobody
    /\ queueMutex' = [queueMutex EXCEPT ![q] = c]
    /\ queue' = [queue EXCEPT ![q] = Append(@, r)]
    /\ jobs' = [jobs EXCEPT ![r] = @ \o JobsOf(c)]
    /\ jobsMutex' = [jobsMutex EXCEPT ![r] = Nobody]
    /\ pc' = [pc EXCEPT ![c] = "add"]
    /\ Step(c)
    /\ UNCHANGED <<available, jobError, slotWait, rankMutex, kind, set, got, errAt, result,
                   syncVars, workerVars, failed>>

(* The end of dpu_thread_job_add_jobs: the queues the client locked are    *)
(* unlocked and their workers woken up.  An asynchronous call returns; the *)
(* others start to wait, which gives up the mutex of the sync.             *)
AddJobsDone(c) ==
    /\ pc[c] = "add"
    /\ at[c] > Len(set[c])
    /\ queueMutex' = [q \in Queue |-> IF queueMutex[q] = c THEN Nobody ELSE queueMutex[q]]
    /\ \/ /\ kind[c] = "async"
          /\ Return(c, "OK")
          /\ UNCHANGED syncVars
       \/ /\ kind[c] # "async"
          /\ pc' = [pc EXCEPT ![c] = "wait"]
          /\ syncMutex' = [syncMutex EXCEPT ![c] = Nobody]
          /\ UNCHANGED <<kind, set, at, got, errAt, result, left, status, signalled, failed>>
    /\ UNCHANGED <<rankVars, queue, rankMutex, workerVars>>

(* Mutant: job_error is cleared whatever the status. *)
AlwaysReset(c) == TRUE

(* dpu_thread_job_do_jobs clears job_error when the synchronous call failed. *)
MustReset(c) == status[c] # "OK"

(* pthread_cond_wait on the condition variable of the sync returns. *)
Woken(c) == signalled[c] \/ SpuriousWakeups

(* dpu_thread_job_wait_sync_job wakes up: back to waiting if some rank has *)
(* still to run its SYNC job, otherwise the status of the sync is returned *)
(* or, if it is an error, job_error is cleared first.  Without a signal it *)
(* may do so while the worker that counted the last rank off has still to  *)
(* lock the mutex of the sync.                                             *)
WaitSyncJob(c) ==
    /\ pc[c] = "wait"
    /\ Woken(c)
    /\ syncMutex[c] = Nobody
    /\ \/ /\ left[c] # 0
          /\ signalled' = [signalled EXCEPT ![c] = FALSE]
          /\ UNCHANGED <<clientVars, syncMutex, failed>>
       \/ /\ left[c] = 0
          /\ syncMutex' = [syncMutex EXCEPT ![c] = c]
          /\ \/ ~MustReset(c) /\ Return(c, "OK")
             \/ /\ MustReset(c)
                /\ pc' = [pc EXCEPT ![c] = "reset"]
                /\ at' = [at EXCEPT ![c] = 1]
                /\ UNCHANGED <<kind, set, got, errAt, result, failed>>
          /\ UNCHANGED signalled
    /\ UNCHANGED <<rankVars, queueVars, rankMutex, left, status, workerVars>>

LastReset(c) == at[c] = Len(set[c])

(* dpu_thread_job_do_jobs after a failed synchronous call: job_error of    *)
(* each rank is set back to DPU_OK, without any lock.                      *)
ResetJobError(c) ==
    /\ pc[c] = "reset"
    /\ jobError' = [jobError EXCEPT ![CurRank(c)] = "OK"]
    /\ IF LastReset(c)
       THEN Return(c, status[c])
       ELSE Step(c) /\ UNCHANGED <<pc, kind, set, got, errAt, result, failed>>
    /\ UNCHANGED <<jobs, available, jobsMutex, slotWait, queueVars, rankMutex, syncVars,
                   workerVars>>

-----------------------------------------------------------------------------
(***************************************************************************)
(* A worker thread, dpu_thread_job_fct.                                    *)
(***************************************************************************)

WorkerGoes(w, where) == wpc' = [wpc EXCEPT ![w] = where]

(* The job the worker runs, the head of its rank's FIFO. *)
CurJob(w) == Head(jobs[wrank[w]])

(* The worker takes the first rank of its queue. *)
TakeRank(w) ==
    LET q == WorkerQueue[w] IN
    /\ wpc[w] = "main"
    /\ queueMutex[q] = Nobody
    /\ queue[q] # <<>>
    /\ wrank' = [wrank EXCEPT ![w] = Head(queue[q])]
    /\ queue' = [queue EXCEPT ![q] = Tail(@)]
    /\ WorkerGoes(w, "lock")
    /\ UNCHANGED <<rankVars, queueMutex, rankMutex, clientVars, syncVars, failed>>

LockRank(w) ==
    /\ wpc[w] = "lock"
    /\ rankMutex[wrank[w]] = Nobody
    /\ rankMutex' = [rankMutex EXCEPT ![wrank[w]] = w]
    /\ WorkerGoes(w, "run")
    /\ UNCHANGED <<rankVars, queueVars, clientVars, syncVars, wrank, failed>>

(* dpu_thread_compute_job for a job that performs an operation: it         *)
(* succeeds or it fails.                                                   *)
ComputeJob(w) ==
    /\ wpc[w] = "run"
    /\ CurJob(w).type # "sync"
    /\ WorkerGoes(w, "advance") \/ WorkerGoes(w, "fail")
    /\ UNCHANGED <<rankVars, queueVars, rankMutex, clientVars, syncVars, wrank, failed>>

(* do_sync_job: the rank is counted off; the last one has to signal. *)
DoSyncJob(w, c, notify, next) ==
    /\ left' = [left EXCEPT ![c] = @ - 1]
    /\ WorkerGoes(w, IF left[c] = 1 THEN notify ELSE next)

(* The second half of do_sync_job, under the mutex of the sync: a signal   *)
(* nobody waits for is lost.  If the caller has gone, the mutex is a piece *)
(* of its stack: the worker hangs on it, gets through without an effect,   *)
(* or signals the sync that the next call of the client puts there.        *)
SignalSync(c) ==
    \/ /\ syncMutex[c] = Nobody
       /\ signalled' = [signalled EXCEPT ![c] = pc[c] = "wait"]
    \/ /\ pc[c] = "idle"
       /\ UNCHANGED signalled

(* dpu_thread_compute_job for a SYNC job. *)
ComputeSyncJob(w) ==
    /\ wpc[w] = "run"
    /\ CurJob(w).type = "sync"
    /\ DoSyncJob(w, CurJob(w).owner, "notify", "advance")
    /\ UNCHANGED <<rankVars, queueVars, rankMutex, clientVars, status, syncMutex, signalled,
                   wrank, failed>>

NotifySync(w) ==
    /\ wpc[w] = "notify"
    /\ SignalSync(CurJob(w).owner)
    /\ WorkerGoes(w, "advance")
    /\ UNCHANGED <<rankVars, queueVars, rankMutex, clientVars, left, status, syncMutex, wrank,
                   failed>>

(* Mutant: the worker leaves the rank after one job. *)
LeaveRank(r) == "unlock"

(* The worker goes on as long as the FIFO is not empty without the job it  *)
(* has just run.                                                           *)
NextJob(r) == IF Len(jobs[r]) = 1 THEN "unlock" ELSE "run"

(* dpu_thread_advance_to_next_job. *)
AdvanceToNextJob(w) ==
    LET r == wrank[w] IN
    /\ wpc[w] = "advance"
    /\ jobsMutex[r] = Nobody
    /\ jobs' = [jobs EXCEPT ![r] = Tail(@)]
    /\ ReleaseJobSlot(r)
    /\ WorkerGoes(w, NextJob(r))
    /\ UNCHANGED <<jobError, jobsMutex, queueVars, rankMutex, clientVars, syncVars, wrank,
                   failed>>

(* dpu_thread_update_status, up to its loop. *)
UpdateStatus(w) ==
    LET r == wrank[w] IN
    /\ wpc[w] = "fail"
    /\ jobsMutex[r] = Nobody
    /\ jobsMutex' = [jobsMutex EXCEPT ![r] = w]
    /\ jobError' = [jobError EXCEPT ![r] = "ERR"]
    /\ failed' = [failed EXCEPT ![CurJob(w).owner] = @ \cup {CurJob(w).type}]
    /\ WorkerGoes(w, "clear")
    /\ UNCHANGED <<jobs, available, slotWait, queueVars, rankMutex, clientVars, syncVars,
                   wrank>>

(* The loop of dpu_thread_update_status on a job that performs an operation. *)
ClearJob(w) ==
    LET r == wrank[w] IN
    /\ wpc[w] = "clear"
    /\ jobs[r] # <<>>
    /\ CurJob(w).type # "sync"
    /\ jobs' = [jobs EXCEPT ![r] = Tail(@)]
    /\ ReleaseJobSlot(r)
    /\ UNCHANGED <<jobError, jobsMutex, queueVars, rankMutex, clientVars, syncVars,
                   workerVars, failed>>

(* Mutant: the sync does not learn of the error. *)
FailSyncSilently(c) == UNCHANGED status

FailSync(c) == status' = [status EXCEPT ![c] = "ERR"]

(* The loop of dpu_thread_update_status on a SYNC job: the sync gets the   *)
(* error, then the job counts as run.                                      *)
ClearSyncJob(w) ==
    LET r == wrank[w]
        c == CurJob(w).owner
    IN
    /\ wpc[w] = "clear"
    /\ jobs[r] # <<>>
    /\ CurJob(w).type = "sync"
    /\ syncMutex[c] = Nobody
    /\ FailSync(c)
    /\ DoSyncJob(w, c, "clearNotify", "clear")
    /\ IF left[c] = 1
       THEN UNCHANGED <<jobs, available, slotWait>>
       ELSE jobs' = [jobs EXCEPT ![r] = Tail(@)] /\ ReleaseJobSlot(r)
    /\ UNCHANGED <<jobError, jobsMutex, queueVars, rankMutex, clientVars, syncMutex,
                   signalled, wrank, failed>>

ClearNotifySync(w) ==
    LET r == wrank[w] IN
    /\ wpc[w] = "clearNotify"
    /\ SignalSync(CurJob(w).owner)
    /\ jobs' = [jobs EXCEPT ![r] = Tail(@)]
    /\ ReleaseJobSlot(r)
    /\ WorkerGoes(w, "clear")
    /\ UNCHANGED <<jobError, jobsMutex, queueVars, rankMutex, clientVars, left, status,
                   syncMutex, wrank, failed>>

ClearDone(w) ==
    LET r == wrank[w] IN
    /\ wpc[w] = "clear"
    /\ jobs[r] = <<>>
    /\ jobsMutex' = [jobsMutex EXCEPT ![r] = Nobody]
    /\ WorkerGoes(w, "unlock")
    /\ UNCHANGED <<jobs, available, jobError, slotWait, queueVars, rankMutex, clientVars,
                   syncVars, wrank, failed>>

UnlockRank(w) ==
    /\ wpc[w] = "unlock"
    /\ rankMutex' = [rankMutex EXCEPT ![wrank[w]] = Nobody]
    /\ wrank' = [wrank EXCEPT ![w] = Nobody]
    /\ WorkerGoes(w, "main")
    /\ UNCHANGED <<rankVars, queueVars, clientVars, syncVars, failed>>

-----------------------------------------------------------------------------

InCall(c) ==
    \/ GetJobs(c) \/ WaitForSlot(c) \/ GetJobsFails(c) \/ UngetJobs(c) \/ GetJobsReturns(c)
    \/ AddJobs(c) \/ AddJobsLocksRank(c) \/ AddFirstJobs(c) \/ AddJobsDone(c)
    \/ WaitSyncJob(c) \/ ResetJobError(c)

WorkerStep(w) ==
    \/ TakeRank(w) \/ LockRank(w) \/ ComputeJob(w) \/ ComputeSyncJob(w) \/ NotifySync(w)
    \/ AdvanceToNextJob(w) \/ UpdateStatus(w) \/ ClearJob(w) \/ ClearSyncJob(w)
    \/ ClearNotifySync(w) \/ ClearDone(w) \/ UnlockRank(w)

Next ==
    \/ \E c \in Client : Call(c) \/ InCall(c) \/ WakeForNoSlot(c)
    \/ \E w \in Worker : WorkerStep(w)

Spec == Init /\ [][Next]_vars

(* A thread that can run runs eventually: the operating system schedules   *)
(* it, the operation of a job ends, a mutex is released.  The application  *)
(* need not call the API again.  Meant for SpuriousWakeups = FALSE: a wait *)
(* need not end without a signal.                                          *)
Fairness ==
    /\ \A c \in Client : WF_vars(InCall(c))
    /\ \A w \in Worker : WF_vars(WorkerStep(w))

FairSpec == Spec /\ Fairness

-----------------------------------------------------------------------------
(***************************************************************************)
(* Properties.                                                             *)
(***************************************************************************)

(* The worker is running the FIFO of the rank, or about to. *)
Serves(w, r) == wrank[w] = r /\ wpc[w] # "unlock"

Queued(r) == \E i \in DOMAIN queue[QueueOf[r]] : queue[QueueOf[r]][i] = r

(* The FIFO of a rank is run by one thread at a time: a rank is linked at  *)
(* most once in its queue, two workers never serve it together, and it is  *)
(* not linked while a worker serves it.  add_jobs decides to link a rank   *)
(* by finding its FIFO empty, under another mutex than the worker that     *)
(* takes the rank out of the queue.                                        *)
ScheduledOnce ==
    /\ \A q \in Queue : \A i, j \in DOMAIN queue[q] : queue[q][i] = queue[q][j] => i = j
    /\ \A v, w \in Worker : \A r \in Rank : Serves(v, r) /\ Serves(w, r) => v = w
    /\ \A w \in Worker, r \in Rank : Serves(w, r) => ~Queued(r)

(* A rank with jobs is never forgotten: as long as its FIFO is not empty   *)
(* it is linked in its queue or served by a worker (dpu_thread_job_fct     *)
(* leaves a rank only when advance_to_next_job finds the FIFO empty, or    *)
(* after update_status has cleared it).                                    *)
NoForgottenRank ==
    \A r \in Rank : jobs[r] # <<>> => Queued(r) \/ \E w \in Worker : Serves(w, r)

(* The SYNC job at the head of the FIFO has been counted off already. *)
HeadCounted(r) ==
    \E w \in Worker : wrank[w] = r /\ wpc[w] \in {"notify", "advance", "clearNotify"}

(* The ranks on which the SYNC job of the call of c is still to be run. *)
SyncRanks(c) ==
    {r \in Rank : \E i \in DOMAIN jobs[r] :
        jobs[r][i] = [type |-> "sync", owner |-> c] /\ (i = 1 => ~HeadCounted(r))}

(* The dpu_thread_job_sync of a call lives on the stack of the caller: as  *)
(* long as a SYNC job that points to it has still to be counted off, and   *)
(* to write its nr_ranks and its status, the caller has not returned, even *)
(* if its wait ended without a signal.  (The mutex and the condition       *)
(* variable of the sync have no such guarantee: do_sync_job locks the      *)
(* mutex after it has counted the last rank off.)                          *)
SyncOutlivesItsJobs ==
    \A c \in Client : SyncRanks(c) # {} => pc[c] \in {"add", "addq", "wait"}

(* sync->nr_ranks counts, at any time, the ranks of the set whose SYNC job *)
(* is still to be added or to be run, whatever mixture of successes and    *)
(* of failures that clear FIFOs the ranks go through.                      *)
SyncAccounting ==
    \A c \in Client :
        kind[c] # "async" /\ pc[c] \in {"add", "addq", "wait"} =>
            left[c] = Cardinality(SyncRanks(c))
                      + (IF pc[c] = "wait" THEN 0 ELSE Len(set[c]) - at[c] + 1)

(* When a synchronous call or dpu_sync has returned the status of its      *)
(* sync, no operation the client asked for before is left in the FIFO of a *)
(* rank of the set: all have been run, or dropped after an error.          *)
SyncDrains ==
    \A c \in Client :
        pc[c] = "idle" /\ kind[c] # "async" /\ result[c] # "JOBERR" =>
            \A i \in DOMAIN set[c] : \A j \in DOMAIN jobs[set[c][i]] :
                LET job == jobs[set[c][i]][j] IN job.owner = c => job.type = "sync"

(* The failure of the operation of a synchronous call on any of its ranks  *)
(* is returned by that call, also when another rank signals the sync.      *)
SyncFailureReported ==
    \A c \in Client : pc[c] = "idle" => "op" \notin failed[c]

(* One client: an asynchronous failure that no call has returned yet is    *)
(* still recorded in the job_error of a rank, so a later call on that rank *)
(* returns it; the reset of job_error by do_jobs never loses it.           *)
AsyncFailureKept ==
    \A c \in Client :
        pc[c] = "idle" /\ "async" \in failed[c] => \E r \in Rank : jobError[r] # "OK"

(* The slots of a rank a client has taken and not yet put in the FIFO. *)
Held(c, r) ==
    LET S == {i \in DOMAIN set[c] : set[c][i] = r} IN
    IF pc[c] = "get" /\ at[c] \in S
    THEN got[c]
    ELSE IF \E i \in S :
               \/ pc[c] = "get" /\ i < at[c]
               \/ pc[c] = "unget" /\ at[c] <= i /\ i < errAt[c]
               \/ pc[c] \in {"add", "addq"} /\ at[c] <= i
         THEN JobsPerRank(c)
         ELSE 0

(* One client: the slots of a rank without job_error are in its pool, in   *)
(* its FIFO or in the hands of the client; none is lost or duplicated.     *)
SlotsConserved ==
    \A c \in Client, r \in Rank :
        jobError[r] = "OK" => available[r] + Len(jobs[r]) + Held(c, r) = NrJobs

(* A client blocked on available_jobs_cond that has not been signalled     *)
(* will be: the FIFO of the rank holds a job whose slot will be released,  *)
(* or another client that is not blocked there is about to fill it.        *)
WaiterWillBeWoken ==
    \A c \in Client, r \in Rank :
        c \in slotWait[r] =>
            \/ jobs[r] # <<>>
            \/ \E d \in Client : /\ d \notin slotWait[r]
                                 /\ pc[d] \in {"get", "unget", "add", "addq"}
                                 /\ \E i \in DOMAIN set[d] : set[d][i] = r

(* dpu_sync returns DPU_OK only if no asynchronous job of the client on    *)
(* the set failed.                                                         *)
DpuSyncReportsFailure ==
    \A c \in Client :
        pc[c] = "idle" /\ kind[c] = "dpu_sync" /\ result[c] = "OK" => "async" \notin failed[c]

(* No two threads that add jobs wait for each other's mutex. *)
NoLockCycle ==
    \A c, d \in Client :
        ~ /\ pc[c] = "addq" /\ queueMutex[QueueOf[CurRank(c)]] = d
          /\ pc[d] = "add" /\ at[d] <= Len(set[d]) /\ jobsMutex[CurRank(d)] = c

(* Every API call returns, if no wait ends without a signal: with one, a   *)
(* worker may hang on the mutex of a sync whose caller has gone.           *)
CallReturns == \A c \in Client : pc[c] # "idle" ~> pc[c] = "idle"
====
