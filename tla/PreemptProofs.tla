---------------------------- MODULE PreemptProofs ----------------------------
(***************************************************************************)
(* Theorems about lazy preemption (module Preempt), for every number of    *)
(* ranks, DPUs, workers and queues.                                        *)
(***************************************************************************)
EXTENDS Preempt, PollingProofs

(* The types of what the caller, the workers and the thread share; the     *)
(* rank that the thread is aborting is one of the set, and marked.         *)
PreemptType ==
    /\ TypeOK
    /\ lpc \in {"idle", "add", "wait", "join"}
    /\ launches \in Nat
    /\ left \in Int
    /\ syncStatus \in {"OK", "ERR"}
    /\ queued \in SUBSET Rank
    /\ serving \in [Worker -> SUBSET Rank]
    /\ tpc \in {"none", "check", "status", "abort", "reset", "clear", "wake", "done"}
    /\ idx \in 1..NrRanks + 1
    /\ numDone \in Nat
    /\ rankDone \in [Rank -> 0..2]
    /\ abort \in [Rank -> 0..1]
    /\ cut \in SUBSET Rank
    /\ early \in SUBSET Rank
    /\ tpc \in {"reset", "clear", "wake"} => idx <= NrRanks /\ abort[CurRank] = 1

(* The thread lives within a call. *)
ThreadWithinCall == lpc = "idle" => tpc \in {"none", "done"}

(* The ranks whose launch job has not ended. *)
Pending == queued \cup {r \in Rank : pc[r] # "idle"}

(* sync->nr_ranks counts them; between two calls there is none. *)
PendingInv ==
    /\ \A r \in queued : pc[r] = "idle"
    /\ lpc # "wait" => Pending = {}
    /\ lpc = "add" => left = NrRanks
    /\ lpc = "wait" => left = Cardinality(Pending)

(* The thread has marked the rank in this call, and will not look at it    *)
(* again.                                                                  *)
Aborted(r) ==
    /\ abort[r] = 1
    /\ \/ tpc = "done"
       \/ /\ tpc \in {"abort", "reset", "clear", "wake"}
          /\ \E i \in 1..NrRanks :
                RankAt[i] = r /\ (i < idx \/ (i = idx /\ tpc # "abort"))

(* The run context shows every DPU that runs, unless a launch failed half  *)
(* way.                                                                    *)
ActiveShown(r) ==
    \/ hwRun[r] \ hwFault[r] \subseteq running[r]
    \/ pc[r] \in {"idle", "boot"} /\ result[r] = "ERR" /\ failures > 0

(* The counter of a rank that is launched counts its DPUs, unless the      *)
(* thread has cleared it; a launch that ended with DPU_OK is complete, or  *)
(* was aborted in the same call.                                           *)
ContextOf(r) ==
    /\ ActiveShown(r)
    /\ pc[r] \in {"start", "kick", "sync", "block", "wait"} =>
          nb[r] = Cardinality(running[r]) \/ Aborted(r)
    /\ r \in cut => Aborted(r)
    /\ lpc # "add" /\ launches > 0 /\ r \notin Pending /\ syncStatus = "OK" =>
          /\ result[r] = "OK"
          /\ hwRun[r] \subseteq hwFault[r] \/ Aborted(r)

ContextInv == \A r \in Rank : ContextOf(r)

AbortInv == PreemptType /\ ThreadWithinCall /\ PendingInv /\ ContextInv

(* The rank has been booted in this call, or its launch has failed. *)
LaunchedOf(r) == ~NotBooted(r) /\ pc[r] \notin {"boot", "start", "kick"}

(* The DPUs of the rank have stopped, unless its launch failed. *)
StoppedOf(r) ==
    \/ running[r] = {} /\ hwRun[r] \subseteq hwFault[r]
    \/ pc[r] = "idle" /\ result[r] = "ERR" /\ failures > 0

(* A rank that was counted as done after its launch job was taken. *)
DoneOf(r) ==
    lpc # "idle" /\ rankDone[r] = 1 /\ r \notin early => LaunchedOf(r) /\ StoppedOf(r)

DoneInv == \A r \in Rank : DoneOf(r)

-----------------------------------------------------------------------------

(* The caller and the preemption thread leave the ranks to their workers   *)
(* and pollers; a worker and a poller leave the preemption thread alone.   *)
LEMMA ThreadFrame ==
    ASSUME PreemptNext,
           ~InitPreempt, ~AddLaunchJobs, ~CleanPreempt, ~JoinPreempt, ~ThreadStep
    PROVE  UNCHANGED <<callVars, shouldStop, threadVars, stopPolling, abort, histVars>>
BY DEF PreemptNext, InLaunch, HostWorker, TakeLaunchJob, RunLaunchJob, DpusStop, Poller,
       preemptVars

(* The thread is started by a call, and joined by it. *)
LEMMA WithinStep ==
    ASSUME ThreadWithinCall, [PreemptNext]_allVars
    PROVE  ThreadWithinCall'
<1>1. CASE InitPreempt \/ AddLaunchJobs \/ CleanPreempt \/ JoinPreempt
  BY <1>1 DEF ThreadWithinCall, InitPreempt, AddLaunchJobs, CleanPreempt, JoinPreempt,
              threadVars
<1>2. CASE ThreadStep
  BY <1>2 DEF ThreadWithinCall, ThreadStep, PollStatus, EachRankStatus, Determine,
        AbortStruggling, ResetRank, ClearRunning, WakeSync, AbortDone, callVars
<1>3. CASE UNCHANGED allVars
  BY <1>3 DEF ThreadWithinCall, allVars, preemptVars, callVars, threadVars
<1>4. QED
  BY <1>1, <1>2, <1>3, ThreadFrame DEF ThreadWithinCall, callVars, threadVars

-----------------------------------------------------------------------------

(* The set has a number of ranks, and the thread goes through them all. *)
LEMMA Ranks ==
    /\ NrRanks \in Nat /\ IsFiniteSet(Rank)
    /\ \A i \in 1..NrRanks : RankAt[i] \in Rank
    /\ \A i, j \in 1..NrRanks : RankAt[i] = RankAt[j] => i = j
BY PreemptAssumption, FS_CardinalityType DEF NrRanks

(* A launch job is always one of the whole rank. *)
LEMMA WholeRank ==
    ASSUME TypeOK, NEW r \in Rank
    PROVE  target[r] = All
BY PreemptAssumption DEF TypeOK

(* A worker's step is one of module Polling, on a rank of the set. *)
LEMMA WorkerPart ==
    ASSUME PreemptType, NEW w \in Worker, HostWorker(w)
    PROVE  \E r \in Rank :
             \/ /\ StartJob(r) /\ r \in queued /\ queued' = queued \ {r}
                /\ UNCHANGED <<left, syncStatus>>
             \/ /\ InJob(r) /\ queued' = queued
                /\ \/ pc'[r] # "idle" /\ UNCHANGED <<left, syncStatus>>
                   \/ /\ pc'[r] = "idle" /\ left' = left - 1
                      /\ syncStatus' = IF result'[r] = "OK" THEN syncStatus ELSE "ERR"
<1>1. CASE TakeLaunchJob(w)
  BY <1>1, Ranks DEF TakeLaunchJob
<1>2. CASE RunLaunchJob(w)
  BY <1>2 DEF RunLaunchJob, PreemptType
<1>3. QED
  BY <1>1, <1>2 DEF HostWorker

(* A step of the preemption thread that leaves the launches alone. *)
ThreadOnly == PollStatus \/ EachRankStatus \/ Determine \/ AbortStruggling \/ AbortDone

(* The launches keep their types, also when a rank is reset or its counter *)
(* cleared.                                                                *)
LEMMA LaunchType ==
    ASSUME PreemptType, [PreemptNext]_allVars
    PROVE  TypeOK'
<1> USE DEF PreemptType
<1>1. ASSUME NEW w \in Worker, HostWorker(w)
      PROVE  TypeOK'
  BY <1>1, WorkerPart, TypeStep DEF Next
<1>2. CASE \E r \in Rank, d \in Dpu : DpusStop(r, d)
  BY <1>2, TypeStep DEF DpusStop, Next
<1>3. CASE \E q \in Queue : Poller(q)
  BY <1>3, TypeStep DEF Poller, Next
<1>4. CASE InitPreempt \/ InLaunch \/ ThreadOnly \/ (UNCHANGED allVars)
  <2>1. UNCHANGED vars
    BY <1>4 DEF InitPreempt, InLaunch, AddLaunchJobs, CleanPreempt, JoinPreempt, ThreadOnly,
          PollStatus, EachRankStatus, Determine, AbortStruggling, AbortDone, allVars
  <2>2. QED
    BY <2>1, TypeStep
<1>5. CASE ResetRank
  BY <1>5 DEF ResetRank, TypeOK, hwVars, contextVars, workerVars, pollerVars
<1>6. CASE ClearRunning
  BY SMTT(60), <1>6 DEF ClearRunning, TypeOK, hwVars, workerVars, pollerVars
<1>7. CASE WakeSync
  BY <1>7 DEF WakeSync, Broadcast, TypeOK, hwVars, contextVars, workerVars, pollerVars
<1>8. QED
  BY <1>1, <1>2, <1>3, <1>4, <1>5, <1>6, <1>7 DEF PreemptNext, ThreadStep, ThreadOnly

(* So does the rest of the state. *)
LEMMA PreemptTypeStep ==
    ASSUME PreemptType, [PreemptNext]_allVars
    PROVE  PreemptType'
<1>1. TypeOK'
  BY LaunchType
<1> USE Ranks DEF PreemptType, CurRank
<1>2. CASE InitPreempt
  BY <1>1, <1>2 DEF InitPreempt, SyncJobs
<1>3. CASE InLaunch \/ (UNCHANGED allVars)
  BY <1>1, <1>3 DEF histVars, InLaunch, AddLaunchJobs, CleanPreempt, JoinPreempt, allVars, preemptVars,
                    callVars, jobVars, threadVars
<1>4. ASSUME NEW w \in Worker, HostWorker(w)
      PROVE  PreemptType'
  <2>1. UNCHANGED <<lpc, launches, tpc, idx, numDone, rankDone, abort, cut, early>>
    BY <1>4 DEF histVars, HostWorker, TakeLaunchJob, RunLaunchJob, callVars, threadVars
  <2>2. left' \in Int /\ syncStatus' \in {"OK", "ERR"} /\ queued' \in SUBSET Rank
    BY <1>4, WorkerPart
  <2>3. serving' \in [Worker -> SUBSET Rank]
    BY <1>4 DEF HostWorker, TakeLaunchJob, RunLaunchJob
  <2>4. QED
    BY <1>1, <2>1, <2>2, <2>3
<1>5. CASE \/ \E r \in Rank, d \in Dpu : DpusStop(r, d)
           \/ \E q \in Queue : Poller(q)
  BY <1>1, <1>5 DEF DpusStop, Poller, preemptVars, callVars, jobVars, threadVars, histVars
<1>6. CASE PollStatus \/ Determine \/ AbortDone
  BY <1>1, <1>6 DEF histVars, PollStatus, Determine, AbortDone, callVars, jobVars
<1>7. CASE EachRankStatus
  BY <1>1, <1>7 DEF EachRankStatus, callVars, jobVars
<1>8. CASE AbortStruggling
  BY <1>1, <1>8 DEF histVars, AbortStruggling, MarkAborted, callVars, jobVars
<1>9. CASE ResetRank \/ ClearRunning \/ WakeSync
  BY <1>1, <1>9 DEF histVars, ResetRank, ClearRunning, WakeSync, callVars, jobVars
<1>10. QED
  BY <1>2, <1>3, <1>4, <1>5, <1>6, <1>7, <1>8, <1>9 DEF PreemptNext, ThreadStep

(* What the invariant knows of a rank is left as it was. *)
Same(s) ==
    /\ pc'[s] = pc[s] /\ result'[s] = result[s] /\ hwRun'[s] = hwRun[s]
    /\ hwFault'[s] = hwFault[s] /\ running'[s] = running[s] /\ nb'[s] = nb[s]

(* A launch job touches its own rank only. *)
LEMMA JobLocal ==
    ASSUME TypeOK, NEW r \in Rank, StartJob(r) \/ InJob(r)
    PROVE  /\ \A s \in Rank \ {r} : Same(s)
           /\ StartJob(r) => pc[r] = "idle" /\ pc'[r] = "boot"
           /\ InJob(r) => pc[r] # "idle"
           /\ failures \in Nat /\ failures' \in Nat /\ failures' >= failures
<1> USE DEF TypeOK, hwVars, contextVars, Same
<1>1. failures \in Nat
  BY ConstAssumption
<1>2. CASE StartJob(r)
  BY <1>1, <1>2 DEF StartJob, InJob, Boot, StartThread, Kick, Sync, Block, WakeUp
<1>3. CASE Boot(r)
  BY <1>1, <1>3 DEF Boot, JobEnds, Refresh, AccessFails, StartJob, InJob
<1>4. CASE StartThread(r)
  BY <1>1, <1>4 DEF StartThread, JobEnds, AccessFails, StartJob, InJob
<1>5. CASE Kick(r)
  BY <1>1, <1>5 DEF Kick, StartJob, InJob
<1>6. CASE Sync(r)
  BY <1>1, <1>6 DEF Sync, JobEnds, AccessFails, StartJob, InJob
<1>7. CASE Block(r) \/ WakeUp(r)
  BY <1>1, <1>7 DEF Block, WakeUp, StartJob, InJob
<1>8. QED
  BY <1>2, <1>3, <1>4, <1>5, <1>6, <1>7 DEF InJob

(* A DPU that stops and a polling thread leave the jobs alone. *)
LEMMA PollerEffect ==
    ASSUME TypeOK, NEW q \in Queue, PollerStep(q)
    PROVE  /\ UNCHANGED <<hwRun, hwFault, pc, result>>
           /\ failures \in Nat /\ failures' \in Nat /\ failures' >= failures
           /\ UNCHANGED <<running, nb>> \/ \E r \in Rank : Refresh(r)
<1> USE DEF TypeOK, hwVars, contextVars, workerVars
<1>1. failures \in Nat
  BY ConstAssumption
<1>2. CASE PollRank(q)
  BY <1>1, <1>2 DEF PollRank, AccessFails
<1>3. CASE Check(q) \/ SleepOrScan(q) \/ PollerWakes(q) \/ ReadRank(q) \/ ScanDone(q)
  BY <1>1, <1>3 DEF Check, SleepOrScan, PollerWakes, ReadRank, ScanDone
<1>4. QED
  BY <1>2, <1>3 DEF PollerStep

(* sync->nr_ranks counts the launch jobs that have not ended. *)
LEMMA PendingStep ==
    ASSUME PreemptType, PendingInv, [PreemptNext]_allVars
    PROVE  PendingInv'
<1>1. IsFiniteSet(Pending)
  BY Ranks, FS_Subset DEF Pending, PreemptType
<1>2. CASE UNCHANGED <<pc, queued, lpc, left>>
  <2>1. Pending' = Pending
    BY <1>2 DEF Pending
  <2>2. QED
    BY <1>2, <2>1 DEF PendingInv
<1>3. CASE InitPreempt
  <2>1. Pending' = Pending
    BY <1>3 DEF InitPreempt, Pending, vars, workerVars
  <2>2. QED
    BY <1>3, <2>1 DEF InitPreempt, SyncJobs, PendingInv, vars, workerVars
<1>4. CASE AddLaunchJobs
  <2>1. queued' = Rank /\ pc' = pc /\ lpc' = "wait" /\ left' = left /\ lpc = "add"
    BY <1>4 DEF AddLaunchJobs, vars, workerVars
  <2>2. Pending' = Rank /\ \A r \in Rank : pc[r] = "idle"
    BY <2>1 DEF Pending, PendingInv
  <2>3. QED
    BY <2>1, <2>2 DEF PendingInv, NrRanks
<1>5. CASE CleanPreempt \/ JoinPreempt
  <2>1. /\ UNCHANGED <<pc, queued, left>> /\ lpc' \notin {"add", "wait"}
        /\ lpc = "wait" => left = 0
    BY <1>5 DEF CleanPreempt, JoinPreempt, vars, workerVars, jobVars
  <2>2. Pending' = Pending
    BY <2>1 DEF Pending
  <2>3. Pending = {}
    BY <1>1, <2>1, FS_EmptySet DEF PendingInv
  <2>4. QED
    BY <2>1, <2>2, <2>3 DEF PendingInv
<1>6. ASSUME NEW w \in Worker, HostWorker(w)
      PROVE  PendingInv'
  <2>0. lpc' = lpc
    BY <1>6 DEF HostWorker, TakeLaunchJob, RunLaunchJob, callVars
  <2>1. PICK r \in Rank :
             \/ /\ StartJob(r) /\ r \in queued /\ queued' = queued \ {r}
                /\ UNCHANGED <<left, syncStatus>>
             \/ /\ InJob(r) /\ queued' = queued
                /\ \/ pc'[r] # "idle" /\ UNCHANGED <<left, syncStatus>>
                   \/ /\ pc'[r] = "idle" /\ left' = left - 1
                      /\ syncStatus' = IF result'[r] = "OK" THEN syncStatus ELSE "ERR"
    BY <1>6, WorkerPart
  <2>2. \A s \in Rank \ {r} : pc'[s] = pc[s]
    BY <2>1, JobLocal DEF PreemptType, Same
  <2>3. CASE StartJob(r) /\ r \in queued /\ queued' = queued \ {r} /\ left' = left
    <3>1. pc[r] = "idle" /\ pc'[r] = "boot"
      BY <2>3, JobLocal DEF PreemptType
    <3>2. Pending' = Pending
      BY <2>2, <2>3, <3>1 DEF Pending, PreemptType
    <3>3. QED
      BY <2>0, <2>2, <2>3, <3>2 DEF PendingInv, PreemptType
  <2>4. CASE InJob(r) /\ queued' = queued /\ pc'[r] # "idle" /\ left' = left
    <3>1. pc[r] # "idle"
      BY <2>4, JobLocal DEF PreemptType
    <3>2. Pending' = Pending
      BY <2>2, <2>4, <3>1 DEF Pending, PreemptType
    <3>3. QED
      BY <2>0, <2>2, <2>4, <3>1, <3>2 DEF PendingInv, PreemptType
  <2>5. CASE InJob(r) /\ queued' = queued /\ pc'[r] = "idle" /\ left' = left - 1
    <3>1. pc[r] # "idle"
      BY <2>5, JobLocal DEF PreemptType
    <3>2. r \in Pending /\ r \notin queued /\ Pending' = Pending \ {r} /\ lpc = "wait"
      BY <2>2, <2>5, <3>1 DEF Pending, PreemptType, PendingInv
    <3>3. Cardinality(Pending') = Cardinality(Pending) - 1
      BY <1>1, <3>2, FS_RemoveElement
    <3>4. QED
      BY <2>0, <2>2, <2>5, <3>2, <3>3 DEF PendingInv, PreemptType
  <2>6. QED
    BY <2>1, <2>3, <2>4, <2>5
<1>7. CASE \/ \E r \in Rank, d \in Dpu : DpusStop(r, d)
           \/ \E q \in Queue : Poller(q)
  <2>1. UNCHANGED <<queued, lpc, left>>
    BY <1>7 DEF DpusStop, Poller, preemptVars, jobVars, callVars
  <2>2. pc' = pc
    BY <1>7, PollerEffect DEF DpusStop, Poller, DpuStops, workerVars, PreemptType
  <2>3. QED
    BY <1>2, <2>1, <2>2
<1>8. CASE ThreadStep
  BY <1>2, <1>8 DEF ThreadStep, PollStatus, EachRankStatus, Determine, AbortStruggling,
        ResetRank, ClearRunning, WakeSync, AbortDone, callVars, jobVars, vars, workerVars
<1>9. CASE UNCHANGED allVars
  BY <1>2, <1>9 DEF allVars, vars, preemptVars, callVars, jobVars, workerVars
<1>10. QED
  BY <1>3, <1>4, <1>5, <1>6, <1>7, <1>8, <1>9 DEF PreemptNext, InLaunch

(* A rank that the thread has aborted stays so until the next call. *)
LEMMA AbortedStays ==
    ASSUME PreemptType, NEW r \in Rank, Aborted(r), ThreadStep
    PROVE  Aborted(r)'
<1> USE DEF PreemptType, CurRank
<1>1. tpc # "done"
  BY DEF ThreadStep, PollStatus, EachRankStatus, Determine, AbortStruggling, ResetRank,
         ClearRunning, WakeSync, AbortDone
<1>2. PICK i \in 1..NrRanks :
         /\ RankAt[i] = r /\ (i < idx \/ (i = idx /\ tpc # "abort"))
         /\ tpc \in {"abort", "reset", "clear", "wake"} /\ abort[r] = 1
  BY <1>1 DEF Aborted
<1>3. CASE AbortStruggling
  <2>1. tpc = "abort" /\ idx <= NrRanks /\ i < idx /\ idx \in Nat
    BY <1>2, <1>3, Ranks DEF AbortStruggling
  <2>2. RankAt[idx] # r
    BY <1>2, <2>1, Ranks
  <2>3. abort'[r] = 1 /\ idx' \in {idx, idx + 1} /\ tpc' \in {"abort", "reset", "clear"}
    BY <1>2, <1>3, <2>1, <2>2 DEF AbortStruggling, MarkAborted
  <2>4. i < idx'
    BY <2>1, <2>3, Ranks
  <2>5. QED
    BY <1>2, <2>3, <2>4 DEF Aborted
<1>4. CASE ResetRank
  BY <1>2, <1>4, Ranks DEF ResetRank, Aborted
<1>5. CASE ClearRunning
  BY <1>2, <1>5, Ranks DEF ClearRunning, Aborted
<1>6. CASE WakeSync
  BY <1>2, <1>6, Ranks DEF WakeSync, Aborted
<1>7. CASE AbortDone
  BY <1>2, <1>7 DEF AbortDone, Aborted
<1>8. CASE PollStatus \/ EachRankStatus \/ Determine
  BY <1>2, <1>8 DEF PollStatus, EachRankStatus, Determine
<1>9. QED
  BY <1>3, <1>4, <1>5, <1>6, <1>7, <1>8 DEF ThreadStep

(* The thread marks a rank before it touches it. *)
LEMMA AbortingMarked ==
    ASSUME PreemptType, ResetRank \/ ClearRunning
    PROVE  \E r \in Rank : r = CurRank /\ Aborted(r)'
<1> DEFINE r == RankAt[idx]
<1>1. idx \in 1..NrRanks /\ abort[r] = 1 /\ r \in Rank
  BY Ranks DEF PreemptType, CurRank, ResetRank, ClearRunning
<1>2. Aborted(r)
  BY <1>1 DEF Aborted, ResetRank, ClearRunning
<1>3. PICK s \in Rank : s = CurRank /\ Aborted(s)
  BY <1>1, <1>2 DEF CurRank
<1>4. QED
  BY <1>3, AbortedStays DEF ThreadStep

(* A step that leaves a rank and the call alone. *)
LEMMA ContextStays ==
    ASSUME NEW r \in Rank, ContextOf(r), Same(r), Aborted(r) => Aborted(r)',
           failures \in Nat, failures' \in Nat, failures' >= failures,
           r \in cut' => r \in cut, r \in queued => r \in queued',
           lpc' = lpc \/ (lpc # "add" /\ lpc' # "add"),
           launches' = launches, syncStatus' = "OK" => syncStatus = "OK"
    PROVE  ContextOf(r)'
<1>1. r \notin Pending' => r \notin Pending
  BY DEF Pending, Same
<1>2. ActiveShown(r)'
  BY DEF ContextOf, ActiveShown, Same
<1>3. QED
  BY <1>1, <1>2 DEF ContextOf, Same

(* A step of the launch job of a rank. *)
LEMMA JobContext ==
    ASSUME TypeOK, NEW r \in Rank, ContextOf(r), InJob(r), Aborted(r) => Aborted(r)',
           cut' = cut, pc'[r] = "idle" /\ syncStatus' = "OK" => result'[r] = "OK"
    PROVE  ContextOf(r)'
<1> USE DEF TypeOK, hwVars, contextVars
<1>1. failures \in Nat
  BY ConstAssumption
<1>2. r \notin Pending' => pc'[r] = "idle"
  BY DEF Pending
<1>3. SUFFICES /\ ActiveShown(r)'
               /\ pc'[r] \in {"start", "kick", "sync", "block", "wait"} =>
                     nb'[r] = Cardinality(running'[r]) \/ Aborted(r)'
               /\ pc'[r] = "idle" /\ result'[r] = "OK" =>
                     hwRun'[r] \subseteq hwFault'[r] \/ Aborted(r)'
  BY <1>2 DEF ContextOf
<1>4. target[r] = All
  BY WholeRank
<1>5. CASE Boot(r)
  <2>1. CASE Refresh(r) /\ pc' = [pc EXCEPT ![r] = "start"]
    BY <1>5, <2>1, RefreshEffect DEF Boot, ActiveShown
  <2>2. CASE JobEnds(r, "ERR") /\ UNCHANGED contextVars
    BY <1>1, <1>5, <2>2 DEF Boot, ActiveShown, JobEnds, AccessFails, ContextOf
  <2>3. QED
    BY <1>5, <2>1, <2>2 DEF Boot
<1>6. CASE StartThread(r)
  <2>1. CASE AccessFails /\ JobEnds(r, "ERR")
    BY <1>1, <1>6, <2>1 DEF ActiveShown, JobEnds, AccessFails
  <2>2. CASE /\ hwRun' = [hwRun EXCEPT ![r] = @ \cup Selected(r)]
             /\ running' = [running EXCEPT ![r] = @ \cup Selected(r)]
             /\ nb' = [nb EXCEPT ![r] = CountStarted(r)]
             /\ pc' = [pc EXCEPT ![r] = "kick"]
    <3>1. hwRun'[r] = Dpu /\ running'[r] = Dpu /\ nb'[r] = Cardinality(Dpu) /\ pc'[r] = "kick"
      BY <1>4, <2>2 DEF Selected, CountStarted
    <3>2. QED
      BY <3>1 DEF ActiveShown
  <2>3. QED
    BY <1>6, <2>1, <2>2 DEF StartThread
<1>7. CASE Kick(r)
  BY <1>7 DEF Kick, ActiveShown, ContextOf
<1>8. CASE Block(r) \/ WakeUp(r)
  BY <1>8 DEF Block, WakeUp, ActiveShown, ContextOf
<1>9. CASE Sync(r)
  <2>1. /\ pc[r] = "sync" /\ UNCHANGED <<hwRun, hwFault, running, nb>>
        /\ hwRun[r] \ hwFault[r] \subseteq running[r]
    BY <1>9 DEF Sync, ContextOf, ActiveShown
  <2>2. CASE MustWait(r) /\ pc' = [pc EXCEPT ![r] = "block"]
    BY <2>1, <2>2 DEF ActiveShown, ContextOf
  <2>3. CASE ~MustWait(r) /\ (JobEnds(r, SyncStatus(r)) \/ JobEnds(r, "ERR"))
    <3>1. pc'[r] = "idle" /\ (result'[r] = "OK" => SyncStatus(r) = "OK")
      BY <2>3 DEF JobEnds
    <3>2. ASSUME SyncStatus(r) = "OK"
          PROVE  hwRun'[r] \subseteq hwFault'[r] \/ Aborted(r)'
      <4>1. nb[r] = 0
        BY <1>4, <2>3, <3>2 DEF SyncStatus, CheckFault, MustWait
      <4>2. running[r] = {} \/ Aborted(r)
        BY <2>1, <4>1, SubsetCount DEF ContextOf
      <4>3. QED
        BY <2>1, <4>2
    <3>3. ActiveShown(r)'
      BY <2>1 DEF ActiveShown
    <3>4. QED
      BY <3>1, <3>2, <3>3
  <2>4. QED
    BY <1>9, <2>2, <2>3 DEF Sync
<1>10. QED
  BY <1>5, <1>6, <1>7, <1>8, <1>9 DEF InJob

(* Every step keeps what is known of a rank. *)
LEMMA ContextStep ==
    ASSUME AbortInv, [PreemptNext]_allVars, NEW r \in Rank
    PROVE  ContextOf(r)'
<1>1. PreemptType /\ PendingInv /\ ContextOf(r) /\ TypeOK /\ failures \in Nat
  BY ConstAssumption DEF AbortInv, ContextInv, PreemptType, TypeOK
<1>2. ASSUME UNCHANGED <<tpc, idx, abort>>
      PROVE  Aborted(r)' <=> Aborted(r)
  BY <1>2 DEF Aborted
<1>3. ASSUME UNCHANGED vars
      PROVE  Same(r) /\ failures' = failures
  BY <1>3 DEF vars, hwVars, contextVars, workerVars, Same
<1>4. CASE InitPreempt
  <2>1. Pending = {} /\ pc[r] = "idle"
    BY <1>1, <1>4 DEF InitPreempt, PendingInv, Pending
  <2>2. Same(r) /\ failures' = failures /\ lpc' = "add" /\ cut' = {}
    BY <1>3, <1>4 DEF InitPreempt
  <2>3. QED
    BY <1>1, <2>1, <2>2 DEF ContextOf, ActiveShown, Same
<1>5. CASE AddLaunchJobs
  <2>1. /\ Same(r) /\ failures' = failures /\ (Aborted(r)' <=> Aborted(r))
        /\ cut' = cut /\ queued' = Rank
    BY <1>2, <1>3, <1>5 DEF histVars, AddLaunchJobs, threadVars
  <2>2. r \in Pending'
    BY <2>1 DEF Pending
  <2>3. QED
    BY <1>1, <2>1, <2>2 DEF ContextOf, ActiveShown, Same
<1>6. CASE CleanPreempt \/ JoinPreempt \/ (UNCHANGED allVars)
  <2>1. /\ UNCHANGED vars /\ UNCHANGED <<tpc, idx, abort, cut, queued, launches, syncStatus>>
        /\ (lpc' = lpc \/ (lpc # "add" /\ lpc' # "add"))
    BY <1>6 DEF CleanPreempt, JoinPreempt, allVars, preemptVars, callVars, jobVars, threadVars, histVars
  <2>2. QED
    BY <1>1, <1>2, <1>3, <2>1, ContextStays
<1>7. ASSUME NEW w \in Worker, HostWorker(w)
      PROVE  ContextOf(r)'
  <2>1. UNCHANGED <<tpc, idx, abort, cut, lpc, launches>>
    BY <1>7 DEF histVars, HostWorker, TakeLaunchJob, RunLaunchJob, callVars, threadVars
  <2>2. PICK s \in Rank :
             \/ /\ StartJob(s) /\ s \in queued /\ queued' = queued \ {s}
                /\ UNCHANGED <<left, syncStatus>>
             \/ /\ InJob(s) /\ queued' = queued
                /\ \/ pc'[s] # "idle" /\ UNCHANGED <<left, syncStatus>>
                   \/ /\ pc'[s] = "idle" /\ left' = left - 1
                      /\ syncStatus' = IF result'[s] = "OK" THEN syncStatus ELSE "ERR"
    BY <1>1, <1>7, WorkerPart
  <2>3. CASE r # s
    <3>1. Same(r) /\ failures' \in Nat /\ failures' >= failures
      BY <1>1, <2>2, <2>3, JobLocal
    <3>2. (r \in queued => r \in queued') /\ (syncStatus' = "OK" => syncStatus = "OK")
      BY <2>2, <2>3
    <3>3. QED
      BY <1>1, <1>2, <2>1, <3>1, <3>2, ContextStays
  <2>4. CASE r = s /\ StartJob(r)
    <3>1. /\ pc[r] = "idle" /\ pc'[r] = "boot"
          /\ UNCHANGED <<hwRun, hwFault, running, result, failures>>
      BY <1>1, <2>4 DEF StartJob, hwVars, contextVars, TypeOK
    <3>2. r \in Pending'
      BY <3>1 DEF Pending
    <3>3. QED
      BY <1>1, <1>2, <2>1, <3>1, <3>2 DEF ContextOf, ActiveShown
  <2>5. CASE r = s /\ InJob(r)
    <3>1. pc'[r] = "idle" /\ syncStatus' = "OK" => result'[r] = "OK"
      BY <1>1, <2>2, <2>5, JobLocal
    <3>2. QED
      BY <1>1, <1>2, <2>1, <2>5, <3>1, JobContext
  <2>6. QED
    BY <2>2, <2>3, <2>4, <2>5
<1>8. ASSUME NEW s \in Rank, NEW d \in Dpu, DpusStop(s, d)
      PROVE  ContextOf(r)'
  <2>1. /\ UNCHANGED <<tpc, idx, abort, cut, lpc, launches, queued, syncStatus>>
        /\ UNCHANGED <<running, nb, pc, result, failures>>
    BY <1>8 DEF DpusStop, DpuStops, preemptVars, callVars, jobVars, threadVars, histVars, contextVars,
                workerVars
  <2>2. hwRun'[r] \subseteq hwRun[r] /\ hwFault[r] \subseteq hwFault'[r]
    <3>1. /\ hwRun' = [hwRun EXCEPT ![s] = @ \ {d}] \/ hwRun' = hwRun
          /\ hwFault' = [hwFault EXCEPT ![s] = @ \cup {d}] \/ hwFault' = hwFault
      BY <1>8 DEF DpusStop, DpuStops
    <3>2. hwRun \in [Rank -> SUBSET Dpu] /\ hwFault \in [Rank -> SUBSET Dpu]
      BY <1>1 DEF TypeOK
    <3>3. hwRun'[r] = hwRun[r] \/ hwRun'[r] = hwRun[r] \ {d}
      BY <3>1, <3>2
    <3>4. hwFault'[r] = hwFault[r] \/ hwFault'[r] = hwFault[r] \cup {d}
      BY <3>1, <3>2
    <3> QED
      BY <3>3, <3>4
  <2>3. Pending' = Pending
    BY <2>1 DEF Pending
  <2>4. QED
    BY <1>1, <1>2, <2>1, <2>2, <2>3 DEF ContextOf, ActiveShown
<1>9. ASSUME NEW q \in Queue, Poller(q)
      PROVE  ContextOf(r)'
  <2>1. UNCHANGED <<tpc, idx, abort, cut, lpc, launches, queued, syncStatus>>
    BY <1>9 DEF Poller, preemptVars, callVars, jobVars, threadVars, histVars
  <2>2. /\ UNCHANGED <<hwRun, hwFault, pc, result>>
        /\ failures' \in Nat /\ failures' >= failures
        /\ UNCHANGED <<running, nb>> \/ \E s \in Rank : Refresh(s)
    BY <1>1, <1>9, PollerEffect DEF Poller
  <2>3. \/ running'[r] = running[r] /\ nb'[r] = nb[r]
        \/ running'[r] = hwRun[r] \ hwFault[r] /\ nb'[r] = Cardinality(running'[r])
    BY <1>1, <2>2, RefreshEffect
  <2>4. Pending' = Pending
    BY <2>1, <2>2 DEF Pending
  <2>5. ActiveShown(r)'
    BY <1>1, <2>2, <2>3 DEF ContextOf, ActiveShown
  <2>6. QED
    BY <1>1, <1>2, <2>1, <2>2, <2>3, <2>4, <2>5 DEF ContextOf
<1>10. ASSUME ThreadStep
       PROVE  ContextOf(r)'
  <2>1. /\ UNCHANGED <<lpc, launches, queued, syncStatus, pc, result, failures, running>>
        /\ Aborted(r) => Aborted(r)'
    <3>1. Aborted(r) => Aborted(r)'
      BY <1>1, <1>10, AbortedStays
    <3>2. QED
      BY <1>10, <3>1 DEF ThreadStep, PollStatus, EachRankStatus, Determine, AbortStruggling,
            ResetRank, ClearRunning, WakeSync, AbortDone, callVars, jobVars, vars, workerVars,
            contextVars
  <2>2. Pending' = Pending
    BY <2>1 DEF Pending
  <2>3. CASE ResetRank
    <3>1. PICK s \in Rank : s = CurRank /\ Aborted(s)'
      BY <1>1, <2>3, AbortingMarked
    <3>2. /\ nb' = nb /\ cut' \subseteq cut \cup {s}
          /\ \/ hwRun'[r] = hwRun[r] /\ hwFault'[r] = hwFault[r]
             \/ hwRun'[r] = {}
      BY <1>1, <2>3, <3>1 DEF ResetRank, TypeOK, hwVars, contextVars
    <3>3. QED
      BY <1>1, <2>1, <2>2, <3>1, <3>2 DEF ContextOf, ActiveShown
  <2>4. CASE ClearRunning
    <3>1. PICK s \in Rank : s = CurRank /\ Aborted(s)'
      BY <1>1, <2>4, AbortingMarked
    <3>2. UNCHANGED <<hwRun, hwFault, cut>> /\ (r # s => nb'[r] = nb[r])
      BY <1>1, <2>4, <3>1 DEF histVars, ClearRunning, TypeOK, hwVars
    <3>3. QED
      BY <1>1, <2>1, <2>2, <3>1, <3>2 DEF ContextOf, ActiveShown
  <2>5. CASE ThreadOnly \/ WakeSync
    <3>1. UNCHANGED <<hwRun, hwFault, nb, cut>>
      BY <2>5 DEF histVars, ThreadOnly, PollStatus, EachRankStatus, Determine, AbortStruggling, AbortDone,
            WakeSync, vars, hwVars, contextVars
    <3>2. QED
      BY <1>1, <2>1, <2>2, <3>1 DEF ContextOf, ActiveShown
  <2>6. QED
    BY <1>10, <2>3, <2>4, <2>5 DEF ThreadStep, ThreadOnly
<1>11. QED
  BY <1>4, <1>5, <1>6, <1>7, <1>8, <1>9, <1>10 DEF PreemptNext, InLaunch

(* Nothing is launched at first. *)
LEMMA AbortInit == PreemptInit => AbortInv
<1>1. SUFFICES ASSUME PreemptInit
               PROVE  AbortInv
  OBVIOUS
<1>2. TypeOK
  BY <1>1, InitInv DEF PreemptInit, IInv
<1>3. PreemptType
  BY <1>1, <1>2, Ranks DEF PreemptInit, PreemptType
<1>4. PendingInv /\ ThreadWithinCall
  BY <1>1 DEF PreemptInit, Init, PendingInv, Pending, ThreadWithinCall
<1>5. ContextInv
  BY <1>1 DEF PreemptInit, Init, ContextInv, ContextOf, ActiveShown
<1>6. QED
  BY <1>3, <1>4, <1>5 DEF AbortInv

(* The invariant of the abort holds in every reachable state. *)
THEOREM AbortInductive == PreemptSpec => []AbortInv
<1>1. AbortInv /\ [PreemptNext]_allVars => AbortInv'
  BY PreemptTypeStep, WithinStep, PendingStep, ContextStep DEF AbortInv, ContextInv
<1>2. QED
  BY <1>1, AbortInit, PTL DEF PreemptSpec

(* When dpu_launch_preempt has returned DPU_OK, abort[] marks every rank   *)
(* whose DPUs were cut short or still run, in either mode, whatever the    *)
(* failures of the control interface and the order of the threads.         *)
THEOREM UnfinishedMarked == PreemptSpec => []UnfinishedReported
<1>1. AbortInv => UnfinishedReported
  <2>1. SUFFICES ASSUME AbortInv, Returned, NEW r \in Rank,
                        r \in cut \/ hwRun[r] \ hwFault[r] # {}
                 PROVE  abort[r] = 1
    BY DEF UnfinishedReported
  <2>2. ContextOf(r) /\ Pending = {}
    BY <2>1 DEF AbortInv, ContextInv, PendingInv, Returned
  <2>3. Aborted(r)
    BY <2>1, <2>2 DEF ContextOf, Returned
  <2>4. QED
    BY <2>3 DEF Aborted
<1>2. QED
  BY <1>1, AbortInductive, PTL

-----------------------------------------------------------------------------

(* A rank that has been booted stays so until the call returns. *)
LEMMA BootedStays ==
    ASSUME AbortInv, NEW r \in Rank, LaunchedOf(r), lpc # "idle", [PreemptNext]_allVars
    PROVE  LaunchedOf(r)'
<1>1. PreemptType /\ TypeOK
  BY DEF AbortInv, PreemptType
<1>2. CASE InitPreempt \/ AddLaunchJobs
  BY <1>2 DEF InitPreempt, AddLaunchJobs, LaunchedOf, NotBooted
<1>3. CASE CleanPreempt \/ JoinPreempt \/ ThreadStep \/ (UNCHANGED allVars)
  <2>1. UNCHANGED <<queued, pc>> /\ lpc' # "add"
    BY <1>3 DEF CleanPreempt, JoinPreempt, ThreadStep, PollStatus, EachRankStatus, Determine,
          AbortStruggling, ResetRank, ClearRunning, WakeSync, AbortDone, callVars, jobVars, vars,
          workerVars, allVars, preemptVars, LaunchedOf, NotBooted
  <2>2. QED
    BY <2>1 DEF LaunchedOf, NotBooted
<1>4. ASSUME NEW w \in Worker, HostWorker(w)
      PROVE  LaunchedOf(r)'
  <2>1. PICK s \in Rank : \/ StartJob(s) /\ s \in queued /\ queued' = queued \ {s}
                          \/ InJob(s) /\ queued' = queued
    BY <1>1, <1>4, WorkerPart
  <2>2. lpc' = lpc
    BY <1>4 DEF HostWorker, TakeLaunchJob, RunLaunchJob, callVars
  <2>3. CASE r = s
    <3>1. InJob(r) /\ queued' = queued
      BY <2>1, <2>3 DEF LaunchedOf, NotBooted
    <3>2. pc'[r] \in {"idle", "sync", "block", "wait"}
      BY <1>1, <3>1 DEF LaunchedOf, InJob, Boot, StartThread, Kick, Sync, Block, WakeUp,
            JobEnds, TypeOK
    <3>3. QED
      BY <2>2, <3>1, <3>2 DEF LaunchedOf, NotBooted
  <2>4. CASE r # s
    <3>1. pc'[r] = pc[r]
      BY <1>1, <2>1, <2>4, JobLocal DEF Same
    <3>2. QED
      BY <2>1, <2>2, <3>1 DEF LaunchedOf, NotBooted
  <2>5. QED
    BY <2>3, <2>4
<1>5. CASE \/ \E s \in Rank, d \in Dpu : DpusStop(s, d)
           \/ \E q \in Queue : Poller(q)
  <2>1. UNCHANGED <<queued, lpc>>
    BY <1>5 DEF DpusStop, Poller, preemptVars, jobVars, callVars
  <2>2. pc' = pc
    BY <1>1, <1>5, PollerEffect DEF DpusStop, Poller, DpuStops, workerVars
  <2>3. QED
    BY <2>1, <2>2 DEF LaunchedOf, NotBooted
<1>6. QED
  BY <1>2, <1>3, <1>4, <1>5 DEF PreemptNext, InLaunch

(* A rank that has stopped after it was booted does not run again in the   *)
(* call.                                                                   *)
LEMMA StoppedStays ==
    ASSUME AbortInv, NEW r \in Rank, LaunchedOf(r), StoppedOf(r), [PreemptNext]_allVars
    PROVE  StoppedOf(r)'
<1>1. PreemptType /\ TypeOK /\ failures \in Nat
  BY ConstAssumption DEF AbortInv, PreemptType, TypeOK
<1>2. CASE InitPreempt \/ InLaunch \/ ThreadOnly \/ (UNCHANGED allVars)
  BY <1>2 DEF StoppedOf, InitPreempt, InLaunch, AddLaunchJobs, CleanPreempt, JoinPreempt,
        ThreadOnly, PollStatus, EachRankStatus, Determine, AbortStruggling, AbortDone, allVars,
        vars, hwVars, contextVars, workerVars
<1>3. CASE ResetRank \/ ClearRunning \/ WakeSync
  BY <1>1, <1>3 DEF StoppedOf, ResetRank, ClearRunning, WakeSync, hwVars, contextVars,
        workerVars, TypeOK
<1>4. ASSUME NEW w \in Worker, HostWorker(w)
      PROVE  StoppedOf(r)'
  <2>1. PICK s \in Rank : (StartJob(s) /\ s \in queued) \/ InJob(s)
    BY <1>1, <1>4, WorkerPart
  <2>2. CASE r # s
    BY <1>1, <2>1, <2>2, JobLocal DEF Same, StoppedOf
  <2>3. CASE r = s
    <3>1. InJob(r) /\ pc[r] # "idle" /\ pc[r] \notin {"boot", "start", "kick"}
      BY <1>1, <2>1, <2>3, JobLocal DEF LaunchedOf, NotBooted
    <3>2. UNCHANGED <<running, hwRun, hwFault>>
      BY <3>1 DEF InJob, Boot, StartThread, Kick, Sync, Block, WakeUp, hwVars, contextVars
    <3>3. QED
      BY <3>1, <3>2 DEF StoppedOf
  <2>4. QED
    BY <2>2, <2>3
<1>5. ASSUME NEW s \in Rank, NEW d \in Dpu, DpusStop(s, d)
      PROVE  StoppedOf(r)'
  BY <1>1, <1>5 DEF StoppedOf, DpusStop, DpuStops, contextVars, workerVars, TypeOK
<1>6. ASSUME NEW q \in Queue, Poller(q)
      PROVE  StoppedOf(r)'
  <2>1. /\ UNCHANGED <<hwRun, hwFault, pc, result>>
        /\ failures' \in Nat /\ failures' >= failures
        /\ UNCHANGED <<running, nb>> \/ \E s \in Rank : Refresh(s)
    BY <1>1, <1>6, PollerEffect DEF Poller
  <2>2. running'[r] = running[r] \/ running'[r] = hwRun[r] \ hwFault[r]
    BY <1>1, <2>1, RefreshEffect
  <2>3. QED
    BY <1>1, <2>1, <2>2 DEF StoppedOf
<1>7. QED
  BY <1>2, <1>3, <1>4, <1>5, <1>6 DEF PreemptNext, ThreadStep, ThreadOnly

(* rank_done is written by init_preempt and by each_rank_status. *)
LEMMA DoneFrame ==
    ASSUME [PreemptNext]_allVars, ~InitPreempt, ~EachRankStatus
    PROVE  UNCHANGED <<rankDone, early>> /\ (lpc' # "idle" => lpc # "idle")
<1>1. CASE AddLaunchJobs \/ CleanPreempt \/ JoinPreempt \/ (UNCHANGED allVars)
  BY <1>1 DEF AddLaunchJobs, CleanPreempt, JoinPreempt, allVars, preemptVars, callVars,
              threadVars, histVars
<1>2. CASE ThreadStep
  BY <1>2 DEF ThreadStep, PollStatus, Determine, AbortStruggling, ResetRank, ClearRunning,
              WakeSync, AbortDone, callVars, histVars
<1>3. QED
  BY <1>1, <1>2, ThreadFrame DEF callVars, threadVars, histVars

(* What each_rank_status counts as done, its launch job having been taken, *)
(* has been booted and has stopped.                                        *)
LEMMA CountsStopped ==
    ASSUME AbortInv, EachRankStatus, NEW r \in Rank, rankDone'[r] = 1, r \notin early',
           ~(rankDone[r] = 1 /\ r \notin early)
    PROVE  LaunchedOf(r) /\ StoppedOf(r)
<1>1. PreemptType /\ TypeOK /\ ContextOf(r)
  BY DEF AbortInv, PreemptType, ContextInv
<1>2. PICK s \in Rank : s = CurRank
  BY <1>1, Ranks DEF EachRankStatus, CurRank, PreemptType
<1>3. r = s /\ LooksDone(r) /\ ~Locked(r) /\ ~NotBooted(r)
  BY <1>1, <1>2 DEF EachRankStatus, PreemptType
<1>4. running[r] = {} /\ pc[r] \in {"idle", "wait"}
  BY <1>1, <1>3 DEF LooksDone, Locked, TypeOK
<1>5. QED
  BY <1>1, <1>3, <1>4 DEF LaunchedOf, StoppedOf, ContextOf, ActiveShown

(* The ranks counted as done have stopped, and stay so. *)
LEMMA DoneStep ==
    ASSUME AbortInv, DoneInv, [PreemptNext]_allVars
    PROVE  DoneInv'
<1>1. SUFFICES ASSUME NEW r \in Rank, lpc' # "idle", rankDone'[r] = 1, r \notin early'
               PROVE  LaunchedOf(r)' /\ StoppedOf(r)'
  BY DEF DoneInv, DoneOf
<1>2. CASE InitPreempt
  BY <1>1, <1>2 DEF InitPreempt
<1>3. CASE ~InitPreempt
  <2>1. lpc # "idle" /\ LaunchedOf(r) /\ StoppedOf(r)
    <3>1. CASE lpc # "idle" /\ rankDone[r] = 1 /\ r \notin early
      BY <3>1 DEF DoneInv, DoneOf
    <3>2. CASE EachRankStatus
      <4>1. lpc # "idle"
        BY <3>2 DEF EachRankStatus, AbortInv, ThreadWithinCall
      <4>2. QED
        BY <1>1, <3>1, <3>2, <4>1, CountsStopped
    <3>3. CASE ~EachRankStatus
      BY <1>1, <1>3, <3>1, <3>3, DoneFrame
    <3>4. QED
      BY <3>2, <3>3
  <2>2. QED
    BY <2>1, BootedStays, StoppedStays
<1>4. QED
  BY <1>2, <1>3

(* A rank that each_rank_status counts as done after its launch job was    *)
(* taken has stopped and stays so until the call returns, although only    *)
(* its run context was read, or its launch has failed; in either mode and  *)
(* whatever the threads' order.                                            *)
THEOREM DoneHaveStopped == PreemptSpec => []DoneIsDone
<1>1. PreemptInit => DoneInv
  BY DEF PreemptInit, DoneInv, DoneOf
<1>2. AbortInv /\ DoneInv /\ [PreemptNext]_allVars => DoneInv'
  BY DoneStep
<1>3. DoneInv => DoneIsDone
  BY DEF DoneInv, DoneOf, StoppedOf, DoneIsDone
<1>4. QED
  BY <1>1, <1>2, <1>3, AbortInductive, PTL DEF PreemptSpec
====
