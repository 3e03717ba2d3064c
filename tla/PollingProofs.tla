---------------------------- MODULE PollingProofs ----------------------------
(***************************************************************************)
(* The run context of a rank is consistent, a launch that succeeded is     *)
(* complete, and the polling thread is awake when it is needed, for every  *)
(* number of ranks, DPUs and polling threads, every mixture of launches    *)
(* and every number of failures of the control interface.                  *)
(***************************************************************************)
EXTENDS Polling, FiniteSetTheorems, TLAPS

(* The scan of a polling thread is about ranks of its queue; the one it    *)
(* is to poll had DPUs running when it was read.                           *)
ScanOf(q) ==
    /\ todo[q] \subseteq RanksOf(q)
    /\ cur[q] \subseteq RanksOf(q)
    /\ \A r, s \in cur[q] : r = s
    /\ ppc[q] = "poll" => was[q] # 0

(* A polling thread that sleeps and has not been signalled has seen every  *)
(* flag down since it went to sleep.                                       *)
SleepOf(q) ==
    ppc[q] = "sleep" /\ ~woken[q] => ~isDpuRunning[q] /\ ~oneRunning[q] /\ isRunning[q]

(* The polling thread of the rank is still to look at it: a flag is up, or *)
(* the scan under way has not come to the rank or is about to poll it.     *)
WillLook(r) ==
    LET q == QueueOf[r] IN
    \/ isDpuRunning[q] \/ oneRunning[q] \/ ~isRunning[q]
    \/ ppc[q] \in {"scan", "poll"} /\ r \in todo[q]
    \/ ppc[q] = "poll" /\ r \in cur[q]

(* It is, as long as the run context shows DPUs that a worker waits for.   *)
WatchedOf(r) ==
    pc[r] \in {"sync", "block", "wait"} /\ nb[r] # 0 /\ pollStatus[r] = "OK" => WillLook(r)

(* What a worker that waits knows of the DPUs it launched: one that runs   *)
(* or is in fault is shown by the run context; no fault has been seen      *)
(* while the status is still DPU_OK.                                       *)
ShownOf(r) ==
    /\ pc[r] \in {"kick", "sync", "block", "wait"} =>
          Selected(r) \cap (hwRun[r] \cup hwFault[r]) \subseteq running[r] \cup inFault[r]
    /\ status[r] = "OK" => seen[r] = {}
    /\ pc[r] \in {"block", "wait"} /\ target[r] = All => status[r] # "ERR"

ScanInv == \A q \in Queue : ScanOf(q)
SleepInv == \A q \in Queue : SleepOf(q)
Watched == \A r \in Rank : WatchedOf(r)
Shown == \A r \in Rank : ShownOf(r)

(* The strengthening that is inductive. *)
IInv ==
    /\ TypeOK
    /\ RunContextCounts
    /\ ScanInv
    /\ SleepInv
    /\ Watched
    /\ Shown
    /\ LaunchComplete

-----------------------------------------------------------------------------

(* A set of DPUs is finite, and empty when its count is zero. *)
LEMMA SubsetCount ==
    ASSUME NEW S \in SUBSET Dpu
    PROVE  IsFiniteSet(S) /\ Cardinality(S) \in Nat /\ (Cardinality(S) = 0 <=> S = {})
  BY ConstAssumption, FS_Subset, FS_CardinalityType, FS_EmptySet

(* A poll makes the run context what the hardware shows, on one rank. *)
LEMMA RefreshEffect ==
    ASSUME TypeOK, NEW r \in Rank, Refresh(r)
    PROVE  /\ inFault' \in [Rank -> SUBSET Dpu] /\ running' \in [Rank -> SUBSET Dpu]
           /\ nb' \in [Rank -> Nat]
           /\ nb'[r] = Cardinality(running'[r])
           /\ inFault'[r] = hwFault[r] /\ running'[r] = hwRun[r] \ hwFault[r]
           /\ \A s \in Rank \ {r} : nb'[s] = nb[s] /\ running'[s] = running[s] /\ inFault'[s] = inFault[s]
<1>1. hwRun[r] \ hwFault[r] \in SUBSET Dpu /\ hwFault[r] \in SUBSET Dpu
  BY DEF TypeOK
<1>2. Cardinality(hwRun[r] \ hwFault[r]) \in Nat
  BY <1>1, SubsetCount
<1>3. QED
  BY <1>1, <1>2 DEF TypeOK, Refresh

(* A function keeps its type when a value of that type is put in it. *)
LEMMA ExceptType ==
    ASSUME NEW S, NEW V, NEW f \in [S -> V], NEW x, NEW v, x \in S => v \in V
    PROVE  [f EXCEPT ![x] = v] \in [S -> V]
OBVIOUS

(* The end of a launch job leaves what it changes well typed. *)
LEMMA JobEndsType ==
    ASSUME TypeOK, NEW r \in Rank, NEW v \in Status, JobEnds(r, v)
    PROVE  /\ pc' \in [Rank -> {"idle", "boot", "start", "kick", "sync", "block", "wait"}]
           /\ result' \in [Rank -> Status]
           /\ seen' \in [Rank -> SUBSET Dpu]
           /\ status' \in [Rank -> Status]
           /\ UNCHANGED target
  BY DEF TypeOK, JobEnds, Status

(* Every step preserves the type invariant. *)
LEMMA TypeStep ==
    ASSUME TypeOK, [Next]_vars
    PROVE  TypeOK'
<1> USE DEF hwVars, contextVars, workerVars, pollerVars
<1>1. ASSUME NEW r \in Rank, StartJob(r)
      PROVE  TypeOK'
  BY <1>1 DEF TypeOK, StartJob
<1>2. ASSUME NEW r \in Rank, Boot(r)
      PROVE  TypeOK'
  <2>1. CASE JobEnds(r, "ERR") /\ UNCHANGED <<contextVars, hwVars, signalled, pollerVars, isRunning>>
    <3>1. failures' \in 0..MaxFailures
      BY <1>2, ConstAssumption DEF TypeOK, Boot, AccessFails
    <3>2. QED
      BY <2>1, <3>1, JobEndsType DEF TypeOK, Status
  <2>2. CASE /\ Refresh(r)
             /\ pc' = [pc EXCEPT ![r] = "start"]
             /\ UNCHANGED <<pollStatus, target, seen, status, result, failures>>
             /\ UNCHANGED <<hwVars, signalled, pollerVars, isRunning>>
    BY <2>2, RefreshEffect DEF TypeOK
  <2>3. QED
    BY <1>2, <2>1, <2>2 DEF Boot
<1>3. ASSUME NEW r \in Rank, StartThread(r)
      PROVE  TypeOK'
  <2>1. Selected(r) \in SUBSET Dpu /\ hwRun \in [Rank -> SUBSET Dpu]
    BY ConstAssumption DEF TypeOK, Selected
  <2>2. hwRun' \in [Rank -> SUBSET Dpu]
    BY <1>3, <2>1 DEF StartThread
  <2>3. CASE JobEnds(r, "ERR") /\ UNCHANGED <<running, nb>> /\ AccessFails
    <3>1. failures' \in 0..MaxFailures
      BY <2>3, ConstAssumption DEF TypeOK, AccessFails
    <3>2. QED
      BY <1>3, <2>2, <2>3, <3>1, JobEndsType DEF TypeOK, Status, StartThread
  <2>4. CASE /\ running' = [running EXCEPT ![r] = @ \cup Selected(r)]
             /\ nb' = [nb EXCEPT ![r] = CountStarted(r)]
             /\ pc' = [pc EXCEPT ![r] = "kick"]
             /\ UNCHANGED <<target, seen, status, result, failures>>
    <3>1. CountStarted(r) \in Nat
      BY SubsetCount DEF TypeOK, CountStarted
    <3>2. QED
      BY <1>3, <2>1, <2>2, <2>4, <3>1 DEF TypeOK, StartThread
  <2>5. QED
    BY <1>3, <2>3, <2>4 DEF StartThread
<1>4. ASSUME NEW r \in Rank, Kick(r)
      PROVE  TypeOK'
  <2>1. isDpuRunning' \in [Queue -> BOOLEAN] /\ woken' \in [Queue -> BOOLEAN]
    BY <1>4, ExceptType DEF TypeOK, Kick, SetDpuRunning, SignalPoller
  <2>2. pc' \in [Rank -> {"idle", "boot", "start", "kick", "sync", "block", "wait"}]
    BY <1>4 DEF TypeOK, Kick
  <2>3. QED
    BY <1>4, <2>1, <2>2 DEF TypeOK, Kick
<1>5. ASSUME NEW r \in Rank, Sync(r)
      PROVE  TypeOK'
  <2>1. CASE /\ pc' = [pc EXCEPT ![r] = "block"]
             /\ UNCHANGED <<target, seen, status, result, failures>>
    <3>2. pc' \in [Rank -> {"idle", "boot", "start", "kick", "sync", "block", "wait"}]
      BY <2>1 DEF TypeOK
    <3>3. QED
      BY <1>5, <2>1, <3>2 DEF TypeOK, Sync
  <2>2. ASSUME NEW v \in Status, JobEnds(r, v), failures' = failures \/ AccessFails
        PROVE  TypeOK'
    <3>1. failures' \in 0..MaxFailures
      BY <2>2, ConstAssumption DEF TypeOK, AccessFails
    <3>2. QED
      BY <1>5, <2>2, <3>1, JobEndsType DEF TypeOK, Sync
  <2>3. SyncStatus(r) \in Status /\ "ERR" \in Status
    BY DEF TypeOK, SyncStatus, CheckFault, Status
  <2>4. QED
    BY <1>5, <2>1, <2>2, <2>3 DEF Sync
<1>6. ASSUME NEW r \in Rank, WakeUp(r)
      PROVE  TypeOK'
  <2>1. signalled' \in [Rank -> BOOLEAN]
    BY <1>6, ExceptType DEF TypeOK, WakeUp
  <2>2. /\ pc' \in [Rank -> {"idle", "boot", "start", "kick", "sync", "block", "wait"}]
        /\ status' \in [Rank -> Status] /\ seen' \in [Rank -> SUBSET Dpu]
    <3>1. CheckFault(r) \in Status /\ inFault[r] \in SUBSET Dpu
      BY DEF TypeOK, CheckFault, Status
    <3>2. QED
      BY <1>6, <3>1 DEF TypeOK, WakeUp
  <2>3. QED
    BY <1>6, <2>1, <2>2 DEF TypeOK, WakeUp
<1>b. ASSUME NEW r \in Rank, Block(r)
      PROVE  TypeOK'
  <2>1. signalled' \in [Rank -> BOOLEAN]
    BY <1>b, ExceptType DEF TypeOK, Block
  <2>2. pc' \in [Rank -> {"idle", "boot", "start", "kick", "sync", "block", "wait"}]
    BY <1>b DEF TypeOK, Block
  <2>3. QED
    BY <1>b, <2>1, <2>2 DEF TypeOK, Block
<1>7. ASSUME NEW r \in Rank, NEW d \in Dpu, DpuStops(r, d)
      PROVE  TypeOK'
  BY SMTT(60), <1>7 DEF TypeOK, DpuStops
<1>8. ASSUME NEW q \in Queue, Check(q) \/ ScanDone(q)
      PROVE  TypeOK'
  BY <1>8 DEF TypeOK, Check, ScanDone
<1>9. ASSUME NEW q \in Queue, SleepOrScan(q)
      PROVE  TypeOK'
  <2>1. /\ isDpuRunning' \in [Queue -> BOOLEAN] /\ woken' \in [Queue -> BOOLEAN]
        /\ oneRunning' \in [Queue -> BOOLEAN]
    BY <1>9, ExceptType DEF TypeOK, SleepOrScan
  <2>2. /\ ppc' \in [Queue -> {"check", "lock", "sleep", "scan", "poll", "exit"}]
        /\ todo' \in [Queue -> SUBSET Rank]
    <3>1. RanksOf(q) \in SUBSET Rank
      BY DEF RanksOf
    <3>2. QED
      BY SMTT(60), <1>9, <3>1 DEF TypeOK, SleepOrScan, Scan
  <2>3. QED
    BY <1>9, <2>1, <2>2 DEF TypeOK, SleepOrScan
<1>10. ASSUME NEW q \in Queue, PollerWakes(q)
      PROVE  TypeOK'
  <2>1. woken' \in [Queue -> BOOLEAN]
    BY <1>10, ExceptType DEF TypeOK, PollerWakes
  <2>2. /\ ppc' \in [Queue -> {"check", "lock", "sleep", "scan", "poll", "exit"}]
        /\ todo' \in [Queue -> SUBSET Rank]
    BY <1>10 DEF TypeOK, PollerWakes, Scan, RanksOf
  <2>3. QED
    BY <1>10, <2>1, <2>2 DEF TypeOK, PollerWakes
<1>11. ASSUME NEW q \in Queue, Destroy(q)
      PROVE  TypeOK'
  <2>1. isRunning' \in [Queue -> BOOLEAN] /\ woken' \in [Queue -> BOOLEAN]
    BY <1>11, ExceptType DEF TypeOK, Destroy, SignalPoller
  <2>2. QED
    BY <1>11, <2>1 DEF TypeOK, Destroy
<1>12. ASSUME NEW q \in Queue, ReadRank(q)
      PROVE  TypeOK'
  <2>1. PICK r \in todo[q] :
          /\ todo' = [todo EXCEPT ![q] = @ \ {r}]
          /\ \/ UNCHANGED <<ppc, cur, was>>
             \/ /\ ppc' = [ppc EXCEPT ![q] = "poll"]
                /\ cur' = [cur EXCEPT ![q] = {r}]
                /\ was' = [was EXCEPT ![q] = nb[r]]
    BY <1>12 DEF ReadRank
  <2>2. /\ ppc' \in [Queue -> {"check", "lock", "sleep", "scan", "poll", "exit"}]
        /\ todo' \in [Queue -> SUBSET Rank] /\ cur' \in [Queue -> SUBSET Rank]
        /\ was' \in [Queue -> Nat]
    <3>1. todo[q] \in SUBSET Rank /\ nb[r] \in Nat /\ r \in Rank
      BY <2>1 DEF TypeOK
    <3>2. QED
      BY SMTT(60), <2>1, <3>1 DEF TypeOK
  <2>3. QED
    BY <1>12, <2>2 DEF TypeOK, ReadRank
<1>13. ASSUME NEW q \in Queue, PollRank(q)
      PROVE  TypeOK'
  <2>1. PICK r \in cur[q] :
          \/ /\ RetryRank(q)
             /\ UNCHANGED <<contextVars, signalled, failures>>
          \/ /\ AccessFails
             /\ pollStatus' = [pollStatus EXCEPT ![r] = "ERR"]
             /\ Broadcast(r)
             /\ UNCHANGED <<running, inFault, nb, oneRunning>>
          \/ /\ Refresh(r)
             /\ pollStatus' = [pollStatus EXCEPT ![r] = "OK"]
             /\ Broadcast(r) \/ UNCHANGED signalled
             /\ oneRunning' = [oneRunning EXCEPT ![q] = @ \/ nb'[r] # 0]
             /\ UNCHANGED failures
    BY <1>13 DEF PollRank
  <2>2. r \in Rank
    BY <2>1 DEF TypeOK
  <2>3. running' \in [Rank -> SUBSET Dpu] /\ inFault' \in [Rank -> SUBSET Dpu] /\ nb' \in [Rank -> Nat]
    BY <2>1, <2>2, RefreshEffect DEF TypeOK
  <2>4. failures' \in 0..MaxFailures /\ pollStatus' \in [Rank -> {"OK", "ERR"}]
    BY SMTT(60), <2>1, <2>2, ConstAssumption DEF TypeOK, AccessFails
  <2>5. signalled' \in [Rank -> BOOLEAN] /\ oneRunning' \in [Queue -> BOOLEAN]
    <3>1. signalled \in [Rank -> BOOLEAN] /\ oneRunning \in [Queue -> BOOLEAN]
      BY DEF TypeOK
    <3>2. signalled' = signalled \/ signalled' = [signalled EXCEPT ![r] = pc[r] = "wait"]
      BY <2>1 DEF Broadcast
    <3>3. \E b \in BOOLEAN : oneRunning' = [oneRunning EXCEPT ![q] = b]
      <4>1. oneRunning = [oneRunning EXCEPT ![q] = oneRunning[q]] /\ oneRunning[q] \in BOOLEAN
        BY <3>1
      <4>2. QED
        BY <2>1, <4>1 DEF RetryRank
    <3>4. QED
      BY <3>1, <3>2, <3>3, ExceptType
  <2>6. /\ ppc' \in [Queue -> {"check", "lock", "sleep", "scan", "poll", "exit"}]
        /\ cur' \in [Queue -> SUBSET Rank] /\ was' \in [Queue -> Nat]
    BY <1>13 DEF TypeOK, PollRank
  <2>7. QED
    BY <1>13, <2>3, <2>4, <2>5, <2>6 DEF TypeOK, PollRank
<1>14. CASE UNCHANGED vars
  BY <1>14 DEF TypeOK, vars
<1>15. QED
  BY <1>1, <1>2, <1>3, <1>4, <1>5, <1>6, <1>b, <1>7, <1>8, <1>9, <1>10, <1>11, <1>12, <1>13, <1>14
     DEF Next, InJob, PollerStep

-----------------------------------------------------------------------------

(* The counter and the bits of dpu_running change together. *)
LEMMA CountStep ==
    ASSUME TypeOK, RunContextCounts, [Next]_vars
    PROVE  RunContextCounts'
<1> USE DEF hwVars, contextVars, workerVars, pollerVars
<1>1. ASSUME NEW r \in Rank, Refresh(r)
      PROVE  RunContextCounts'
  BY <1>1, RefreshEffect DEF RunContextCounts
<1>2. CASE UNCHANGED <<nb, running>>
  BY <1>2 DEF RunContextCounts
<1>3. ASSUME NEW r \in Rank, StartThread(r)
      PROVE  RunContextCounts'
  <2>1. CASE UNCHANGED <<running, nb>>
    BY <1>2, <2>1
  <2>2. CASE /\ running' = [running EXCEPT ![r] = @ \cup Selected(r)]
             /\ nb' = [nb EXCEPT ![r] = CountStarted(r)]
    <3>1. IsFiniteSet(running[r]) /\ running[r] \in SUBSET Dpu /\ nb[r] = Cardinality(running[r])
      BY SubsetCount DEF TypeOK, RunContextCounts
    <3>2. CASE target[r] = All
      <4>1. running[r] \cup Selected(r) = Dpu /\ CountStarted(r) = Cardinality(Dpu)
        BY <3>1, <3>2 DEF Selected, CountStarted
      <4>2. QED
        BY <2>2, <4>1 DEF TypeOK, RunContextCounts
    <3>3. CASE target[r] # All
      <4>1. CASE target[r] \in running[r]
        <5>1. running[r] \cup Selected(r) = running[r] /\ CountStarted(r) = nb[r]
          BY <3>3, <4>1 DEF Selected, CountStarted
        <5>2. QED
          BY <2>2, <5>1 DEF TypeOK, RunContextCounts
      <4>2. CASE target[r] \notin running[r]
        <5>1. Cardinality(running[r] \cup Selected(r)) = Cardinality(running[r]) + 1
          BY <3>1, <3>3, <4>2, FS_AddElement DEF Selected
        <5>2. CountStarted(r) = nb[r] + 1
          BY <3>3, <4>2 DEF CountStarted
        <5>3. QED
          BY <2>2, <3>1, <5>1, <5>2 DEF TypeOK, RunContextCounts
      <4>3. QED
        BY <4>1, <4>2
    <3>4. QED
      BY <3>2, <3>3
  <2>3. QED
    BY <1>3, <2>1, <2>2 DEF StartThread
<1>4. ASSUME NEW r \in Rank, Boot(r)
      PROVE  RunContextCounts'
  BY <1>1, <1>2, <1>4 DEF Boot
<1>5. ASSUME NEW q \in Queue, PollRank(q)
      PROVE  RunContextCounts'
  BY <1>1, <1>2, <1>5 DEF PollRank, TypeOK
<1>6. ASSUME NEW r \in Rank, StartJob(r) \/ Kick(r) \/ Sync(r) \/ Block(r) \/ WakeUp(r) \/ \E d \in Dpu : DpuStops(r, d)
      PROVE  UNCHANGED <<nb, running>>
  BY <1>6 DEF StartJob, Kick, Sync, Block, WakeUp, DpuStops
<1>7. ASSUME NEW q \in Queue, PollerStep(q) \/ Destroy(q), ~PollRank(q)
      PROVE  UNCHANGED <<nb, running>>
  BY <1>7 DEF PollerStep, Check, SleepOrScan, PollerWakes, ReadRank, ScanDone, Destroy
<1>8. CASE UNCHANGED vars
  BY <1>2, <1>8 DEF vars
<1>9. QED
  BY <1>2, <1>3, <1>4, <1>5, <1>6, <1>7, <1>8 DEF Next, InJob, PollerStep

-----------------------------------------------------------------------------

(* What a polling thread that polls does, to one rank of its queue. *)
LEMMA PollEffect ==
    ASSUME TypeOK, ScanInv, NEW q \in Queue, PollRank(q)
    PROVE  \E r \in Rank :
             /\ cur[q] = {r} /\ QueueOf[r] = q
             /\ \/ /\ Locked(r) /\ oneRunning'[q]
                   /\ UNCHANGED <<contextVars, signalled>>
                \/ /\ ~Locked(r) /\ pollStatus' = [pollStatus EXCEPT ![r] = "ERR"]
                   /\ signalled' = [signalled EXCEPT ![r] = pc[r] = "wait"]
                   /\ UNCHANGED <<running, inFault, nb, oneRunning>>
                \/ /\ ~Locked(r) /\ Refresh(r)
                   /\ pollStatus' = [pollStatus EXCEPT ![r] = "OK"]
                   /\ signalled' = IF was[q] > nb'[r] THEN [signalled EXCEPT ![r] = pc[r] = "wait"]
                                   ELSE signalled
                   /\ nb'[r] # 0 => oneRunning'[q]
             /\ \A p \in Queue \ {q} : oneRunning'[p] = oneRunning[p]
<1>1. PICK r \in cur[q] :
          \/ /\ Locked(r) /\ RetryRank(q)
             /\ UNCHANGED <<contextVars, signalled, failures>>
          \/ /\ ~Locked(r)
             /\ pollStatus' = [pollStatus EXCEPT ![r] = "ERR"]
             /\ Broadcast(r)
             /\ UNCHANGED <<running, inFault, nb, oneRunning>>
          \/ /\ ~Locked(r)
             /\ Refresh(r)
             /\ pollStatus' = [pollStatus EXCEPT ![r] = "OK"]
             /\ IF MustBroadcast(q, nb'[r]) THEN Broadcast(r) ELSE UNCHANGED signalled
             /\ oneRunning' = [oneRunning EXCEPT ![q] = @ \/ nb'[r] # 0]
  BY DEF PollRank
<1>2. r \in Rank /\ cur[q] = {r} /\ QueueOf[r] = q
  BY <1>1 DEF TypeOK, ScanInv, ScanOf, RanksOf
<1>3. oneRunning \in [Queue -> BOOLEAN]
  BY DEF TypeOK
<1>4. QED
  BY <1>1, <1>2, <1>3 DEF RetryRank, Broadcast, MustBroadcast

(* A scan stays within the queue; flags go up with a signal. *)
LEMMA ScanStep ==
    ASSUME TypeOK, ScanInv, SleepInv, [Next]_vars
    PROVE  ScanInv' /\ SleepInv'
<1> USE DEF hwVars, contextVars, workerVars, pollerVars
<1> SUFFICES ASSUME NEW p \in Queue
             PROVE  ScanOf(p)' /\ SleepOf(p)'
  BY DEF ScanInv, SleepInv
<1>0. ScanOf(p) /\ SleepOf(p)
  BY DEF ScanInv, SleepInv
<1>1. ASSUME NEW r \in Rank, Kick(r)
      PROVE  ScanOf(p)' /\ SleepOf(p)'
  BY <1>0, <1>1, ConstAssumption DEF TypeOK, Kick, SetDpuRunning, SignalPoller, ScanOf, SleepOf, RanksOf
<1>2. ASSUME NEW q \in Queue, Check(q) \/ ScanDone(q)
      PROVE  ScanOf(p)' /\ SleepOf(p)'
  BY <1>0, <1>2 DEF TypeOK, Check, ScanDone, ScanOf, SleepOf, RanksOf
<1>3. ASSUME NEW q \in Queue, SleepOrScan(q)
      PROVE  ScanOf(p)' /\ SleepOf(p)'
  BY <1>0, <1>3 DEF TypeOK, SleepOrScan, Scan, NothingToPoll, ScanOf, SleepOf, RanksOf
<1>4. ASSUME NEW q \in Queue, PollerWakes(q)
      PROVE  ScanOf(p)' /\ SleepOf(p)'
  BY <1>0, <1>4 DEF TypeOK, PollerWakes, Scan, ScanOf, SleepOf, RanksOf
<1>5. ASSUME NEW q \in Queue, ReadRank(q)
      PROVE  ScanOf(p)' /\ SleepOf(p)'
  BY <1>0, <1>5 DEF TypeOK, ReadRank, ScanOf, SleepOf, RanksOf
<1>6. ASSUME NEW q \in Queue, PollRank(q)
      PROVE  ScanOf(p)' /\ SleepOf(p)'
  <2>1. PICK r \in Rank : cur[q] = {r} /\ \A o \in Queue \ {q} : oneRunning'[o] = oneRunning[o]
    BY <1>6, PollEffect
  <2>2. QED
    BY <1>0, <1>6, <2>1 DEF TypeOK, PollRank, ScanOf, SleepOf, RanksOf
<1>7. ASSUME NEW q \in Queue, Destroy(q)
      PROVE  ScanOf(p)' /\ SleepOf(p)'
  BY <1>0, <1>7 DEF TypeOK, Destroy, SignalPoller, ScanOf, SleepOf, RanksOf
<1>8. CASE UNCHANGED <<pollerVars, isRunning>>
  BY <1>0, <1>8 DEF ScanOf, SleepOf, RanksOf
<1>9. ASSUME NEW r \in Rank,
             StartJob(r) \/ Boot(r) \/ StartThread(r) \/ Sync(r) \/ Block(r) \/ WakeUp(r) \/ \E d \in Dpu : DpuStops(r, d)
      PROVE  UNCHANGED <<pollerVars, isRunning>>
  BY <1>9 DEF StartJob, Boot, StartThread, Sync, Block, WakeUp, DpuStops
<1>10. CASE UNCHANGED vars
  BY <1>8, <1>10 DEF vars
<1>11. QED
  BY <1>1, <1>2, <1>3, <1>4, <1>5, <1>6, <1>7, <1>8, <1>9, <1>10 DEF Next, InJob, PollerStep

(* The polling thread does not lose sight of a rank that is waited for. *)
LEMMA WatchStep ==
    ASSUME TypeOK, ScanInv, SleepInv, Watched, [Next]_vars
    PROVE  Watched'
<1> USE DEF hwVars, contextVars, workerVars, pollerVars
<1> SUFFICES ASSUME NEW r \in Rank, WatchedOf(r)
             PROVE  WatchedOf(r)'
  BY DEF Watched
<1>0. QueueOf[r] \in Queue
  BY ConstAssumption
<1>1. ASSUME NEW s \in Rank, StartJob(s) \/ Sync(s) \/ Block(s) \/ WakeUp(s) \/ \E d \in Dpu : DpuStops(s, d)
      PROVE  WatchedOf(r)'
  BY <1>1 DEF TypeOK, StartJob, Sync, Block, WakeUp, DpuStops, JobEnds, WatchedOf, WillLook
<1>2. ASSUME NEW s \in Rank, Boot(s)
      PROVE  WatchedOf(r)'
  BY <1>2, RefreshEffect DEF TypeOK, Boot, JobEnds, WatchedOf, WillLook
<1>3. ASSUME NEW s \in Rank, StartThread(s)
      PROVE  WatchedOf(r)'
  BY <1>3 DEF TypeOK, StartThread, JobEnds, WatchedOf, WillLook
<1>4. ASSUME NEW s \in Rank, Kick(s)
      PROVE  WatchedOf(r)'
  BY <1>0, <1>4, ConstAssumption DEF TypeOK, Kick, SetDpuRunning, WatchedOf, WillLook
<1>5. ASSUME NEW q \in Queue, Check(q) \/ ScanDone(q)
      PROVE  WatchedOf(r)'
  BY <1>0, <1>5 DEF TypeOK, Check, ScanDone, WatchedOf, WillLook
<1>6. ASSUME NEW q \in Queue, SleepOrScan(q)
      PROVE  WatchedOf(r)'
  BY <1>0, <1>6 DEF TypeOK, SleepOrScan, Scan, NothingToPoll, WatchedOf, WillLook, RanksOf
<1>7. ASSUME NEW q \in Queue, PollerWakes(q)
      PROVE  WatchedOf(r)'
  BY <1>0, <1>7 DEF TypeOK, PollerWakes, Scan, WatchedOf, WillLook, RanksOf
<1>8. ASSUME NEW q \in Queue, ReadRank(q)
      PROVE  WatchedOf(r)'
  BY <1>0, <1>8 DEF TypeOK, ReadRank, WatchedOf, WillLook
<1>9. ASSUME NEW q \in Queue, PollRank(q)
      PROVE  WatchedOf(r)'
  <2>1. PICK s \in Rank :
             /\ cur[q] = {s} /\ QueueOf[s] = q
             /\ \/ /\ Locked(s) /\ oneRunning'[q]
                   /\ UNCHANGED <<contextVars, signalled>>
                \/ /\ ~Locked(s) /\ pollStatus' = [pollStatus EXCEPT ![s] = "ERR"]
                   /\ UNCHANGED <<running, inFault, nb, oneRunning>>
                \/ /\ ~Locked(s) /\ Refresh(s)
                   /\ pollStatus' = [pollStatus EXCEPT ![s] = "OK"]
                   /\ nb'[s] # 0 => oneRunning'[q]
             /\ \A p \in Queue \ {q} : oneRunning'[p] = oneRunning[p]
    BY <1>9, PollEffect
  <2>2. CASE s = r
    <3>1. nb'[r] # 0 /\ pollStatus'[r] = "OK" => oneRunning'[q]
      BY <2>1, <2>2, RefreshEffect DEF TypeOK
    <3>2. QED
      BY <2>1, <2>2, <3>1 DEF WatchedOf, WillLook
  <2>3. CASE s # r
    <3>1. nb'[r] = nb[r] /\ pollStatus'[r] = pollStatus[r]
      BY <2>1, <2>3, RefreshEffect DEF TypeOK
    <3>2. oneRunning[QueueOf[r]] => oneRunning'[QueueOf[r]]
      BY <1>0, <1>9, <2>1, <2>3 DEF PollRank, TypeOK, RetryRank
    <3>3. QED
      BY <1>0, <1>9, <2>1, <2>3, <3>1, <3>2 DEF TypeOK, PollRank, WatchedOf, WillLook
  <2>4. QED
    BY <2>2, <2>3
<1>10. ASSUME NEW q \in Queue, Destroy(q)
      PROVE  WatchedOf(r)'
  BY <1>0, <1>10 DEF TypeOK, Destroy, WatchedOf, WillLook
<1>11. CASE UNCHANGED vars
  BY <1>11 DEF vars, WatchedOf, WillLook
<1>12. QED
  BY <1>1, <1>2, <1>3, <1>4, <1>5, <1>6, <1>7, <1>8, <1>9, <1>10, <1>11 DEF Next, InJob, PollerStep

-----------------------------------------------------------------------------

(* A rank whose worker, DPUs and run context are left alone. *)
SameRank(r) ==
    /\ pc'[r] = pc[r] /\ target'[r] = target[r] /\ seen'[r] = seen[r] /\ status'[r] = status[r]
    /\ result'[r] = result[r] /\ hwRun'[r] = hwRun[r] /\ hwFault'[r] = hwFault[r]
    /\ running'[r] = running[r] /\ inFault'[r] = inFault[r]

(* The run context of a rank gets the state of its DPUs, its worker being  *)
(* left alone.                                                             *)
Reads(r) ==
    /\ pc'[r] = pc[r] /\ target'[r] = target[r] /\ seen'[r] = seen[r] /\ status'[r] = status[r]
    /\ result'[r] = result[r] /\ hwRun'[r] = hwRun[r] /\ hwFault'[r] = hwFault[r]
    /\ inFault'[r] = hwFault[r] /\ running'[r] = hwRun[r] \ hwFault[r]

(* LaunchComplete, of one rank. *)
CompleteOf(r) ==
    pc[r] = "idle" /\ result[r] = "OK" => Selected(r) \cap (hwRun[r] \cup hwFault[r]) = {}

(* A step that leaves the launch of a rank and its DPUs alone keeps both. *)
LEMMA SameKeeps ==
    ASSUME NEW r \in Rank, ShownOf(r), CompleteOf(r), SameRank(r) \/ Reads(r)
    PROVE  ShownOf(r)' /\ CompleteOf(r)'
<1>1. Selected(r)' = Selected(r)
  BY DEF SameRank, Reads, Selected
<1>2. QED
  BY <1>1 DEF SameRank, Reads, ShownOf, CompleteOf

(* A launch job that ends with DPU_OK ends when the run context shows none *)
(* of its DPUs running or in fault.                                        *)
LEMMA SyncEnds ==
    ASSUME TypeOK, RunContextCounts, NEW r \in Rank, ShownOf(r), pc[r] = "sync",
           ~MustWait(r), SyncStatus(r) = "OK"
    PROVE  Selected(r) \cap (hwRun[r] \cup hwFault[r]) = {}
<1>1. Selected(r) \cap (hwRun[r] \cup hwFault[r]) \subseteq running[r] \cup inFault[r]
  BY DEF ShownOf
<1>2. CASE target[r] = All
  <2>1. pollStatus[r] = "OK" /\ inFault[r] = seen[r] /\ status[r] = "OK"
    BY <1>2 DEF SyncStatus, CheckFault
  <2>2. inFault[r] = {} /\ nb[r] \in Nat /\ ~(nb[r] > 0)
    BY <1>2, <2>1 DEF ShownOf, MustWait, TypeOK
  <2>3. running[r] = {}
    BY <2>2, SubsetCount DEF RunContextCounts, TypeOK
  <2>4. QED
    BY <1>1, <2>2, <2>3
<1>3. CASE target[r] # All
  <2>1. target[r] \notin running[r] /\ target[r] \notin inFault[r]
    BY <1>3 DEF MustWait, SyncStatus
  <2>2. Selected(r) = {target[r]}
    BY <1>3 DEF Selected
  <2>3. QED
    BY <1>1, <2>1, <2>2
<1>4. QED
  BY <1>2, <1>3

(* What the run context shows, and that launches are complete. *)
LEMMA ShownStep ==
    ASSUME TypeOK, RunContextCounts, ScanInv, Shown, LaunchComplete, [Next]_vars
    PROVE  Shown' /\ LaunchComplete'
<1> USE DEF hwVars, contextVars, workerVars, pollerVars
<1> SUFFICES ASSUME NEW r \in Rank, ShownOf(r), CompleteOf(r)
             PROVE  ShownOf(r)' /\ CompleteOf(r)'
  BY DEF Shown, LaunchComplete, CompleteOf
<1>1. ASSUME NEW s \in Rank, StartJob(s) \/ Boot(s) \/ StartThread(s) \/ Kick(s) \/ Sync(s) \/ Block(s) \/ WakeUp(s)
                             \/ \E d \in Dpu : DpuStops(s, d), s # r
      PROVE  SameRank(r)
  <2>1. Refresh(s) => SameRank(r) \/ (running'[r] = running[r] /\ inFault'[r] = inFault[r])
    BY <1>1, RefreshEffect
  <2>2. QED
    BY <1>1, <2>1 DEF TypeOK, StartJob, Boot, StartThread, Kick, Sync, Block, WakeUp, DpuStops, JobEnds, SameRank
<1>2. ASSUME StartJob(r)
      PROVE  ShownOf(r)' /\ CompleteOf(r)'
  BY <1>2 DEF TypeOK, StartJob, ShownOf, CompleteOf
<1>3. ASSUME Boot(r)
      PROVE  ShownOf(r)' /\ CompleteOf(r)'
  BY <1>3 DEF TypeOK, Boot, JobEnds, ShownOf, CompleteOf
<1>4. ASSUME StartThread(r)
      PROVE  ShownOf(r)' /\ CompleteOf(r)'
  <2>1. CASE JobEnds(r, "ERR")
    BY <2>1 DEF TypeOK, JobEnds, ShownOf, CompleteOf
  <2>2. CASE /\ hwRun' = [hwRun EXCEPT ![r] = @ \cup Selected(r)]
             /\ running' = [running EXCEPT ![r] = @ \cup Selected(r)]
             /\ pc' = [pc EXCEPT ![r] = "kick"]
             /\ UNCHANGED <<target, seen, status, result, failures>>
    <3>1. Selected(r)' = Selected(r) /\ pc'[r] = "kick" /\ Selected(r) \subseteq running'[r]
      BY <2>2 DEF TypeOK, Selected
    <3>2. QED
      BY <2>2, <3>1 DEF ShownOf, CompleteOf
  <2>3. QED
    BY <1>4, <2>1, <2>2 DEF StartThread
<1>5. ASSUME Kick(r)
      PROVE  ShownOf(r)' /\ CompleteOf(r)'
  <2>1. Selected(r)' = Selected(r) /\ pc'[r] = "sync"
    BY <1>5 DEF Kick, Selected, TypeOK
  <2>2. QED
    BY <1>5, <2>1 DEF Kick, ShownOf, CompleteOf
<1>6. ASSUME Sync(r)
      PROVE  ShownOf(r)' /\ CompleteOf(r)'
  <2>1. Selected(r)' = Selected(r)
    BY <1>6 DEF Sync, JobEnds, Selected, TypeOK
  <2>2. CASE MustWait(r) /\ pc' = [pc EXCEPT ![r] = "block"] /\ UNCHANGED <<target, seen, status, result>>
    BY <1>6, <2>1, <2>2 DEF TypeOK, Sync, ShownOf, CompleteOf, MustWait
  <2>3. CASE JobEnds(r, "ERR")
    BY <1>6, <2>3 DEF TypeOK, JobEnds, ShownOf, CompleteOf
  <2>4. CASE ~MustWait(r) /\ JobEnds(r, SyncStatus(r))
    <3>1. pc'[r] = "idle" /\ result'[r] = SyncStatus(r) /\ status'[r] = "OK" /\ seen'[r] = {}
      BY <2>4 DEF JobEnds, TypeOK
    <3>2. SyncStatus(r) = "OK" => Selected(r) \cap (hwRun[r] \cup hwFault[r]) = {}
      BY <1>6, <2>4, SyncEnds DEF Sync
    <3>3. QED
      BY <1>6, <2>1, <3>1, <3>2 DEF Sync, ShownOf, CompleteOf
  <2>5. QED
    BY <1>6, <2>2, <2>3, <2>4 DEF Sync
<1>b. ASSUME Block(r)
      PROVE  ShownOf(r)' /\ CompleteOf(r)'
  <2>1. Selected(r)' = Selected(r) /\ pc'[r] = "wait" /\ pc[r] = "block"
    BY <1>b DEF Block, Selected, TypeOK
  <2>2. QED
    BY <1>b, <2>1 DEF Block, ShownOf, CompleteOf
<1>7. ASSUME WakeUp(r)
      PROVE  ShownOf(r)' /\ CompleteOf(r)'
  <2>1. Selected(r)' = Selected(r) /\ pc'[r] = "sync"
    BY <1>7 DEF WakeUp, Selected, TypeOK
  <2>2. status'[r] = "OK" => seen'[r] = {}
    BY <1>7 DEF WakeUp, CheckFault, TypeOK, ShownOf
  <2>3. QED
    BY <1>7, <2>1, <2>2 DEF WakeUp, ShownOf, CompleteOf
<1>8. ASSUME NEW d \in Dpu, DpuStops(r, d)
      PROVE  ShownOf(r)' /\ CompleteOf(r)'
  <2>1. Selected(r)' = Selected(r)
    BY <1>8 DEF DpuStops, Selected
  <2>2. hwRun'[r] \cup hwFault'[r] \subseteq hwRun[r] \cup hwFault[r]
    BY <1>8 DEF DpuStops, TypeOK
  <2>3. QED
    BY <1>8, <2>1, <2>2 DEF DpuStops, ShownOf, CompleteOf
<1>9. ASSUME NEW q \in Queue, PollRank(q)
      PROVE  SameRank(r) \/ Reads(r)
  <2>1. PICK s \in Rank : UNCHANGED <<running, inFault>> \/ Refresh(s)
    BY <1>9, PollEffect
  <2>2. QED
    BY <1>9, <2>1, RefreshEffect DEF PollRank, SameRank, Reads
<1>10. ASSUME NEW q \in Queue, PollerStep(q) \/ Destroy(q), ~PollRank(q)
      PROVE  SameRank(r)
  BY <1>10 DEF PollerStep, Check, SleepOrScan, PollerWakes, ReadRank, ScanDone, Destroy, SameRank
<1>11. CASE UNCHANGED vars
  BY <1>11, SameKeeps DEF vars, SameRank
<1>12. QED
  BY <1>1, <1>2, <1>3, <1>4, <1>5, <1>6, <1>b, <1>7, <1>8, <1>9, <1>10, <1>11, SameKeeps DEF Next, InJob

-----------------------------------------------------------------------------

(* No rank has been launched yet. *)
LEMMA InitInv == Init => IInv
<1> SUFFICES ASSUME Init PROVE IInv
  OBVIOUS
<1>1. TypeOK
  BY ConstAssumption DEF Init, TypeOK, Status
<1>2. RunContextCounts
  BY FS_EmptySet DEF Init, RunContextCounts
<1>3. ScanInv /\ SleepInv /\ Watched
  BY DEF Init, ScanInv, ScanOf, SleepInv, SleepOf, Watched, WatchedOf
<1>4. Shown /\ LaunchComplete
  BY DEF Init, Shown, ShownOf, LaunchComplete
<1>5. QED
  BY <1>1, <1>2, <1>3, <1>4 DEF IInv

(* Every step preserves the invariant. *)
LEMMA StepInv == IInv /\ [Next]_vars => IInv'
  BY TypeStep, CountStep, ScanStep, WatchStep, ShownStep DEF IInv

(* The strengthened invariant holds in every reachable state. *)
THEOREM Inductive == Spec => []IInv
  BY InitInv, StepInv, PTL DEF Spec

(* The state of the launch and of the polling threads keeps its type; in   *)
(* particular nb_dpu_running never goes below zero.                        *)
THEOREM TypeCorrect == Spec => []TypeOK
<1>1. IInv => TypeOK
  BY DEF IInv
<1>2. QED
  BY <1>1, Inductive, PTL

(* nb_dpu_running counts the bits of dpu_running, whatever DPUs are        *)
(* launched together or alone and whatever fails.                          *)
THEOREM RunContextConsistent == Spec => []RunContextCounts
<1>1. IInv => RunContextCounts
  BY DEF IInv
<1>2. QED
  BY <1>1, Inductive, PTL

(* A launch that returned DPU_OK has left none of its DPUs running or in   *)
(* fault.                                                                  *)
THEOREM LaunchesComplete == Spec => []LaunchComplete
<1>1. IInv => LaunchComplete
  BY DEF IInv
<1>2. QED
  BY <1>1, Inductive, PTL

(* The polling thread never sleeps on a rank whose worker has told it of   *)
(* its launch and waits.                                                   *)
THEOREM PollerNeverAsleep == Spec => []PollerAwake
<1>1. IInv => PollerAwake
  <2> SUFFICES ASSUME IInv, NEW r \in Rank, pc[r] \in {"sync", "block", "wait"}, MustWait(r), pollStatus[r] = "OK"
               PROVE  ppc[QueueOf[r]] # "sleep" \/ woken[QueueOf[r]]
    BY DEF PollerAwake
  <2>1. nb[r] # 0
    <3>1. nb[r] = Cardinality(running[r]) /\ running[r] \in SUBSET Dpu
      BY DEF IInv, RunContextCounts, TypeOK
    <3>2. QED
      BY <3>1, SubsetCount DEF MustWait
  <2>2. WillLook(r) /\ QueueOf[r] \in Queue
    BY <2>1, ConstAssumption DEF IInv, Watched, WatchedOf
  <2>3. QED
    BY <2>2 DEF WillLook, IInv, SleepInv, SleepOf
<1>2. QED
  BY <1>1, Inductive, PTL

-----------------------------------------------------------------------------

(* The worker is about to wait, or waits with no broadcast under way. *)
Waits(r) == pc[r] = "block" \/ (pc[r] = "wait" /\ ~signalled[r])

WaitsInv == \A r \in Rank : Waits(r) => MustWait(r)

(* When whole ranks are launched, a worker that waits without a broadcast  *)
(* under way waits for DPUs that are shown running.                        *)
LEMMA BroadcastStep ==
    ASSUME Targets \subseteq {All}, IInv, WaitsInv, [Next]_vars
    PROVE  WaitsInv'
<1> USE DEF hwVars, contextVars, workerVars, pollerVars
<1> SUFFICES ASSUME NEW r \in Rank, Waits(r)'
             PROVE  MustWait(r)'
  BY DEF WaitsInv
<1>0. TypeOK /\ TypeOK' /\ target[r] = All /\ target'[r] = All
  BY TypeStep DEF IInv, TypeOK
<1>1. CASE UNCHANGED <<pc, signalled, target, status, nb>>
  BY <1>0, <1>1 DEF WaitsInv, Waits, MustWait
<1>2. ASSUME NEW s \in Rank, StartJob(s) \/ Boot(s) \/ StartThread(s) \/ Kick(s) \/ Sync(s) \/ Block(s) \/ WakeUp(s),
             s # r
      PROVE  MustWait(r)'
  <2>1. Waits(r) /\ status'[r] = status[r]
    BY <1>0, <1>2 DEF Waits, TypeOK, StartJob, Boot, StartThread, Kick, Sync, Block, WakeUp, JobEnds
  <2>2. nb'[r] = nb[r]
    BY <1>0, <1>2, RefreshEffect DEF TypeOK, StartJob, Boot, StartThread, Kick, Sync, Block, WakeUp
  <2>3. QED
    BY <1>0, <2>1, <2>2 DEF WaitsInv, MustWait
<1>3. ASSUME StartJob(r) \/ Boot(r) \/ StartThread(r) \/ Kick(r) \/ WakeUp(r)
      PROVE  FALSE
  BY <1>0, <1>3 DEF Waits, TypeOK, StartJob, Boot, StartThread, Kick, WakeUp, JobEnds
<1>4. ASSUME Sync(r)
      PROVE  MustWait(r)'
  BY <1>0, <1>4 DEF Waits, TypeOK, Sync, JobEnds, MustWait
<1>b. ASSUME Block(r)
      PROVE  MustWait(r)'
  BY <1>0, <1>b DEF WaitsInv, Waits, TypeOK, Block, MustWait
<1>5. ASSUME NEW q \in Queue, PollRank(q)
      PROVE  MustWait(r)'
  <2>1. PICK s \in Rank :
             /\ cur[q] = {s}
             /\ \/ UNCHANGED <<contextVars, signalled>>
                \/ /\ ~Locked(s)
                   /\ signalled' = [signalled EXCEPT ![s] = pc[s] = "wait"]
                   /\ UNCHANGED <<running, inFault, nb, oneRunning>>
                \/ /\ ~Locked(s) /\ Refresh(s)
                   /\ signalled' = IF was[q] > nb'[s] THEN [signalled EXCEPT ![s] = pc[s] = "wait"]
                                   ELSE signalled
    BY <1>5, PollEffect DEF IInv
  <2>2. pc'[r] = pc[r] /\ pc[r] \in {"block", "wait"} /\ status'[r] = status[r] /\ status[r] # "ERR"
    BY <1>0, <1>5 DEF Waits, PollRank, IInv, Shown, ShownOf
  <2>3. CASE s # r
    <3>1. nb'[r] = nb[r] /\ Waits(r)
      BY <1>0, <2>1, <2>2, <2>3, RefreshEffect DEF Waits, TypeOK
    <3>2. QED
      BY <1>0, <2>2, <3>1 DEF WaitsInv, MustWait
  <2>4. CASE s = r
    <3>1. \/ UNCHANGED <<contextVars, signalled>>
          \/ Refresh(r) /\ ~(was[q] > nb'[r])
      BY <1>0, <2>1, <2>2, <2>4 DEF Waits, Locked, TypeOK
    <3>2. CASE UNCHANGED <<contextVars, signalled>>
      BY <1>0, <2>2, <3>2 DEF WaitsInv, Waits, MustWait
    <3>3. CASE ~(was[q] > nb'[r])
      <4>1. was[q] \in Nat /\ was[q] # 0 /\ nb'[r] \in Nat
        BY <1>0, <1>5 DEF PollRank, IInv, ScanInv, ScanOf, TypeOK
      <4>2. nb'[r] > 0
        BY <3>3, <4>1
      <4>3. QED
        BY <1>0, <2>2, <4>2 DEF MustWait
    <3>4. QED
      BY <3>1, <3>2, <3>3
  <2>5. QED
    BY <2>3, <2>4
<1>6. ASSUME NEW q \in Queue, PollerStep(q) \/ Destroy(q), ~PollRank(q)
      PROVE  UNCHANGED <<pc, signalled, target, status, nb>>
  BY <1>6 DEF PollerStep, Check, SleepOrScan, PollerWakes, ReadRank, ScanDone, Destroy
<1>7. ASSUME NEW s \in Rank, NEW d \in Dpu, DpuStops(s, d)
      PROVE  UNCHANGED <<pc, signalled, target, status, nb>>
  BY <1>7 DEF DpuStops
<1>8. CASE UNCHANGED vars
  BY <1>1, <1>8 DEF vars
<1>9. QED
  BY <1>1, <1>2, <1>3, <1>4, <1>b, <1>5, <1>6, <1>7, <1>8 DEF Next, InJob

(* An application that launches whole ranks misses no broadcast. *)
THEOREM BroadcastNeverMissed == Targets \subseteq {All} => (Spec => []NoMissedBroadcast)
<1> SUFFICES ASSUME Targets \subseteq {All}
             PROVE  Spec => []NoMissedBroadcast
  OBVIOUS
<1>1. Init => WaitsInv
  BY DEF Init, WaitsInv, Waits
<1>2. IInv /\ WaitsInv /\ [Next]_vars => WaitsInv'
  BY BroadcastStep
<1>3. WaitsInv => NoMissedBroadcast
  BY DEF WaitsInv, Waits, NoMissedBroadcast
<1>4. QED
  BY <1>1, <1>2, <1>3, Inductive, PTL DEF Spec
====
