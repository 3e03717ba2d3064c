--------------------------- MODULE ThreadJobProofs ---------------------------
(***************************************************************************)
(* ThreadJob is type correct, it schedules a rank exactly once, and its    *)
(* syncs and slots are accounted for, for every number of ranks, queues,   *)
(* clients, workers and job slots.                                         *)
(***************************************************************************)
EXTENDS ThreadJob, SequenceTheorems, FiniteSetTheorems, TLAPS

(* The loop index of a client is within its set. *)
IndexOf(c) ==
    /\ pc[c] \in {"get", "addq", "reset"} => at[c] \in 1..Len(set[c])
    /\ pc[c] = "add" => at[c] \in 1..(Len(set[c]) + 1)
    /\ pc[c] = "unget" => at[c] \in 1..errAt[c] /\ errAt[c] \in 1..Len(set[c])
    /\ pc[c] # "idle" => Len(set[c]) > 0

IndexInv == \A c \in Client : IndexOf(c)

(* A client between the two locks of add_jobs owns the jobs_mutex, and the *)
(* FIFO it found empty is still empty; a client that gives its slots back  *)
(* owns the jobs_mutex of the rank it failed on.                           *)
OwnsOf(c) ==
    /\ pc[c] = "addq" => jobsMutex[CurRank(c)] = c /\ jobs[CurRank(c)] = <<>>
    /\ pc[c] = "unget" => jobsMutex[set[c][errAt[c]]] = c

OwnsInv == \A c \in Client : OwnsOf(c)

(* A queue links ranks of its own that have jobs. *)
QueueInv ==
    \A q \in Queue : \A i \in DOMAIN queue[q] :
        QueueOf[queue[q][i]] = q /\ jobs[queue[q][i]] # <<>>

(* A worker that serves a rank has a job to run, unless it has cleared the *)
(* FIFO and still owns the jobs_mutex.                                     *)
ServeOf(w) ==
    /\ wpc[w] = "main" <=> wrank[w] = Nobody
    /\ wpc[w] \in {"clear", "clearNotify"} => jobsMutex[wrank[w]] = w
    /\ wpc[w] \notin {"main", "unlock", "clear"} => jobs[wrank[w]] # <<>>

ServeInv == \A w \in Worker : ServeOf(w)

(* The strengthening that is inductive. *)
IInv ==
    /\ TypeOK
    /\ IndexInv
    /\ OwnsInv
    /\ QueueInv
    /\ ServeInv
    /\ ScheduledOnce
    /\ NoForgottenRank

-----------------------------------------------------------------------------

(* The jobs of a call on a rank are one or two, all of the client. *)
LEMMA JobsOfType ==
    ASSUME TypeOK, NEW c \in Client
    PROVE  JobsOf(c) \in Seq(Job) /\ JobsOf(c) # <<>>
<1>1. [type |-> "async", owner |-> c] \in Job /\ [type |-> "sync", owner |-> c] \in Job
      /\ [type |-> "op", owner |-> c] \in Job
  BY DEF Job, JobType
<1>2. kind[c] \in {"async", "sync", "dpu_sync"}
  BY DEF TypeOK, Kind
<1>3. QED
  BY <1>1, <1>2 DEF JobsOf

(* A function keeps its type when a value of that type is put in it. *)
LEMMA ExceptType ==
    ASSUME NEW S, NEW V, NEW f \in [S -> V], NEW x, NEW v, x \in S => v \in V
    PROVE  [f EXCEPT ![x] = v] \in [S -> V]
OBVIOUS

(* A signal to a sync. *)
LEMMA SignalType ==
    ASSUME signalled \in [Client -> BOOLEAN], NEW c, SignalSync(c)
    PROVE  signalled' \in [Client -> BOOLEAN]
<1>1. (pc[c] = "wait") \in BOOLEAN
  OBVIOUS
<1>2. [signalled EXCEPT ![c] = pc[c] = "wait"] \in [Client -> BOOLEAN]
  BY <1>1, ExceptType
<1>3. signalled' = [signalled EXCEPT ![c] = pc[c] = "wait"] \/ signalled' = signalled
  BY DEF SignalSync
<1> QED
  BY <1>2, <1>3

(* The head and the tail of a sequence that is not empty. *)
LEMMA HeadTailType ==
    ASSUME NEW S, NEW s \in Seq(S), s # <<>>
    PROVE  Head(s) \in S /\ Tail(s) \in Seq(S)
OBVIOUS

(* A released slot leaves the pool and its waiting clients well typed. *)
LEMMA ReleaseType ==
    ASSUME TypeOK, NEW r \in Rank, ReleaseJobSlot(r)
    PROVE  available' \in [Rank -> Nat] /\ slotWait' \in [Rank -> SUBSET Client]
<1>1. available[r] \in Nat /\ slotWait[r] \subseteq Client
  BY DEF TypeOK
<1>2. available' \in [Rank -> Nat]
  BY <1>1, ExceptType DEF TypeOK, ReleaseJobSlot
<1>3. CASE available[r] = 0 /\ slotWait[r] # {}
  <2>1. PICK c \in slotWait[r] : slotWait' = [slotWait EXCEPT ![r] = @ \ {c}]
    BY <1>3 DEF ReleaseJobSlot
  <2>2. slotWait[r] \ {c} \in SUBSET Client
    BY <1>1
  <2>3. QED
    BY <1>2, <2>1, <2>2, ExceptType DEF TypeOK
<1>4. CASE ~(available[r] = 0 /\ slotWait[r] # {})
  BY <1>2, <1>4 DEF ReleaseJobSlot, TypeOK
<1>5. QED
  BY <1>3, <1>4

(* A client in one of its loops names a rank of its set. *)
LEMMA CurRankType ==
    ASSUME IInv, NEW c \in Client,
           \/ pc[c] \in {"get", "unget", "addq", "reset"}
           \/ pc[c] = "add" /\ at[c] <= Len(set[c])
    PROVE  CurRank(c) \in Rank
<1>1. set[c] \in Seq(Rank) /\ at[c] \in Nat /\ errAt[c] \in Nat
  BY DEF IInv, TypeOK
<1>2. at[c] \in 1..Len(set[c])
  BY <1>1 DEF IInv, IndexInv, IndexOf
<1>3. QED
  BY <1>1, <1>2 DEF CurRank

(* A worker out of its main loop has a rank; while it serves it, the FIFO  *)
(* holds a job, unless it has just been cleared.                           *)
LEMMA WorkerRankType ==
    ASSUME IInv, NEW w \in Worker, wpc[w] # "main"
    PROVE  /\ wrank[w] \in Rank
           /\ wpc[w] \notin {"unlock", "clear"} \/ jobs[wrank[w]] # <<>> =>
                 /\ jobs[wrank[w]] # <<>>
                 /\ CurJob(w) \in Job
                 /\ Tail(jobs[wrank[w]]) \in Seq(Job)
<1>1. wrank[w] \in Rank
  BY DEF IInv, TypeOK, ServeInv, ServeOf
<1>2. jobs[wrank[w]] \in Seq(Job)
  BY <1>1 DEF IInv, TypeOK
<1>3. wpc[w] \notin {"unlock", "clear"} => jobs[wrank[w]] # <<>>
  BY DEF IInv, ServeInv, ServeOf
<1>4. QED
  BY <1>1, <1>2, <1>3, HeadTailType DEF CurJob

(* Every step preserves the type invariant. *)
LEMMA TypeStep ==
    ASSUME IInv, [Next]_vars
    PROVE  TypeOK'
<1> TypeOK
  BY DEF IInv
<1>1. ASSUME NEW c \in Client, Call(c)
      PROVE  TypeOK'
  <2>1. PICK k \in CallKinds, s \in DpuSets[c] :
             /\ kind' = [kind EXCEPT ![c] = k]
             /\ set' = [set EXCEPT ![c] = s]
             /\ UNCHANGED syncVars \/ InitSyncJob(c, Len(s))
    BY <1>1 DEF Call
  <2>2. k \in Kind /\ s \in Seq(Rank) /\ Len(s) \in Int
    BY KindsAssumption, DpuSetsAssumption
  <2>3. pc' \in [Client -> ClientPc]
    BY <1>1, <2>1, <2>2, ExceptType DEF TypeOK, Call, InitSyncJob, ClientPc, syncVars
  <2>4. kind' \in [Client -> Kind]
    BY <2>1, <2>2, ExceptType DEF TypeOK, InitSyncJob, syncVars, Kind
  <2>5. set' \in [Client -> Seq(Rank)]
    BY <2>1, <2>2, ExceptType DEF TypeOK, InitSyncJob, syncVars
  <2>6. at' \in [Client -> Nat]
    BY <1>1, <2>1, <2>2, ExceptType DEF TypeOK, Call, InitSyncJob, syncVars
  <2>7. got' \in [Client -> Nat]
    BY <1>1, <2>1, <2>2, ExceptType DEF TypeOK, Call, InitSyncJob, syncVars
  <2>8. left' \in [Client -> Int]
    BY <2>1, <2>2, ExceptType DEF TypeOK, InitSyncJob, syncVars
  <2>9. status' \in [Client -> Status]
    BY <2>1, <2>2, ExceptType DEF TypeOK, InitSyncJob, syncVars, Status
  <2>10. syncMutex' \in [Client -> Thread \cup {Nobody}]
    BY <2>1, <2>2, ExceptType DEF TypeOK, InitSyncJob, syncVars, Thread
  <2>11. signalled' \in [Client -> BOOLEAN]
    BY <2>1, <2>2, ExceptType DEF TypeOK, InitSyncJob, syncVars
  <2> QED
    BY <1>1, <2>1, <2>2, <2>3, <2>4, <2>5, <2>6, <2>7, <2>8, <2>9, <2>10, <2>11
       DEF TypeOK, Call, rankVars, queueVars, clientVars, syncVars, workerVars
<1>2. ASSUME NEW c \in Client, GetJobs(c)
      PROVE  TypeOK'
  <2>1. CurRank(c) \in Rank
    BY <1>2, CurRankType DEF GetJobs
  <2>2. available[CurRank(c)] \in Nat /\ got[c] \in Nat /\ at[c] \in Nat /\ JobsPerRank(c) \in {1, 2}
    BY <2>1 DEF TypeOK, JobsPerRank
  <2>3. available' \in [Rank -> Nat]
    <3>1. /\ available' = [available EXCEPT ![CurRank(c)] = @ - (JobsPerRank(c) - got[c])]
          /\ available[CurRank(c)] >= JobsPerRank(c) - got[c]
      BY <1>2 DEF GetJobs
    <3>2. available[CurRank(c)] - (JobsPerRank(c) - got[c]) \in Nat
      BY <2>2, <3>1
    <3>3. available \in [Rank -> Nat]
      BY DEF TypeOK
    <3>4. QED
      BY <3>1, <3>2, <3>3
  <2>4. got' \in [Client -> Nat]
    BY <1>2, <2>1, <2>2, ExceptType DEF TypeOK, GetJobs, Step
  <2>5. \/ at' = [at EXCEPT ![c] = at[c] + 1] /\ pc' = pc
        \/ at' = [at EXCEPT ![c] = 1] /\ pc' = [pc EXCEPT ![c] = "add"]
    BY <1>2 DEF GetJobs, Step
  <2>6. at' \in [Client -> Nat] /\ pc' \in [Client -> ClientPc]
    <3>1. at \in [Client -> Nat] /\ pc \in [Client -> ClientPc] /\ "add" \in ClientPc
      BY DEF TypeOK, ClientPc
    <3>2. CASE at' = [at EXCEPT ![c] = at[c] + 1] /\ pc' = pc
      BY <3>1, <3>2
    <3>3. CASE at' = [at EXCEPT ![c] = 1] /\ pc' = [pc EXCEPT ![c] = "add"]
      BY <3>1, <3>3
    <3>4. QED
      BY <2>5, <3>2, <3>3
  <2> QED
    BY <1>2, <2>1, <2>2, <2>3, <2>4, <2>5, <2>6
       DEF TypeOK, GetJobs, rankVars, queueVars, clientVars, syncVars, workerVars
<1>3. ASSUME NEW c \in Client, WaitForSlot(c)
      PROVE  TypeOK'
  <2>1. CurRank(c) \in Rank
    BY <1>3, CurRankType DEF WaitForSlot
  <2>2. available[CurRank(c)] \in Nat /\ got[c] \in Nat /\ at[c] \in Nat /\ JobsPerRank(c) \in {1, 2}
    BY <2>1 DEF TypeOK, JobsPerRank
  <2>3. got' \in [Client -> Nat]
    BY <1>3, <2>1, <2>2, ExceptType DEF TypeOK, WaitForSlot
  <2>4. available' \in [Rank -> Nat]
    BY <1>3, <2>1, <2>2, ExceptType DEF TypeOK, WaitForSlot
  <2>5. slotWait' \in [Rank -> SUBSET Client]
    BY <1>3, <2>1, <2>2, ExceptType DEF TypeOK, WaitForSlot
  <2> QED
    BY <1>3, <2>1, <2>2, <2>3, <2>4, <2>5
       DEF TypeOK, WaitForSlot, rankVars, queueVars, clientVars, syncVars, workerVars
<1>4. ASSUME NEW c \in Client, GetJobsFails(c)
      PROVE  TypeOK'
  <2>1. jobsMutex' \in [Rank -> Thread \cup {Nobody}]
    BY <1>4, ExceptType DEF TypeOK, GetJobsFails, Thread
  <2>2. pc' \in [Client -> ClientPc]
    BY <1>4, ExceptType DEF TypeOK, GetJobsFails, ClientPc
  <2>3. errAt' \in [Client -> Nat]
    BY <1>4, ExceptType DEF TypeOK, GetJobsFails
  <2>4. at' \in [Client -> Nat]
    BY <1>4, ExceptType DEF TypeOK, GetJobsFails
  <2> QED
    BY <1>4, <2>1, <2>2, <2>3, <2>4
       DEF TypeOK, GetJobsFails, rankVars, queueVars, clientVars, syncVars, workerVars
<1>5. ASSUME NEW c \in Client, UngetJobs(c)
      PROVE  TypeOK'
  <2>1. CurRank(c) \in Rank
    BY <1>5, CurRankType DEF UngetJobs
  <2>2. available[CurRank(c)] \in Nat /\ got[c] \in Nat /\ at[c] \in Nat /\ JobsPerRank(c) \in {1, 2}
    BY <2>1 DEF TypeOK, JobsPerRank
  <2>3. available' \in [Rank -> Nat]
    BY <1>5, <2>1, <2>2, ExceptType DEF TypeOK, UngetJobs, Step
  <2>4. at' \in [Client -> Nat]
    BY <1>5, <2>1, <2>2, ExceptType DEF TypeOK, UngetJobs, Step
  <2> QED
    BY <1>5, <2>1, <2>2, <2>3, <2>4
       DEF TypeOK, UngetJobs, rankVars, queueVars, clientVars, syncVars, workerVars
<1>6. ASSUME NEW c \in Client, GetJobsReturns(c)
      PROVE  TypeOK'
  <2>1. jobsMutex' \in [Rank -> Thread \cup {Nobody}]
    BY <1>6, ExceptType DEF TypeOK, GetJobsReturns, Return, Thread
  <2>2. pc' \in [Client -> ClientPc]
    BY <1>6, ExceptType DEF TypeOK, GetJobsReturns, Return, ClientPc
  <2>3. at' \in [Client -> Nat]
    BY <1>6, ExceptType DEF TypeOK, GetJobsReturns, Return
  <2>4. got' \in [Client -> Nat]
    BY <1>6, ExceptType DEF TypeOK, GetJobsReturns, Return
  <2>5. errAt' \in [Client -> Nat]
    BY <1>6, ExceptType DEF TypeOK, GetJobsReturns, Return
  <2>6. result' \in [Client -> Result]
    BY <1>6, ExceptType DEF TypeOK, GetJobsReturns, Return, Result, Status
  <2>7. failed' \in [Client -> SUBSET JobType]
    BY <1>6, ExceptType DEF TypeOK, GetJobsReturns, Return, JobType
  <2> QED
    BY <1>6, <2>1, <2>2, <2>3, <2>4, <2>5, <2>6, <2>7
       DEF TypeOK, GetJobsReturns, rankVars, queueVars, clientVars, syncVars,
       workerVars, Return
<1>7. ASSUME NEW c \in Client, AddJobs(c)
      PROVE  TypeOK'
  <2>1. CurRank(c) \in Rank /\ QueueOf[CurRank(c)] \in Queue
    BY <1>7, CurRankType, SetAssumption DEF AddJobs
  <2>2. JobsOf(c) \in Seq(Job) /\ jobs[CurRank(c)] \in Seq(Job) /\ queue[QueueOf[CurRank(c)]] \in Seq(Rank)
    BY <2>1, JobsOfType DEF TypeOK
  <2>3. at[c] \in Nat
    BY DEF TypeOK
  <2>4. jobs' \in [Rank -> Seq(Job)]
    BY <1>7, <2>1, <2>2, <2>3, ExceptType DEF TypeOK, AddJobs, Step
  <2>5. queue' \in [Queue -> Seq(Rank)]
    BY <1>7, <2>1, <2>2, <2>3, ExceptType DEF TypeOK, AddJobs, Step
  <2>6. at' \in [Client -> Nat]
    <3>1. at' = [at EXCEPT ![c] = at[c] + 1]
      BY <1>7 DEF AddJobs, Step
    <3>2. QED
      BY <2>3, <3>1 DEF TypeOK
  <2> QED
    BY <1>7, <2>1, <2>2, <2>3, <2>4, <2>5, <2>6
       DEF TypeOK, AddJobs, rankVars, queueVars, clientVars, syncVars, workerVars
<1>8. ASSUME NEW c \in Client, AddJobsLocksRank(c)
      PROVE  TypeOK'
  <2>1. jobsMutex' \in [Rank -> Thread \cup {Nobody}]
    BY <1>8, ExceptType DEF TypeOK, AddJobsLocksRank, Thread
  <2>2. pc' \in [Client -> ClientPc]
    BY <1>8, ExceptType DEF TypeOK, AddJobsLocksRank, ClientPc
  <2> QED
    BY <1>8, <2>1, <2>2
       DEF TypeOK, AddJobsLocksRank, rankVars, queueVars, clientVars, syncVars,
       workerVars
<1>9. ASSUME NEW c \in Client, AddFirstJobs(c)
      PROVE  TypeOK'
  <2>1. CurRank(c) \in Rank /\ QueueOf[CurRank(c)] \in Queue
    BY <1>9, CurRankType, SetAssumption DEF AddFirstJobs
  <2>2. JobsOf(c) \in Seq(Job) /\ jobs[CurRank(c)] \in Seq(Job) /\ queue[QueueOf[CurRank(c)]] \in Seq(Rank)
    BY <2>1, JobsOfType DEF TypeOK
  <2>3. at[c] \in Nat
    BY DEF TypeOK
  <2>4. queueMutex' \in [Queue -> Client \cup {Nobody}]
    BY <1>9, <2>1, <2>2, <2>3, ExceptType DEF TypeOK, AddFirstJobs, Step
  <2>5. queue' \in [Queue -> Seq(Rank)]
    BY <1>9, <2>1, <2>2, <2>3, ExceptType DEF TypeOK, AddFirstJobs, Step
  <2>6. jobs' \in [Rank -> Seq(Job)]
    BY <1>9, <2>1, <2>2, <2>3, ExceptType DEF TypeOK, AddFirstJobs, Step
  <2>7. jobsMutex' \in [Rank -> Thread \cup {Nobody}]
    BY <1>9, <2>1, <2>2, <2>3, ExceptType DEF TypeOK, AddFirstJobs, Step, Thread
  <2>8. pc' \in [Client -> ClientPc]
    BY <1>9, <2>1, <2>2, <2>3, ExceptType DEF TypeOK, AddFirstJobs, Step, ClientPc
  <2>9. at' \in [Client -> Nat]
    <3>1. at' = [at EXCEPT ![c] = at[c] + 1]
      BY <1>9 DEF AddFirstJobs, Step
    <3>2. QED
      BY <2>3, <3>1 DEF TypeOK
  <2> QED
    BY <1>9, <2>1, <2>2, <2>3, <2>4, <2>5, <2>6, <2>7, <2>8, <2>9
       DEF TypeOK, AddFirstJobs, rankVars, queueVars, clientVars, syncVars, workerVars
<1>10. ASSUME NEW c \in Client, AddJobsDone(c)
      PROVE  TypeOK'
  <2>1. queueMutex' \in [Queue -> Client \cup {Nobody}]
    BY <1>10, ExceptType DEF TypeOK, AddJobsDone, Return, syncVars
  <2>2. pc' \in [Client -> ClientPc]
    BY <1>10, ExceptType DEF TypeOK, AddJobsDone, Return, ClientPc, syncVars
  <2>3. at' \in [Client -> Nat]
    BY <1>10, ExceptType DEF TypeOK, AddJobsDone, Return, syncVars
  <2>4. got' \in [Client -> Nat]
    BY <1>10, ExceptType DEF TypeOK, AddJobsDone, Return, syncVars
  <2>5. errAt' \in [Client -> Nat]
    BY <1>10, ExceptType DEF TypeOK, AddJobsDone, Return, syncVars
  <2>6. result' \in [Client -> Result]
    BY <1>10, ExceptType DEF TypeOK, AddJobsDone, Return, Result, Status, syncVars
  <2>7. failed' \in [Client -> SUBSET JobType]
    BY <1>10, ExceptType DEF TypeOK, AddJobsDone, Return, JobType, syncVars
  <2>8. syncMutex' \in [Client -> Thread \cup {Nobody}]
    BY <1>10, ExceptType DEF TypeOK, AddJobsDone, Return, Thread, syncVars
  <2> QED
    BY <1>10, <2>1, <2>2, <2>3, <2>4, <2>5, <2>6, <2>7, <2>8
       DEF TypeOK, AddJobsDone, rankVars, queueVars, clientVars, syncVars, workerVars,
       Return
<1>11. ASSUME NEW c \in Client, WaitSyncJob(c)
      PROVE  TypeOK'
  <2>1. signalled' \in [Client -> BOOLEAN]
    BY <1>11, ExceptType DEF TypeOK, WaitSyncJob, Return, MustReset, clientVars
  <2>2. syncMutex' \in [Client -> Thread \cup {Nobody}]
    BY <1>11, ExceptType DEF TypeOK, WaitSyncJob, Return, MustReset, Thread, clientVars
  <2>3. pc' \in [Client -> ClientPc]
    <3>1. pc' = pc \/ pc' = [pc EXCEPT ![c] = "idle"] \/ pc' = [pc EXCEPT ![c] = "reset"]
      BY <1>11 DEF WaitSyncJob, Return, clientVars
    <3>2. QED
      BY <3>1 DEF TypeOK, ClientPc
  <2>4. at' \in [Client -> Nat]
    BY <1>11, ExceptType DEF TypeOK, WaitSyncJob, Return, MustReset, clientVars
  <2>5. got' \in [Client -> Nat]
    BY <1>11, ExceptType DEF TypeOK, WaitSyncJob, Return, MustReset, clientVars
  <2>6. errAt' \in [Client -> Nat]
    BY <1>11, ExceptType DEF TypeOK, WaitSyncJob, Return, MustReset, clientVars
  <2>7. result' \in [Client -> Result]
    BY <1>11, ExceptType
       DEF TypeOK, WaitSyncJob, Return, MustReset, Result, Status, clientVars
  <2>8. failed' \in [Client -> SUBSET JobType]
    BY <1>11, ExceptType DEF TypeOK, WaitSyncJob, Return, MustReset, JobType, clientVars
  <2> QED
    BY <1>11, <2>1, <2>2, <2>3, <2>4, <2>5, <2>6, <2>7, <2>8
       DEF TypeOK, WaitSyncJob, rankVars, queueVars, clientVars, syncVars, workerVars,
       Return
<1>12. ASSUME NEW c \in Client, ResetJobError(c)
      PROVE  TypeOK'
  <2>1. at[c] \in Nat
    BY DEF TypeOK
  <2>2. jobError' \in [Rank -> Status]
    BY <1>12, <2>1, ExceptType
       DEF TypeOK, ResetJobError, Return, Step, LastReset, Status
  <2>3. \/ /\ pc' = [pc EXCEPT ![c] = "idle"]
           /\ at' = [at EXCEPT ![c] = 0]
           /\ got' = [got EXCEPT ![c] = 0]
           /\ errAt' = [errAt EXCEPT ![c] = 0]
        \/ at' = [at EXCEPT ![c] = at[c] + 1] /\ UNCHANGED <<pc, got, errAt>>
    BY <1>12 DEF ResetJobError, Return, Step
  <2>4. pc' \in [Client -> ClientPc]
    BY <2>3 DEF TypeOK, ClientPc
  <2>5. at \in [Client -> Nat] /\ got \in [Client -> Nat] /\ errAt \in [Client -> Nat]
    BY DEF TypeOK
  <2>6. at' \in [Client -> Nat] /\ got' \in [Client -> Nat] /\ errAt' \in [Client -> Nat]
    <3>1. CASE at' = [at EXCEPT ![c] = at[c] + 1] /\ UNCHANGED <<pc, got, errAt>>
      BY <2>5, <3>1
    <3>2. CASE /\ at' = [at EXCEPT ![c] = 0]
               /\ got' = [got EXCEPT ![c] = 0]
               /\ errAt' = [errAt EXCEPT ![c] = 0]
      BY <2>5, <3>2
    <3>3. QED
      BY <2>3, <3>1, <3>2
  <2>7. result' \in [Client -> Result]
    BY <1>12, <2>1, ExceptType
       DEF TypeOK, ResetJobError, Return, Step, LastReset, Result, Status
  <2>8. failed' \in [Client -> SUBSET JobType]
    BY <1>12, <2>1, ExceptType
       DEF TypeOK, ResetJobError, Return, Step, LastReset, JobType
  <2> QED
    BY <1>12, <2>1, <2>2, <2>3, <2>4, <2>5, <2>6, <2>7, <2>8
       DEF TypeOK, ResetJobError, rankVars, queueVars, clientVars, syncVars,
       workerVars, Return
<1>13. ASSUME NEW w \in Worker, TakeRank(w)
      PROVE  TypeOK'
  <2>1. WorkerQueue[w] \in Queue
    BY SetAssumption
  <2>2. Head(queue[WorkerQueue[w]]) \in Rank /\ Tail(queue[WorkerQueue[w]]) \in Seq(Rank)
    BY <1>13, <2>1, HeadTailType DEF TypeOK, TakeRank
  <2>3. wrank' \in [Worker -> Rank \cup {Nobody}]
    BY <1>13, <2>1, <2>2, ExceptType DEF TypeOK, TakeRank
  <2>4. queue' \in [Queue -> Seq(Rank)]
    BY <1>13, <2>1, <2>2, ExceptType DEF TypeOK, TakeRank
  <2>5. wpc' \in [Worker -> WorkerPc]
    BY <1>13, <2>1, <2>2, ExceptType DEF TypeOK, TakeRank, WorkerGoes, WorkerPc
  <2> QED
    BY <1>13, <2>1, <2>2, <2>3, <2>4, <2>5
       DEF TypeOK, TakeRank, rankVars, queueVars, clientVars, syncVars, workerVars
<1>14. ASSUME NEW w \in Worker, LockRank(w)
      PROVE  TypeOK'
  <2>1. rankMutex' \in [Rank -> Worker \cup {Nobody}]
    BY <1>14, ExceptType DEF TypeOK, LockRank
  <2>2. wpc' \in [Worker -> WorkerPc]
    BY <1>14, ExceptType DEF TypeOK, LockRank, WorkerGoes, WorkerPc
  <2> QED
    BY <1>14, <2>1, <2>2
       DEF TypeOK, LockRank, rankVars, queueVars, clientVars, syncVars, workerVars
<1>15. ASSUME NEW w \in Worker, ComputeJob(w)
      PROVE  TypeOK'
  <2>1. wpc' \in [Worker -> WorkerPc]
    <3>1. wpc' = [wpc EXCEPT ![w] = "advance"] \/ wpc' = [wpc EXCEPT ![w] = "fail"]
      BY <1>15 DEF ComputeJob, WorkerGoes
    <3>2. QED
      BY <3>1 DEF TypeOK, WorkerPc
  <2> QED
    BY <1>15, <2>1
       DEF TypeOK, ComputeJob, rankVars, queueVars, clientVars, syncVars, workerVars
<1>16. ASSUME NEW w \in Worker, ComputeSyncJob(w)
      PROVE  TypeOK'
  <2>1. wrank[w] \in Rank /\ CurJob(w) \in Job /\ Tail(jobs[wrank[w]]) \in Seq(Job)
    BY <1>16, WorkerRankType DEF ComputeSyncJob
  <2>2. CurJob(w).owner \in Client /\ CurJob(w).type \in JobType
    BY <2>1 DEF Job
  <2>3. left[CurJob(w).owner] \in Int /\ failed[CurJob(w).owner] \in SUBSET JobType
    BY <2>2 DEF TypeOK
  <2>4. left' \in [Client -> Int]
    BY <1>16, <2>1, <2>2, <2>3, ExceptType DEF TypeOK, ComputeSyncJob, DoSyncJob
  <2>5. wpc' \in [Worker -> WorkerPc]
    BY <1>16, <2>1, <2>2, <2>3, ExceptType
       DEF TypeOK, ComputeSyncJob, DoSyncJob, WorkerGoes, WorkerPc
  <2> QED
    BY <1>16, <2>1, <2>2, <2>3, <2>4, <2>5
       DEF TypeOK, ComputeSyncJob, rankVars, queueVars, clientVars, syncVars, workerVars
<1>17. ASSUME NEW w \in Worker, NotifySync(w)
      PROVE  TypeOK'
  <2>1. signalled' \in [Client -> BOOLEAN]
    <3>1. \/ signalled' = signalled
          \/ signalled' = [signalled EXCEPT ![CurJob(w).owner] = pc[CurJob(w).owner] = "wait"]
      BY <1>17 DEF NotifySync, SignalSync
    <3>2. QED
      BY <3>1, ExceptType DEF TypeOK
  <2>2. wpc' \in [Worker -> WorkerPc]
    BY <1>17, ExceptType DEF TypeOK, NotifySync, SignalSync, WorkerGoes, WorkerPc
  <2> QED
    BY <1>17, <2>1, <2>2
       DEF TypeOK, NotifySync, rankVars, queueVars, clientVars, syncVars, workerVars
<1>18. ASSUME NEW w \in Worker, AdvanceToNextJob(w)
      PROVE  TypeOK'
  <2>1. wrank[w] \in Rank /\ CurJob(w) \in Job /\ Tail(jobs[wrank[w]]) \in Seq(Job)
    BY <1>18, WorkerRankType DEF AdvanceToNextJob
  <2>2. jobs' \in [Rank -> Seq(Job)]
    BY <1>18, <2>1, ExceptType DEF TypeOK, AdvanceToNextJob
  <2>3. available' \in [Rank -> Nat]
    BY <1>18, <2>1, ReleaseType DEF AdvanceToNextJob, TypeOK
  <2>4. slotWait' \in [Rank -> SUBSET Client]
    BY <1>18, <2>1, ReleaseType DEF AdvanceToNextJob, TypeOK
  <2>5. wpc' \in [Worker -> WorkerPc]
    BY <1>18, <2>1, ExceptType
       DEF TypeOK, AdvanceToNextJob, ReleaseJobSlot, NextJob, WorkerGoes, WorkerPc
  <2> QED
    BY <1>18, <2>1, <2>2, <2>3, <2>4, <2>5
       DEF TypeOK, AdvanceToNextJob, rankVars, queueVars, clientVars, syncVars,
       workerVars
<1>19. ASSUME NEW w \in Worker, UpdateStatus(w)
      PROVE  TypeOK'
  <2>1. wrank[w] \in Rank /\ CurJob(w) \in Job /\ Tail(jobs[wrank[w]]) \in Seq(Job)
    BY <1>19, WorkerRankType DEF UpdateStatus
  <2>2. CurJob(w).owner \in Client /\ CurJob(w).type \in JobType
    BY <2>1 DEF Job
  <2>3. left[CurJob(w).owner] \in Int /\ failed[CurJob(w).owner] \in SUBSET JobType
    BY <2>2 DEF TypeOK
  <2>4. jobsMutex' \in [Rank -> Thread \cup {Nobody}]
    BY <1>19, <2>1, <2>2, <2>3, ExceptType DEF TypeOK, UpdateStatus, Thread
  <2>5. jobError' \in [Rank -> Status]
    BY <1>19, <2>1, <2>2, <2>3, ExceptType DEF TypeOK, UpdateStatus, Status
  <2>6. failed' \in [Client -> SUBSET JobType]
    BY <1>19, <2>1, <2>2, <2>3, ExceptType DEF UpdateStatus, TypeOK
  <2>7. wpc' \in [Worker -> WorkerPc]
    BY <1>19, <2>1, <2>2, <2>3, ExceptType
       DEF TypeOK, UpdateStatus, WorkerGoes, WorkerPc
  <2> QED
    BY <1>19, <2>1, <2>2, <2>3, <2>4, <2>5, <2>6, <2>7
       DEF TypeOK, UpdateStatus, rankVars, queueVars, clientVars, syncVars, workerVars
<1>20. ASSUME NEW w \in Worker, ClearJob(w)
      PROVE  TypeOK'
  <2>1. wrank[w] \in Rank /\ CurJob(w) \in Job /\ Tail(jobs[wrank[w]]) \in Seq(Job)
    BY <1>20, WorkerRankType DEF ClearJob
  <2>2. jobs' \in [Rank -> Seq(Job)]
    BY <1>20, <2>1, ExceptType DEF TypeOK, ClearJob
  <2>3. available' \in [Rank -> Nat]
    BY <1>20, <2>1, ReleaseType DEF ClearJob, TypeOK
  <2>4. slotWait' \in [Rank -> SUBSET Client]
    BY <1>20, <2>1, ReleaseType DEF ClearJob, TypeOK
  <2> QED
    BY <1>20, <2>1, <2>2, <2>3, <2>4
       DEF TypeOK, ClearJob, rankVars, queueVars, clientVars, syncVars, workerVars
<1>21. ASSUME NEW w \in Worker, ClearSyncJob(w)
      PROVE  TypeOK'
  <2>1. wrank[w] \in Rank /\ CurJob(w) \in Job /\ Tail(jobs[wrank[w]]) \in Seq(Job)
    BY <1>21, WorkerRankType DEF ClearSyncJob
  <2>2. CurJob(w).owner \in Client /\ CurJob(w).type \in JobType
    BY <2>1 DEF Job
  <2>3. left[CurJob(w).owner] \in Int /\ failed[CurJob(w).owner] \in SUBSET JobType
    BY <2>2 DEF TypeOK
  <2>4. status' \in [Client -> Status]
    BY <1>21, <2>1, <2>2, <2>3, ExceptType
       DEF TypeOK, ClearSyncJob, ReleaseJobSlot, DoSyncJob, FailSync, Status
  <2>5. left' \in [Client -> Int]
    BY <1>21, <2>1, <2>2, <2>3, ExceptType
       DEF TypeOK, ClearSyncJob, ReleaseJobSlot, DoSyncJob, FailSync
  <2>6. wpc' \in [Worker -> WorkerPc]
    BY <1>21, <2>1, <2>2, <2>3, ExceptType
       DEF TypeOK, ClearSyncJob, ReleaseJobSlot, DoSyncJob, FailSync, WorkerGoes,
       WorkerPc
  <2>7. jobs' \in [Rank -> Seq(Job)]
    BY <1>21, <2>1, <2>2, <2>3, ExceptType DEF TypeOK, ClearSyncJob
  <2>8. available' \in [Rank -> Nat]
    BY <1>21, <2>1, <2>2, <2>3, ReleaseType DEF ClearSyncJob, TypeOK
  <2>9. slotWait' \in [Rank -> SUBSET Client]
    BY <1>21, <2>1, <2>2, <2>3, ReleaseType DEF ClearSyncJob, TypeOK
  <2> QED
    BY <1>21, <2>1, <2>2, <2>3, <2>4, <2>5, <2>6, <2>7, <2>8, <2>9
       DEF TypeOK, ClearSyncJob, rankVars, queueVars, clientVars, syncVars, workerVars
<1>22. ASSUME NEW w \in Worker, ClearNotifySync(w)
      PROVE  TypeOK'
  <2>1. wrank[w] \in Rank /\ CurJob(w) \in Job /\ Tail(jobs[wrank[w]]) \in Seq(Job)
    BY <1>22, WorkerRankType DEF ClearNotifySync
  <2>2. signalled' \in [Client -> BOOLEAN]
    <3>1. signalled \in [Client -> BOOLEAN]
      BY DEF TypeOK
    <3>2. SignalSync(CurJob(w).owner)
      BY <1>22 DEF ClearNotifySync
    <3> QED
      BY <3>1, <3>2, SignalType
  <2>3. jobs' \in [Rank -> Seq(Job)]
    BY <1>22, <2>1, ExceptType DEF TypeOK, ClearNotifySync
  <2>4. available' \in [Rank -> Nat]
    BY <1>22, <2>1, ReleaseType DEF ClearNotifySync, TypeOK
  <2>5. slotWait' \in [Rank -> SUBSET Client]
    BY <1>22, <2>1, ReleaseType DEF ClearNotifySync, TypeOK
  <2>6. wpc' \in [Worker -> WorkerPc]
    BY <1>22, <2>1, ExceptType
       DEF TypeOK, ClearNotifySync, ReleaseJobSlot, SignalSync, WorkerGoes, WorkerPc
  <2> QED
    BY <1>22, <2>1, <2>2, <2>3, <2>4, <2>5, <2>6
       DEF TypeOK, ClearNotifySync, rankVars, queueVars, clientVars, syncVars,
       workerVars
<1>23. ASSUME NEW w \in Worker, ClearDone(w)
      PROVE  TypeOK'
  <2>1. jobsMutex' \in [Rank -> Thread \cup {Nobody}]
    BY <1>23, ExceptType DEF TypeOK, ClearDone, Thread
  <2>2. wpc' \in [Worker -> WorkerPc]
    BY <1>23, ExceptType DEF TypeOK, ClearDone, WorkerGoes, WorkerPc
  <2> QED
    BY <1>23, <2>1, <2>2
       DEF TypeOK, ClearDone, rankVars, queueVars, clientVars, syncVars, workerVars
<1>24. ASSUME NEW w \in Worker, UnlockRank(w)
      PROVE  TypeOK'
  <2>1. rankMutex' \in [Rank -> Worker \cup {Nobody}]
    BY <1>24, ExceptType DEF TypeOK, UnlockRank
  <2>2. wrank' \in [Worker -> Rank \cup {Nobody}]
    BY <1>24, ExceptType DEF TypeOK, UnlockRank
  <2>3. wpc' \in [Worker -> WorkerPc]
    BY <1>24, ExceptType DEF TypeOK, UnlockRank, WorkerGoes, WorkerPc
  <2> QED
    BY <1>24, <2>1, <2>2, <2>3
       DEF TypeOK, UnlockRank, rankVars, queueVars, clientVars, syncVars, workerVars
<1>25. CASE UNCHANGED vars
  BY <1>25 DEF TypeOK, vars, rankVars, queueVars, clientVars, syncVars, workerVars
<1>26. ASSUME NEW c \in Client, WakeForNoSlot(c)
      PROVE  TypeOK'
  <2>1. slotWait' \in [Rank -> SUBSET Client]
    BY <1>26, CurRankType, ExceptType DEF TypeOK, WakeForNoSlot
  <2> QED
    BY <1>26, <2>1
       DEF TypeOK, WakeForNoSlot, rankVars, queueVars, clientVars, syncVars, workerVars
<1>27. QED
  BY <1>1, <1>2, <1>3, <1>4, <1>5, <1>6, <1>7, <1>8, <1>9, <1>10, <1>11, <1>12, <1>13,
     <1>14, <1>15, <1>16, <1>17, <1>18, <1>19, <1>20, <1>21, <1>22, <1>23, <1>24, <1>25, <1>26
     DEF Next, InCall, WorkerStep

-----------------------------------------------------------------------------

(* The loops of a client are its own. *)
SameClient(d) ==
    pc'[d] = pc[d] /\ at'[d] = at[d] /\ set'[d] = set[d] /\ errAt'[d] = errAt[d]

(* A step of a client keeps its index within its set, and leaves the loops *)
(* of the other clients alone.                                             *)
LEMMA ClientIndex ==
    ASSUME IInv, NEW c \in Client, Call(c) \/ InCall(c)
    PROVE  IndexOf(c)' /\ \A d \in Client \ {c} : SameClient(d)
<1>1. pc \in [Client -> ClientPc] /\ at \in [Client -> Nat]
  BY DEF IInv, TypeOK
<1>2. set \in [Client -> Seq(Rank)] /\ errAt \in [Client -> Nat]
  BY DEF IInv, TypeOK
<1>3. at[c] \in Nat /\ errAt[c] \in Nat /\ Len(set[c]) \in Nat
  BY <1>1, <1>2
<1>4. IndexOf(c)
  BY DEF IInv, IndexInv
<1>5. CASE Call(c)
  <2>1. PICK k \in CallKinds, s \in DpuSets[c] : set' = [set EXCEPT ![c] = s]
    BY <1>5 DEF Call
  <2>2. s \in Seq(Rank) /\ Len(s) > 0 /\ Len(s) \in Nat
    BY DpuSetsAssumption
  <2>3. /\ pc' = [pc EXCEPT ![c] = "get"] /\ at' = [at EXCEPT ![c] = 1]
        /\ errAt' = errAt
    BY <1>5 DEF Call
  <2>4. QED
    BY <1>1, <1>2, <2>1, <2>2, <2>3 DEF IndexOf, SameClient
<1>6. CASE GetJobs(c)
  <2>1. set' = set /\ errAt' = errAt /\ pc[c] = "get"
    BY <1>6 DEF GetJobs
  <2>2. CASE at[c] < Len(set[c])
    <3>1. at' = [at EXCEPT ![c] = at[c] + 1] /\ pc' = pc
      BY <1>6, <2>2 DEF GetJobs, Step
    <3>2. QED
      BY <1>1, <1>3, <1>4, <2>1, <2>2, <3>1 DEF IndexOf, SameClient
  <2>3. CASE ~(at[c] < Len(set[c]))
    <3>1. at' = [at EXCEPT ![c] = 1] /\ pc' = [pc EXCEPT ![c] = "add"]
      BY <1>6, <2>3 DEF GetJobs
    <3>2. QED
      BY <1>1, <1>3, <1>4, <2>1, <3>1 DEF IndexOf, SameClient
  <2>4. QED
    BY <2>2, <2>3
<1>7. CASE WaitForSlot(c)
  <2>1. UNCHANGED <<pc, at, set, errAt>>
    BY <1>7 DEF WaitForSlot
  <2>2. QED
    BY <1>4, <2>1 DEF IndexOf, SameClient
<1>8. CASE GetJobsFails(c)
  <2>1. /\ pc[c] = "get" /\ pc' = [pc EXCEPT ![c] = "unget"] /\ set' = set
        /\ errAt' = [errAt EXCEPT ![c] = at[c]] /\ at' = [at EXCEPT ![c] = 1]
    BY <1>8 DEF GetJobsFails
  <2>2. QED
    BY <1>1, <1>2, <1>3, <1>4, <2>1 DEF IndexOf, SameClient
<1>9. CASE UngetJobs(c)
  <2>1. /\ pc[c] = "unget" /\ at[c] < errAt[c] /\ UNCHANGED <<pc, set, errAt>>
        /\ at' = [at EXCEPT ![c] = at[c] + 1]
    BY <1>9 DEF UngetJobs, Step
  <2>2. QED
    BY <1>1, <1>3, <1>4, <2>1 DEF IndexOf, SameClient
<1>10. CASE GetJobsReturns(c)
  <2>1. /\ pc' = [pc EXCEPT ![c] = "idle"] /\ set' = set
        /\ errAt' = [errAt EXCEPT ![c] = 0] /\ at' = [at EXCEPT ![c] = 0]
    BY <1>10 DEF GetJobsReturns, Return
  <2>2. QED
    BY <1>1, <1>2, <2>1 DEF IndexOf, SameClient
<1>11. CASE AddJobs(c)
  <2>1. /\ pc[c] = "add" /\ at[c] <= Len(set[c]) /\ UNCHANGED <<pc, set, errAt>>
        /\ at' = [at EXCEPT ![c] = at[c] + 1]
    BY <1>11 DEF AddJobs, Step
  <2>2. QED
    BY <1>1, <1>3, <1>4, <2>1 DEF IndexOf, SameClient
<1>12. CASE AddJobsLocksRank(c)
  <2>1. /\ pc[c] = "add" /\ at[c] <= Len(set[c]) /\ UNCHANGED <<at, set, errAt>>
        /\ pc' = [pc EXCEPT ![c] = "addq"]
    BY <1>12 DEF AddJobsLocksRank
  <2>2. QED
    BY <1>1, <1>3, <1>4, <2>1 DEF IndexOf, SameClient
<1>13. CASE AddFirstJobs(c)
  <2>1. /\ pc[c] = "addq" /\ UNCHANGED <<set, errAt>>
        /\ pc' = [pc EXCEPT ![c] = "add"] /\ at' = [at EXCEPT ![c] = at[c] + 1]
    BY <1>13 DEF AddFirstJobs, Step
  <2>2. QED
    BY <1>1, <1>3, <1>4, <2>1 DEF IndexOf, SameClient
<1>14. CASE AddJobsDone(c)
  <2>1. CASE kind[c] = "async"
    <3>1. /\ pc' = [pc EXCEPT ![c] = "idle"] /\ set' = set
          /\ errAt' = [errAt EXCEPT ![c] = 0] /\ at' = [at EXCEPT ![c] = 0]
      BY <1>14, <2>1 DEF AddJobsDone, Return
    <3>2. QED
      BY <1>1, <1>2, <3>1 DEF IndexOf, SameClient
  <2>2. CASE kind[c] # "async"
    <3>1. /\ pc[c] = "add" /\ pc' = [pc EXCEPT ![c] = "wait"] /\ UNCHANGED <<at, set, errAt>>
      BY <1>14, <2>2 DEF AddJobsDone
    <3>2. QED
      BY <1>1, <1>4, <3>1 DEF IndexOf, SameClient
  <2>3. QED
    BY <2>1, <2>2
<1>15. CASE WaitSyncJob(c)
  <2>1. pc[c] = "wait" /\ set' = set
    BY <1>15 DEF WaitSyncJob, Return, clientVars
  <2>2. \/ UNCHANGED <<pc, at, errAt>>
        \/ /\ pc' = [pc EXCEPT ![c] = "idle"] /\ at' = [at EXCEPT ![c] = 0]
           /\ errAt' = [errAt EXCEPT ![c] = 0]
        \/ pc' = [pc EXCEPT ![c] = "reset"] /\ at' = [at EXCEPT ![c] = 1] /\ errAt' = errAt
    BY <1>15 DEF WaitSyncJob, Return, clientVars
  <2>3. CASE UNCHANGED <<pc, at, errAt>>
    BY <1>4, <2>1, <2>3 DEF IndexOf, SameClient
  <2>4. CASE /\ pc' = [pc EXCEPT ![c] = "idle"] /\ at' = [at EXCEPT ![c] = 0]
             /\ errAt' = [errAt EXCEPT ![c] = 0]
    BY <1>1, <1>2, <2>1, <2>4 DEF IndexOf, SameClient
  <2>5. CASE pc' = [pc EXCEPT ![c] = "reset"] /\ at' = [at EXCEPT ![c] = 1] /\ errAt' = errAt
    BY <1>1, <1>3, <1>4, <2>1, <2>5 DEF IndexOf, SameClient
  <2>6. QED
    BY <2>2, <2>3, <2>4, <2>5
<1>16. CASE ResetJobError(c)
  <2>1. pc[c] = "reset" /\ set' = set
    BY <1>16 DEF ResetJobError, Return
  <2>2. CASE LastReset(c)
    <3>1. /\ pc' = [pc EXCEPT ![c] = "idle"] /\ at' = [at EXCEPT ![c] = 0]
          /\ errAt' = [errAt EXCEPT ![c] = 0]
      BY <1>16, <2>2 DEF ResetJobError, Return
    <3>2. QED
      BY <1>1, <1>2, <2>1, <3>1 DEF IndexOf, SameClient
  <2>3. CASE ~LastReset(c)
    <3>1. at' = [at EXCEPT ![c] = at[c] + 1] /\ UNCHANGED <<pc, errAt>>
      BY <1>16, <2>3 DEF ResetJobError, Step
    <3>2. QED
      BY <1>1, <1>3, <1>4, <2>1, <2>3, <3>1 DEF IndexOf, SameClient, LastReset
  <2>4. QED
    BY <2>2, <2>3
<1>17. QED
  BY <1>5, <1>6, <1>7, <1>8, <1>9, <1>10, <1>11, <1>12, <1>13, <1>14, <1>15, <1>16
     DEF InCall

-----------------------------------------------------------------------------
(***************************************************************************)
(* What a step does to the FIFOs, their mutexes, the queues and the        *)
(* workers, as far as the invariant is concerned.                          *)
(***************************************************************************)

(* Thread t changes a FIFO or its mutex only where the mutex is free or    *)
(* its own.                                                                *)
Guarded(t) ==
    \A r \in Rank : jobsMutex[r] \in {Nobody, t}
                    \/ (jobs'[r] = jobs[r] /\ jobsMutex'[r] = jobsMutex[r])

(* A client either links no rank and leaves empty the FIFOs that are, or   *)
(* links the one rank whose empty FIFO it fills.                           *)
LinksNone ==
    queue' = queue /\ \A r \in Rank : jobs'[r] = <<>> <=> jobs[r] = <<>>

Links(r) ==
    /\ jobs[r] = <<>> /\ jobs'[r] # <<>>
    /\ \A s \in Rank \ {r} : jobs'[s] = jobs[s]
    /\ queue' = [queue EXCEPT ![QueueOf[r]] = Append(queue[QueueOf[r]], r)]

(* A step of a client. *)
LEMMA ClientEffect ==
    ASSUME IInv, NEW c \in Client, Call(c) \/ InCall(c)
    PROVE  /\ UNCHANGED workerVars
           /\ OwnsOf(c)'
           /\ Guarded(c)
           /\ LinksNone \/ \E r \in Rank : Links(r)
<1>1. /\ pc \in [Client -> ClientPc] /\ jobs \in [Rank -> Seq(Job)]
      /\ jobsMutex \in [Rank -> Thread \cup {Nobody}]
  BY DEF IInv, TypeOK
<1>2. OwnsOf(c)
  BY DEF IInv, OwnsInv
<1>3. ASSUME UNCHANGED <<jobs, queue>>
      PROVE  LinksNone
  BY <1>3 DEF LinksNone
<1>4. ASSUME UNCHANGED <<jobs, jobsMutex>>
      PROVE  Guarded(c)
  BY <1>4 DEF Guarded
<1>5. ASSUME pc'[c] \notin {"addq", "unget"}
      PROVE  OwnsOf(c)'
  BY <1>5 DEF OwnsOf
<1>6. JobsOf(c) \in Seq(Job) /\ JobsOf(c) # <<>>
  BY JobsOfType DEF IInv
<1>7. CASE Call(c)
  <2>1. pc'[c] \notin {"addq", "unget"} /\ UNCHANGED <<jobs, jobsMutex, queue, workerVars>>
    BY <1>1, <1>7 DEF Call, rankVars, queueVars
  <2>2. QED
    BY <2>1, <1>3, <1>4, <1>5
<1>8. CASE GetJobs(c)
  <2>1. pc'[c] \notin {"addq", "unget"}
    <3>1. pc[c] = "get" /\ (pc' = pc \/ pc' = [pc EXCEPT ![c] = "add"])
      BY <1>8 DEF GetJobs
    <3>2. QED
      BY <1>1, <3>1
  <2>2. UNCHANGED <<jobs, jobsMutex, queue, workerVars>>
    BY <1>8 DEF GetJobs, queueVars
  <2>3. QED
    BY <2>1, <2>2, <1>3, <1>4, <1>5
<1>9. CASE WaitForSlot(c)
  <2>1. pc'[c] \notin {"addq", "unget"} /\ UNCHANGED <<jobs, jobsMutex, queue, workerVars>>
    BY <1>9 DEF WaitForSlot, queueVars
  <2>2. QED
    BY <2>1, <1>3, <1>4, <1>5
<1>10. CASE GetJobsFails(c)
  <2>1. CurRank(c) \in Rank
    BY <1>10, CurRankType DEF GetJobsFails
  <2>2. UNCHANGED <<jobs, queue, set, workerVars>> /\ pc' = [pc EXCEPT ![c] = "unget"]
    BY <1>10 DEF GetJobsFails, queueVars
  <2>3. jobsMutex[CurRank(c)] = Nobody /\ jobsMutex' = [jobsMutex EXCEPT ![CurRank(c)] = c]
    BY <1>10 DEF GetJobsFails
  <2>4. errAt'[c] = at[c]
    BY <1>10 DEF GetJobsFails, IInv, TypeOK
  <2>5. OwnsOf(c)'
    BY <1>1, <2>1, <2>2, <2>3, <2>4 DEF OwnsOf, CurRank
  <2>6. Guarded(c)
    BY <1>1, <2>2, <2>3 DEF Guarded
  <2>7. QED
    BY <2>2, <2>5, <2>6, <1>3
<1>11. CASE UngetJobs(c)
  <2>1. pc[c] = "unget" /\ UNCHANGED <<pc, set, errAt, jobs, jobsMutex, queue, workerVars>>
    BY <1>11 DEF UngetJobs, queueVars
  <2>2. OwnsOf(c)'
    BY <1>2, <2>1 DEF OwnsOf
  <2>3. QED
    BY <2>1, <2>2, <1>3, <1>4
<1>12. CASE GetJobsReturns(c)
  <2>1. pc'[c] \notin {"addq", "unget"} /\ UNCHANGED <<jobs, queue, workerVars>>
    BY <1>1, <1>12 DEF GetJobsReturns, Return, queueVars
  <2>2. jobsMutex[CurRank(c)] = c
    BY <1>2, <1>12 DEF GetJobsReturns, OwnsOf, CurRank
  <2>3. jobsMutex' = [jobsMutex EXCEPT ![CurRank(c)] = Nobody]
    BY <1>12 DEF GetJobsReturns
  <2>4. Guarded(c)
    BY <1>1, <2>1, <2>2, <2>3 DEF Guarded
  <2>5. QED
    BY <2>1, <2>4, <1>3, <1>5
<1>13. CASE AddJobs(c)
  <2>1. pc'[c] \notin {"addq", "unget"} /\ UNCHANGED <<jobsMutex, workerVars>>
    BY <1>13 DEF AddJobs
  <2>2. CurRank(c) \in Rank
    BY <1>13, CurRankType DEF AddJobs
  <2>3. jobs' = [jobs EXCEPT ![CurRank(c)] = jobs[CurRank(c)] \o JobsOf(c)]
    BY <1>13 DEF AddJobs
  <2>4. jobs'[CurRank(c)] # <<>>
    BY <1>1, <1>6, <2>2, <2>3
  <2>5. Guarded(c)
    BY <1>1, <1>13, <2>1, <2>3 DEF Guarded, AddJobs
  <2>6. CASE MustLink(CurRank(c))
    <3>1. queue' = [queue EXCEPT ![QueueOf[CurRank(c)]] =
                                 Append(queue[QueueOf[CurRank(c)]], CurRank(c))]
      BY <1>13, <2>6 DEF AddJobs
    <3>2. Links(CurRank(c))
      BY <1>1, <2>2, <2>3, <2>4, <2>6, <3>1 DEF Links, MustLink
    <3>3. QED
      BY <2>1, <2>2, <2>5, <3>2, <1>5
  <2>7. CASE ~MustLink(CurRank(c))
    <3>1. queue' = queue
      BY <1>13, <2>7 DEF AddJobs
    <3>2. LinksNone
      BY <1>1, <2>2, <2>3, <2>4, <2>7, <3>1 DEF LinksNone, MustLink
    <3>3. QED
      BY <2>1, <2>5, <3>2, <1>5
  <2>8. QED
    BY <2>6, <2>7
<1>14. CASE AddJobsLocksRank(c)
  <2>1. CurRank(c) \in Rank
    BY <1>14, CurRankType DEF AddJobsLocksRank
  <2>2. /\ UNCHANGED <<jobs, queue, set, at, workerVars>>
        /\ pc' = [pc EXCEPT ![c] = "addq"]
        /\ jobs[CurRank(c)] = <<>>
    BY <1>14 DEF AddJobsLocksRank, MustLink, queueVars
  <2>3. jobsMutex[CurRank(c)] = Nobody /\ jobsMutex' = [jobsMutex EXCEPT ![CurRank(c)] = c]
    BY <1>14 DEF AddJobsLocksRank
  <2>4. OwnsOf(c)'
    BY <1>1, <2>1, <2>2, <2>3 DEF OwnsOf, CurRank
  <2>5. Guarded(c)
    BY <1>1, <2>2, <2>3 DEF Guarded
  <2>6. QED
    BY <2>2, <2>4, <2>5, <1>3
<1>15. CASE AddFirstJobs(c)
  <2>1. pc'[c] \notin {"addq", "unget"} /\ UNCHANGED workerVars
    BY <1>1, <1>15 DEF AddFirstJobs
  <2>2. CurRank(c) \in Rank
    BY <1>15, CurRankType DEF AddFirstJobs
  <2>3. /\ jobs' = [jobs EXCEPT ![CurRank(c)] = jobs[CurRank(c)] \o JobsOf(c)]
        /\ jobsMutex' = [jobsMutex EXCEPT ![CurRank(c)] = Nobody]
        /\ queue' = [queue EXCEPT ![QueueOf[CurRank(c)]] =
                                  Append(queue[QueueOf[CurRank(c)]], CurRank(c))]
    BY <1>15 DEF AddFirstJobs
  <2>4. jobsMutex[CurRank(c)] = c /\ jobs[CurRank(c)] = <<>>
    BY <1>2, <1>15 DEF AddFirstJobs, OwnsOf
  <2>5. jobs'[CurRank(c)] # <<>>
    BY <1>1, <1>6, <2>2, <2>3
  <2>6. Guarded(c)
    BY <1>1, <2>3, <2>4 DEF Guarded
  <2>7. Links(CurRank(c))
    BY <1>1, <2>2, <2>3, <2>4, <2>5 DEF Links
  <2>8. QED
    BY <2>1, <2>2, <2>6, <2>7, <1>5
<1>16. CASE AddJobsDone(c)
  <2>1. pc'[c] \notin {"addq", "unget"} /\ UNCHANGED <<jobs, jobsMutex, queue, workerVars>>
    BY <1>1, <1>16 DEF AddJobsDone, Return, rankVars
  <2>2. QED
    BY <2>1, <1>3, <1>4, <1>5
<1>17. CASE WaitSyncJob(c)
  <2>1. UNCHANGED <<jobs, jobsMutex, queue, workerVars>>
    BY <1>17 DEF WaitSyncJob, rankVars, queueVars
  <2>2. pc[c] = "wait" /\ (pc' = pc \/ \E x \in {"idle", "reset"} : pc' = [pc EXCEPT ![c] = x])
    BY <1>17 DEF WaitSyncJob, Return, clientVars
  <2>3. pc'[c] \notin {"addq", "unget"}
    BY <1>1, <2>2
  <2>4. QED
    BY <2>1, <2>3, <1>3, <1>4, <1>5
<1>18. CASE ResetJobError(c)
  <2>1. UNCHANGED <<jobs, jobsMutex, queue, workerVars>>
    BY <1>18 DEF ResetJobError, queueVars
  <2>2. pc[c] = "reset" /\ (pc' = pc \/ pc' = [pc EXCEPT ![c] = "idle"])
    BY <1>18 DEF ResetJobError, Return
  <2>3. pc'[c] \notin {"addq", "unget"}
    BY <1>1, <2>2
  <2>4. QED
    BY <2>1, <2>3, <1>3, <1>4, <1>5
<1>19. QED
  BY <1>7, <1>8, <1>9, <1>10, <1>11, <1>12, <1>13, <1>14, <1>15, <1>16, <1>17, <1>18
     DEF InCall

(* A worker takes a rank, runs its FIFO without taking another, or leaves  *)
(* it.  It leaves only a rank whose FIFO is empty.                         *)
Takes(w) ==
    /\ wpc[w] = "main" /\ queue[WorkerQueue[w]] # <<>>
    /\ wrank' = [wrank EXCEPT ![w] = Head(queue[WorkerQueue[w]])]
    /\ queue' = [queue EXCEPT ![WorkerQueue[w]] = Tail(queue[WorkerQueue[w]])]
    /\ wpc' = [wpc EXCEPT ![w] = "lock"]
    /\ UNCHANGED <<jobs, jobsMutex>>

Runs(w) ==
    /\ wpc[w] \notin {"main", "unlock"}
    /\ \E x \in WorkerPc : wpc' = [wpc EXCEPT ![w] = x]
    /\ UNCHANGED <<queue, wrank>>
    /\ \A r \in Rank \ {wrank[w]} : jobs'[r] = jobs[r]
    /\ wpc'[w] = "unlock" => jobs'[wrank[w]] = <<>>
    /\ ServeOf(w)'

Leaves(w) ==
    /\ wpc[w] = "unlock"
    /\ wpc' = [wpc EXCEPT ![w] = "main"]
    /\ wrank' = [wrank EXCEPT ![w] = Nobody]
    /\ UNCHANGED <<jobs, jobsMutex, queue>>

(* Nothing is left of a sequence of one element without its head. *)
LEMMA TailEmpty ==
    ASSUME NEW S, NEW s \in Seq(S), s # <<>>
    PROVE  Tail(s) = <<>> <=> Len(s) = 1
<1>1. Tail(s) \in Seq(S) /\ Len(Tail(s)) = Len(s) - 1 /\ Len(s) \in Nat
  BY HeadTailProperties, LenProperties
<1>2. Tail(s) = <<>> <=> Len(Tail(s)) = 0
  BY <1>1, EmptySeq
<1>3. QED
  BY <1>1, <1>2

(* A step of a worker. *)
LEMMA WorkerEffect ==
    ASSUME IInv, NEW w \in Worker, WorkerStep(w)
    PROVE  /\ UNCHANGED <<pc, at, set, errAt>>
           /\ Guarded(w)
           /\ Takes(w) \/ Runs(w) \/ Leaves(w)
<1>1. /\ wpc \in [Worker -> WorkerPc] /\ jobs \in [Rank -> Seq(Job)]
      /\ jobsMutex \in [Rank -> Thread \cup {Nobody}]
  BY DEF IInv, TypeOK
<1>2. UNCHANGED <<pc, at, set, errAt>>
  BY DEF WorkerStep, TakeRank, LockRank, ComputeJob, ComputeSyncJob, NotifySync,
         AdvanceToNextJob, UpdateStatus, ClearJob, ClearSyncJob, ClearNotifySync,
         ClearDone, UnlockRank, clientVars
<1>3. ServeOf(w) /\ w # Nobody /\ w \in Thread
  BY SetAssumption DEF IInv, ServeInv, Thread
<1>4. ASSUME UNCHANGED <<jobs, jobsMutex>>
      PROVE  Guarded(w)
  BY <1>4 DEF Guarded
<1>5. ASSUME wpc[w] # "main"
      PROVE  wrank[w] \in Rank /\ wrank[w] # Nobody
  BY <1>5, WorkerRankType, SetAssumption
\* A worker moves on and leaves the FIFO and its mutex alone.
<1>6. ASSUME NEW x \in WorkerPc \ {"main", "unlock", "clear", "clearNotify"},
             wpc[w] \notin {"main", "unlock", "clear", "clearNotify"},
             wpc' = [wpc EXCEPT ![w] = x],
             UNCHANGED <<jobs, jobsMutex, queue, wrank>>
      PROVE  Guarded(w) /\ Runs(w)
  BY <1>1, <1>3, <1>4, <1>5, <1>6 DEF Runs, ServeOf
\* It takes a job out of a FIFO whose mutex is free or its own.
<1>7. ASSUME NEW x \in WorkerPc \ {"main"},
             wpc[w] \notin {"main", "unlock"},
             jobsMutex[wrank[w]] \in {Nobody, w},
             jobs[wrank[w]] # <<>>,
             jobs' = [jobs EXCEPT ![wrank[w]] = Tail(jobs[wrank[w]])],
             wpc' = [wpc EXCEPT ![w] = x],
             UNCHANGED <<jobsMutex, queue, wrank>>,
             x \in {"clear", "clearNotify"} => jobsMutex[wrank[w]] = w,
             x = "unlock" => Tail(jobs[wrank[w]]) = <<>>,
             x \notin {"unlock", "clear"} => Tail(jobs[wrank[w]]) # <<>>
      PROVE  Guarded(w) /\ Runs(w)
  <2>1. wrank[w] \in Rank /\ wrank[w] # Nobody
    BY <1>5, <1>7
  <2>2. jobs'[wrank[w]] = Tail(jobs[wrank[w]]) /\ wpc'[w] = x
    BY <1>1, <1>7, <2>1
  <2>3. Guarded(w)
    BY <1>1, <1>7 DEF Guarded
  <2>4. ServeOf(w)'
    BY <1>7, <2>1, <2>2 DEF ServeOf
  <2>5. QED
    BY <1>1, <1>7, <2>2, <2>3, <2>4 DEF Runs
<1>8. CASE TakeRank(w)
  <2>1. Takes(w) /\ UNCHANGED <<jobs, jobsMutex>>
    BY <1>8 DEF TakeRank, Takes, WorkerGoes, rankVars
  <2>2. QED
    BY <1>2, <1>4, <2>1
<1>9. CASE LockRank(w)
  <2>1. /\ wpc[w] = "lock" /\ wpc' = [wpc EXCEPT ![w] = "run"]
        /\ UNCHANGED <<jobs, jobsMutex, queue, wrank>>
    BY <1>9 DEF LockRank, WorkerGoes, rankVars, queueVars
  <2>2. QED
    BY <1>2, <1>6, <2>1 DEF WorkerPc
<1>10. CASE ComputeJob(w)
  <2>1. /\ wpc[w] = "run" /\ \E x \in {"advance", "fail"} : wpc' = [wpc EXCEPT ![w] = x]
        /\ UNCHANGED <<jobs, jobsMutex, queue, wrank>>
    BY <1>10 DEF ComputeJob, WorkerGoes, rankVars, queueVars
  <2>2. QED
    BY <1>2, <1>6, <2>1 DEF WorkerPc
<1>11. CASE ComputeSyncJob(w)
  <2>1. /\ wpc[w] = "run" /\ \E x \in {"notify", "advance"} : wpc' = [wpc EXCEPT ![w] = x]
        /\ UNCHANGED <<jobs, jobsMutex, queue, wrank>>
    BY <1>11 DEF ComputeSyncJob, DoSyncJob, WorkerGoes, rankVars, queueVars
  <2>2. QED
    BY <1>2, <1>6, <2>1 DEF WorkerPc
<1>12. CASE NotifySync(w)
  <2>1. /\ wpc[w] = "notify" /\ wpc' = [wpc EXCEPT ![w] = "advance"]
        /\ UNCHANGED <<jobs, jobsMutex, queue, wrank>>
    BY <1>12 DEF NotifySync, WorkerGoes, rankVars, queueVars
  <2>2. QED
    BY <1>2, <1>6, <2>1 DEF WorkerPc
<1>13. CASE AdvanceToNextJob(w)
  <2>1. /\ wpc[w] = "advance" /\ jobsMutex[wrank[w]] = Nobody
        /\ jobs' = [jobs EXCEPT ![wrank[w]] = Tail(jobs[wrank[w]])]
        /\ wpc' = [wpc EXCEPT ![w] = NextJob(wrank[w])]
        /\ UNCHANGED <<jobsMutex, queue, wrank>>
    BY <1>13 DEF AdvanceToNextJob, WorkerGoes, queueVars
  <2>2. wrank[w] \in Rank /\ jobs[wrank[w]] \in Seq(Job) /\ jobs[wrank[w]] # <<>>
    BY <1>1, <1>3, <1>5, <2>1 DEF ServeOf
  <2>3. /\ Len(jobs[wrank[w]]) = 1 => Tail(jobs[wrank[w]]) = <<>>
        /\ Len(jobs[wrank[w]]) # 1 => Tail(jobs[wrank[w]]) # <<>>
    BY <2>2, TailEmpty
  <2>4. CASE Len(jobs[wrank[w]]) = 1
    <3>1. wpc' = [wpc EXCEPT ![w] = "unlock"]
      BY <2>1, <2>4 DEF NextJob
    <3>2. QED
      BY <1>2, <1>7, <2>1, <2>2, <2>3, <2>4, <3>1 DEF WorkerPc
  <2>5. CASE Len(jobs[wrank[w]]) # 1
    <3>1. wpc' = [wpc EXCEPT ![w] = "run"]
      BY <2>1, <2>5 DEF NextJob
    <3>2. QED
      BY <1>2, <1>7, <2>1, <2>2, <2>3, <2>5, <3>1 DEF WorkerPc
  <2>6. QED
    BY <2>4, <2>5
<1>14. CASE UpdateStatus(w)
  <2>1. /\ wpc[w] = "fail" /\ jobsMutex[wrank[w]] = Nobody
        /\ jobsMutex' = [jobsMutex EXCEPT ![wrank[w]] = w]
        /\ wpc' = [wpc EXCEPT ![w] = "clear"]
        /\ UNCHANGED <<jobs, queue, wrank>>
    BY <1>14 DEF UpdateStatus, WorkerGoes, queueVars
  <2>2. wrank[w] \in Rank /\ wrank[w] # Nobody
    BY <1>5, <2>1
  <2>3. Guarded(w)
    BY <1>1, <2>1 DEF Guarded
  <2>4. Runs(w)
    BY <1>1, <2>1, <2>2 DEF Runs, ServeOf, WorkerPc
  <2>5. QED
    BY <1>2, <2>3, <2>4
<1>15. CASE ClearJob(w)
  <2>1. /\ wpc[w] = "clear" /\ jobs[wrank[w]] # <<>> /\ UNCHANGED <<jobsMutex, queue, wrank, wpc>>
        /\ jobs' = [jobs EXCEPT ![wrank[w]] = Tail(jobs[wrank[w]])]
    BY <1>15 DEF ClearJob, queueVars, workerVars
  <2>2. wpc' = [wpc EXCEPT ![w] = "clear"] /\ jobsMutex[wrank[w]] = w
    BY <1>1, <1>3, <2>1 DEF ServeOf
  <2>3. QED
    BY <1>2, <1>7, <2>1, <2>2 DEF WorkerPc
<1>16. CASE ClearSyncJob(w)
  <2>1. wpc[w] = "clear" /\ jobs[wrank[w]] # <<>> /\ UNCHANGED <<jobsMutex, queue, wrank>>
    BY <1>16 DEF ClearSyncJob, queueVars
  <2>2. jobsMutex[wrank[w]] = w /\ wrank[w] \in Rank /\ wrank[w] # Nobody
    BY <1>3, <1>5, <2>1 DEF ServeOf
  <2>3. \/ UNCHANGED jobs /\ wpc' = [wpc EXCEPT ![w] = "clearNotify"]
        \/ /\ jobs' = [jobs EXCEPT ![wrank[w]] = Tail(jobs[wrank[w]])]
           /\ wpc' = [wpc EXCEPT ![w] = "clear"]
    BY <1>16 DEF ClearSyncJob, DoSyncJob, WorkerGoes
  <2>4. CASE UNCHANGED jobs /\ wpc' = [wpc EXCEPT ![w] = "clearNotify"]
    BY <1>1, <1>2, <1>4, <2>1, <2>2, <2>4 DEF Runs, ServeOf, WorkerPc
  <2>5. CASE /\ jobs' = [jobs EXCEPT ![wrank[w]] = Tail(jobs[wrank[w]])]
             /\ wpc' = [wpc EXCEPT ![w] = "clear"]
    BY <1>2, <1>7, <2>1, <2>2, <2>5 DEF WorkerPc
  <2>6. QED
    BY <2>3, <2>4, <2>5
<1>17. CASE ClearNotifySync(w)
  <2>1. /\ wpc[w] = "clearNotify" /\ UNCHANGED <<jobsMutex, queue, wrank>>
        /\ jobs' = [jobs EXCEPT ![wrank[w]] = Tail(jobs[wrank[w]])]
        /\ wpc' = [wpc EXCEPT ![w] = "clear"]
    BY <1>17 DEF ClearNotifySync, WorkerGoes, queueVars
  <2>2. jobsMutex[wrank[w]] = w /\ jobs[wrank[w]] # <<>>
    BY <1>3, <2>1 DEF ServeOf
  <2>3. QED
    BY <1>2, <1>7, <2>1, <2>2 DEF WorkerPc
<1>18. CASE ClearDone(w)
  <2>1. /\ wpc[w] = "clear" /\ jobs[wrank[w]] = <<>> /\ UNCHANGED <<jobs, queue, wrank>>
        /\ jobsMutex' = [jobsMutex EXCEPT ![wrank[w]] = Nobody]
        /\ wpc' = [wpc EXCEPT ![w] = "unlock"]
    BY <1>18 DEF ClearDone, WorkerGoes, queueVars
  <2>2. jobsMutex[wrank[w]] = w /\ wrank[w] \in Rank /\ wrank[w] # Nobody
    BY <1>3, <1>5, <2>1 DEF ServeOf
  <2>3. Guarded(w)
    BY <1>1, <2>1, <2>2 DEF Guarded
  <2>4. Runs(w)
    BY <1>1, <2>1, <2>2 DEF Runs, ServeOf, WorkerPc
  <2>5. QED
    BY <1>2, <2>3, <2>4
<1>19. CASE UnlockRank(w)
  <2>1. Leaves(w) /\ UNCHANGED <<jobs, jobsMutex>>
    BY <1>19 DEF UnlockRank, Leaves, WorkerGoes, rankVars, queueVars
  <2>2. QED
    BY <1>2, <1>4, <2>1
<1>20. QED
  BY <1>8, <1>9, <1>10, <1>11, <1>12, <1>13, <1>14, <1>15, <1>16, <1>17, <1>18, <1>19
     DEF WorkerStep

-----------------------------------------------------------------------------
(***************************************************************************)
(* The invariant is inductive.                                             *)
(***************************************************************************)

(* Thread t leaves alone what the other clients own. *)
LEMMA OwnsKept ==
    ASSUME IInv, NEW t, Guarded(t), NEW d \in Client, d # t, SameClient(d)
    PROVE  OwnsOf(d)'
<1>1. OwnsOf(d) /\ d # Nobody
  BY SetAssumption DEF IInv, OwnsInv
<1>2. CurRank(d)' = CurRank(d)
  BY DEF SameClient, CurRank
<1>3. ASSUME pc[d] = "addq"
      PROVE  jobsMutex'[CurRank(d)] = d /\ jobs'[CurRank(d)] = <<>>
  <2>1. CurRank(d) \in Rank
    BY <1>3, CurRankType
  <2>2. QED
    BY <1>1, <1>3, <2>1 DEF OwnsOf, Guarded
<1>4. ASSUME pc[d] = "unget"
      PROVE  jobsMutex'[set[d][errAt[d]]] = d
  <2>1. set[d][errAt[d]] \in Rank
    <3>1. set[d] \in Seq(Rank) /\ errAt[d] \in 1..Len(set[d])
      BY <1>4 DEF IInv, TypeOK, IndexInv, IndexOf
    <3>2. QED
      BY <3>1, ElementOfSeq
  <2>2. QED
    BY <1>1, <1>4, <2>1 DEF OwnsOf, Guarded
<1>5. QED
  BY <1>2, <1>3, <1>4 DEF OwnsOf, SameClient

(* What a step of a client leaves true. *)
LEMMA ClientPreserves ==
    ASSUME IInv, NEW c \in Client, Call(c) \/ InCall(c)
    PROVE  /\ IndexInv' /\ OwnsInv' /\ QueueInv' /\ ServeInv'
           /\ ScheduledOnce' /\ NoForgottenRank'
<1>1. /\ UNCHANGED <<wpc, wrank>> /\ OwnsOf(c)' /\ Guarded(c)
      /\ LinksNone \/ \E r \in Rank : Links(r)
  BY ClientEffect DEF workerVars
<1>2. IndexOf(c)' /\ \A d \in Client \ {c} : SameClient(d)
  BY ClientIndex
<1>3. IndexInv'
  <2>1. ASSUME NEW d \in Client \ {c}
        PROVE  IndexOf(d)'
    BY <1>2 DEF IInv, IndexInv, IndexOf, SameClient
  <2>2. QED
    BY <1>2, <2>1 DEF IndexInv
<1>4. OwnsInv'
  BY <1>1, <1>2, OwnsKept DEF OwnsInv
<1>5. queue \in [Queue -> Seq(Rank)] /\ wrank \in [Worker -> Rank \cup {Nobody}]
  BY DEF IInv, TypeOK
<1>6. \A w \in Worker, r \in Rank : Serves(w, r)' <=> Serves(w, r)
  BY <1>1 DEF Serves
<1>7. \A r \in Rank : jobs[r] # <<>> => jobs'[r] # <<>>
  BY <1>1 DEF LinksNone, Links
<1>8. ServeInv'
  <2>1. SUFFICES ASSUME NEW w \in Worker
                 PROVE  ServeOf(w)'
    BY DEF ServeInv
  <2>2. ServeOf(w) /\ c # w /\ w # Nobody
    BY SetAssumption DEF IInv, ServeInv
  <2>3. CASE wpc[w] = "main"
    BY <1>1, <2>2, <2>3 DEF ServeOf
  <2>4. CASE wpc[w] # "main"
    <3>1. wrank[w] \in Rank
      BY <2>4, WorkerRankType
    <3>2. QED
      BY <1>1, <1>7, <2>2, <3>1 DEF ServeOf, Guarded
  <2>5. QED
    BY <2>3, <2>4
<1>9. CASE LinksNone
  <2>1. queue' = queue /\ \A r \in Rank : Queued(r)' <=> Queued(r)
    BY <1>9 DEF LinksNone, Queued
  <2>2. QueueInv'
    <3>1. SUFFICES ASSUME NEW q \in Queue, NEW i \in DOMAIN queue[q]
                   PROVE  QueueOf[queue[q][i]] = q /\ jobs'[queue[q][i]] # <<>>
      BY <2>1 DEF QueueInv
    <3>2. queue[q][i] \in Rank
      BY <1>5, LenProperties, ElementOfSeq
    <3>3. QED
      BY <1>7, <3>2 DEF IInv, QueueInv
  <2>3. ScheduledOnce'
    BY <1>6, <2>1 DEF IInv, ScheduledOnce
  <2>4. NoForgottenRank'
    BY <1>6, <1>9, <2>1 DEF IInv, NoForgottenRank, LinksNone
  <2>5. QED
    BY <1>3, <1>4, <1>8, <2>2, <2>3, <2>4
<1>10. ASSUME NEW r \in Rank, Links(r)
       PROVE  QueueInv' /\ ScheduledOnce' /\ NoForgottenRank'
  <2> DEFINE k == QueueOf[r]
  <2>1. k \in Queue /\ queue[k] \in Seq(Rank) /\ jobs[r] = <<>> /\ jobs'[r] # <<>>
    BY <1>5, <1>10, SetAssumption DEF Links
  <2>2. /\ queue'[k] = Append(queue[k], r)
        /\ \A q \in Queue \ {k} : queue'[q] = queue[q]
    BY <1>5, <1>10, <2>1 DEF Links
  <2>3. /\ DOMAIN queue[k] = 1..Len(queue[k]) /\ Len(queue[k]) \in Nat
        /\ DOMAIN queue'[k] = 1..(Len(queue[k]) + 1)
        /\ queue'[k][Len(queue[k]) + 1] = r
        /\ \A i \in 1..Len(queue[k]) : queue'[k][i] = queue[k][i]
    BY <2>1, <2>2
  <2>4. \A q \in Queue : \A i \in DOMAIN queue[q] : queue[q][i] \in Rank
    BY <1>5, LenProperties, ElementOfSeq
  <2>5. ~Queued(r)
    BY <2>1 DEF IInv, QueueInv, Queued
  <2>6. ASSUME NEW w \in Worker
        PROVE  ~Serves(w, r)
    <3>1. ServeOf(w) /\ w # Nobody /\ w # c /\ r # Nobody
      BY SetAssumption DEF IInv, ServeInv
    <3>2. jobsMutex[r] \in {Nobody, c}
      BY <1>1, <2>1 DEF Guarded
    <3>3. QED
      BY <2>1, <3>1, <3>2 DEF ServeOf, Serves
  <2>7. \A s \in Rank : Queued(s)' <=> Queued(s) \/ s = r
    <3>1. SUFFICES ASSUME NEW s \in Rank
                   PROVE  Queued(s)' <=> Queued(s) \/ s = r
      OBVIOUS
    <3>2. CASE QueueOf[s] = k
      <4>1. ASSUME NEW i \in DOMAIN queue'[k], queue'[k][i] = s, s # r
            PROVE  \E j \in DOMAIN queue[k] : queue[k][j] = s
        <5>1. i \in 1..Len(queue[k])
          BY <2>3, <4>1
        <5>2. QED
          BY <2>3, <4>1, <5>1
      <4>2. ASSUME NEW i \in DOMAIN queue[k]
            PROVE  i \in DOMAIN queue'[k] /\ queue'[k][i] = queue[k][i]
        BY <2>3
      <4>3. Len(queue[k]) + 1 \in DOMAIN queue'[k]
        BY <2>3
      <4>4. QED
        BY <2>3, <3>2, <4>1, <4>2, <4>3 DEF Queued
    <3>3. CASE QueueOf[s] # k
      <4>1. queue'[QueueOf[s]] = queue[QueueOf[s]]
        BY <2>2, <3>3, SetAssumption
      <4>2. QED
        BY <3>3, <4>1 DEF Queued
    <3>4. QED
      BY <3>2, <3>3
  <2>8. QueueInv'
    <3>1. ASSUME NEW q \in Queue \ {k}, NEW i \in DOMAIN queue[q]
          PROVE  QueueOf[queue[q][i]] = q /\ jobs'[queue[q][i]] # <<>>
      BY <1>7, <2>4, <3>1 DEF IInv, QueueInv
    <3>2. ASSUME NEW i \in DOMAIN queue'[k]
          PROVE  QueueOf[queue'[k][i]] = k /\ jobs'[queue'[k][i]] # <<>>
      <4>1. CASE i = Len(queue[k]) + 1
        BY <2>1, <2>3, <4>1
      <4>2. CASE i # Len(queue[k]) + 1
        <5>1. i \in DOMAIN queue[k] /\ queue'[k][i] = queue[k][i]
          BY <2>3, <3>2, <4>2
        <5>2. queue[k][i] \in Rank /\ QueueOf[queue[k][i]] = k /\ jobs[queue[k][i]] # <<>>
          BY <2>1, <2>4, <5>1 DEF IInv, QueueInv
        <5>3. QED
          BY <1>7, <5>1, <5>2
      <4>3. QED
        BY <4>1, <4>2
    <3>3. ASSUME NEW q \in Queue \ {k}, NEW i \in DOMAIN queue'[q]
          PROVE  QueueOf[queue'[q][i]] = q /\ jobs'[queue'[q][i]] # <<>>
      BY <2>2, <3>1
    <3>4. QED
      BY <3>2, <3>3 DEF QueueInv
  <2>9. ScheduledOnce'
    <3>1. \A q \in Queue : \A i, j \in DOMAIN queue[q] : queue[q][i] = queue[q][j] => i = j
      BY DEF IInv, ScheduledOnce
    <3>2. \A i \in DOMAIN queue[k] : queue[k][i] # r
      BY <2>5 DEF Queued
    <3>3. ASSUME NEW i \in DOMAIN queue'[k], NEW j \in DOMAIN queue'[k],
                 queue'[k][i] = queue'[k][j]
          PROVE  i = j
      <4>1. CASE i \in 1..Len(queue[k]) /\ j \in 1..Len(queue[k])
        <5>1. queue[k][i] = queue[k][j] /\ i \in DOMAIN queue[k] /\ j \in DOMAIN queue[k]
          BY <2>3, <3>3, <4>1
        <5>2. QED
          BY <2>1, <3>1, <5>1
      <4>2. CASE i \in 1..Len(queue[k]) /\ j = Len(queue[k]) + 1
        BY <2>3, <3>2, <3>3, <4>2
      <4>3. CASE i = Len(queue[k]) + 1 /\ j \in 1..Len(queue[k])
        BY <2>3, <3>2, <3>3, <4>3
      <4>4. CASE i = Len(queue[k]) + 1 /\ j = Len(queue[k]) + 1
        BY <4>4
      <4>5. QED
        BY <2>3, <4>1, <4>2, <4>3, <4>4
    <3>4. \A q \in Queue : \A i, j \in DOMAIN queue'[q] : queue'[q][i] = queue'[q][j] => i = j
      BY <2>2, <3>1, <3>3
    <3>5. \A w \in Worker, s \in Rank : Serves(w, s)' => ~Queued(s)'
      BY <1>6, <2>6, <2>7 DEF IInv, ScheduledOnce
    <3>6. \A v, w \in Worker : \A s \in Rank : Serves(v, s)' /\ Serves(w, s)' => v = w
      BY <1>6 DEF IInv, ScheduledOnce
    <3>7. QED
      BY <3>4, <3>5, <3>6 DEF ScheduledOnce
  <2>10. NoForgottenRank'
    <3>1. \A s \in Rank \ {r} : jobs'[s] = jobs[s]
      BY <1>10 DEF Links
    <3>2. QED
      BY <1>6, <2>7, <3>1 DEF IInv, NoForgottenRank
  <2>11. QED
    BY <2>8, <2>9, <2>10
<1>11. QED
  BY <1>1, <1>3, <1>4, <1>8, <1>9, <1>10

(* What a step of a worker leaves true. *)
LEMMA WorkerPreserves ==
    ASSUME IInv, NEW w \in Worker, WorkerStep(w)
    PROVE  /\ IndexInv' /\ OwnsInv' /\ QueueInv' /\ ServeInv'
           /\ ScheduledOnce' /\ NoForgottenRank'
<1>1. /\ UNCHANGED <<pc, at, set, errAt>> /\ Guarded(w)
      /\ Takes(w) \/ Runs(w) \/ Leaves(w)
  BY WorkerEffect
<1>2. IndexInv'
  BY <1>1 DEF IInv, IndexInv, IndexOf
<1>3. OwnsInv'
  <2>1. \A d \in Client : d # w /\ SameClient(d)
    BY <1>1, SetAssumption DEF SameClient
  <2>2. QED
    BY <1>1, <2>1, OwnsKept DEF OwnsInv
<1>4. /\ queue \in [Queue -> Seq(Rank)] /\ wrank \in [Worker -> Rank \cup {Nobody}]
      /\ wpc \in [Worker -> WorkerPc] /\ Nobody \notin Rank
  BY SetAssumption DEF IInv, TypeOK
<1>5. \A q \in Queue : \A i \in DOMAIN queue[q] : queue[q][i] \in Rank
  BY <1>4, LenProperties, ElementOfSeq
<1>6. \A v \in Worker \ {w} : wpc'[v] = wpc[v] /\ wrank'[v] = wrank[v]
  BY <1>1, <1>4 DEF Takes, Runs, Leaves
<1>7. \A v \in Worker \ {w}, r \in Rank : Serves(v, r)' <=> Serves(v, r)
  BY <1>6 DEF Serves
\* The other workers do not serve the rank of w, and w has no hold on theirs.
<1>8. \A v \in Worker \ {w} : ServeOf(v)'
  <2>1. SUFFICES ASSUME NEW v \in Worker \ {w}
                 PROVE  ServeOf(v)'
    OBVIOUS
  <2>2. ServeOf(v) /\ v # Nobody
    BY SetAssumption DEF IInv, ServeInv
  <2>3. CASE wpc[v] \in {"main", "unlock"}
    BY <1>6, <2>2, <2>3 DEF ServeOf
  <2>4. CASE wpc[v] \notin {"main", "unlock"}
    <3>1. wrank[v] \in Rank /\ Serves(v, wrank[v])
      BY <2>4, WorkerRankType DEF Serves
    <3>2. jobs'[wrank[v]] = jobs[wrank[v]]
      <4>1. CASE Runs(w)
        <5>1. Serves(w, wrank[w])
          BY <4>1 DEF Runs, Serves
        <5>2. wrank[v] # wrank[w]
          BY <3>1, <5>1 DEF IInv, ScheduledOnce
        <5>3. QED
          BY <3>1, <4>1, <5>2 DEF Runs
      <4>2. CASE Takes(w) \/ Leaves(w)
        BY <4>2 DEF Takes, Leaves
      <4>3. QED
        BY <1>1, <4>1, <4>2
    <3>3. QED
      BY <1>1, <1>6, <2>2, <3>1, <3>2 DEF ServeOf, Guarded
  <2>5. QED
    BY <2>3, <2>4
<1>9. CASE Takes(w)
  <2> DEFINE k == WorkerQueue[w]
             r == Head(queue[k])
  <2>1. k \in Queue /\ queue[k] \in Seq(Rank) /\ queue[k] # <<>> /\ UNCHANGED <<jobs, jobsMutex>>
    BY <1>4, <1>9, SetAssumption DEF Takes
  <2>2. /\ queue'[k] = Tail(queue[k])
        /\ \A q \in Queue \ {k} : queue'[q] = queue[q]
    BY <1>4, <1>9, <2>1 DEF Takes
  <2>3. /\ DOMAIN queue[k] = 1..Len(queue[k]) /\ Len(queue[k]) \in Nat \ {0}
        /\ DOMAIN queue'[k] = 1..(Len(queue[k]) - 1)
        /\ r = queue[k][1]
        /\ \A i \in 1..(Len(queue[k]) - 1) : queue'[k][i] = queue[k][i + 1]
    BY <2>1, <2>2, HeadTailProperties, LenProperties, EmptySeq
  <2>4. r \in Rank /\ QueueOf[r] = k /\ jobs[r] # <<>> /\ Queued(r)
    BY <1>5, <2>1, <2>3 DEF IInv, QueueInv, Queued
  <2>5. wrank'[w] = r /\ wpc'[w] = "lock"
    BY <1>4, <1>9 DEF Takes
  <2>6. \A q \in Queue : \A i, j \in DOMAIN queue[q] : queue[q][i] = queue[q][j] => i = j
    BY DEF IInv, ScheduledOnce
  <2>7. \A s \in Rank : Queued(s)' <=> Queued(s) /\ s # r
    <3>1. SUFFICES ASSUME NEW s \in Rank
                   PROVE  Queued(s)' <=> Queued(s) /\ s # r
      OBVIOUS
    <3>2. CASE QueueOf[s] = k
      <4>1. ASSUME NEW i \in DOMAIN queue'[k], queue'[k][i] = s
            PROVE  Queued(s) /\ s # r
        <5>1. i \in Nat /\ i + 1 \in DOMAIN queue[k] /\ 1 \in DOMAIN queue[k] /\ i + 1 # 1
          BY <2>3, <4>1
        <5>2. queue[k][i + 1] = s
          BY <2>3, <4>1
        <5>3. QED
          BY <2>1, <2>3, <2>6, <3>2, <5>1, <5>2 DEF Queued
      <4>2. ASSUME NEW i \in DOMAIN queue[k], queue[k][i] = s, s # r
            PROVE  \E j \in DOMAIN queue'[k] : queue'[k][j] = s
        <5>1. i # 1 /\ i \in 1..Len(queue[k])
          BY <2>3, <4>2
        <5>2. i - 1 \in 1..(Len(queue[k]) - 1) /\ (i - 1) + 1 = i
          BY <2>3, <5>1
        <5>3. QED
          BY <2>3, <4>2, <5>2
      <4>3. QED
        BY <3>2, <4>1, <4>2 DEF Queued
    <3>3. CASE QueueOf[s] # k
      <4>1. queue'[QueueOf[s]] = queue[QueueOf[s]]
        BY <2>2, <3>3, SetAssumption
      <4>2. QED
        BY <2>4, <3>3, <4>1 DEF Queued
    <3>4. QED
      BY <3>2, <3>3
  <2>8. ServeInv'
    <3>1. ServeOf(w)'
      BY <1>4, <2>1, <2>4, <2>5 DEF ServeOf
    <3>2. QED
      BY <1>8, <3>1 DEF ServeInv
  <2>9. QueueInv'
    <3>1. ASSUME NEW i \in DOMAIN queue'[k]
          PROVE  QueueOf[queue'[k][i]] = k /\ jobs[queue'[k][i]] # <<>>
      <4>1. i + 1 \in DOMAIN queue[k] /\ queue'[k][i] = queue[k][i + 1]
        BY <2>3, <3>1
      <4>2. QED
        BY <2>1, <4>1 DEF IInv, QueueInv
    <3>2. ASSUME NEW q \in Queue \ {k}, NEW i \in DOMAIN queue'[q]
          PROVE  QueueOf[queue'[q][i]] = q /\ jobs[queue'[q][i]] # <<>>
      <4>1. queue'[q] = queue[q]
        BY <2>2
      <4>2. QED
        BY <4>1 DEF IInv, QueueInv
    <3>3. jobs' = jobs
      BY <2>1
    <3>4. QED
      BY <3>1, <3>2, <3>3 DEF QueueInv
  <2>10. \A s \in Rank : Serves(w, s)' <=> s = r
    BY <2>5 DEF Serves
  <2>11. ScheduledOnce'
    <3>1. ASSUME NEW i \in DOMAIN queue'[k], NEW j \in DOMAIN queue'[k],
                 queue'[k][i] = queue'[k][j]
          PROVE  i = j
      <4>1. /\ i \in Nat /\ j \in Nat
            /\ i + 1 \in DOMAIN queue[k] /\ j + 1 \in DOMAIN queue[k]
            /\ queue[k][i + 1] = queue[k][j + 1]
        <5>1. i \in 1..(Len(queue[k]) - 1) /\ j \in 1..(Len(queue[k]) - 1)
          BY <2>3
        <5>2. queue[k][i + 1] = queue[k][j + 1]
          BY <2>3, <3>1, <5>1
        <5>3. QED
          BY <2>3, <5>1, <5>2
      <4>2. i + 1 = j + 1
        BY <2>1, <2>6, <4>1
      <4>3. QED
        BY <4>1, <4>2
    <3>2. \A q \in Queue : \A i, j \in DOMAIN queue'[q] : queue'[q][i] = queue'[q][j] => i = j
      BY <2>2, <2>6, <3>1
    <3>3. \A v \in Worker : ~Serves(v, r)
      BY <2>4 DEF IInv, ScheduledOnce
    <3>4. \A u, v \in Worker : \A s \in Rank : Serves(u, s)' /\ Serves(v, s)' => u = v
      BY <1>7, <2>10, <3>3 DEF IInv, ScheduledOnce
    <3>5. \A v \in Worker, s \in Rank : Serves(v, s)' => ~Queued(s)'
      BY <1>7, <2>7, <2>10 DEF IInv, ScheduledOnce
    <3>6. QED
      BY <3>2, <3>4, <3>5 DEF ScheduledOnce
  <2>12. NoForgottenRank'
    <3>1. \A s \in Rank : ~Serves(w, s)
      BY <1>4, <1>9 DEF Takes, Serves, IInv, ServeInv, ServeOf
    <3>2. QED
      BY <1>7, <2>1, <2>7, <2>10, <3>1 DEF IInv, NoForgottenRank
  <2>13. QED
    BY <1>2, <1>3, <2>8, <2>9, <2>11, <2>12
<1>10. CASE Runs(w)
  <2> DEFINE r == wrank[w]
  <2>1. r \in Rank /\ Serves(w, r) /\ ~Queued(r)
    BY <1>10, WorkerRankType DEF Runs, Serves, IInv, ScheduledOnce
  <2>2. queue' = queue /\ wrank' = wrank /\ \A s \in Rank : Queued(s)' <=> Queued(s)
    BY <1>10 DEF Runs, Queued
  <2>3. ServeInv'
    BY <1>8, <1>10 DEF Runs, ServeInv
  <2>4. \A s \in Rank \ {r} : jobs'[s] = jobs[s]
    BY <1>10 DEF Runs
  <2>5. QueueInv'
    <3>1. SUFFICES ASSUME NEW q \in Queue, NEW i \in DOMAIN queue[q]
                   PROVE  QueueOf[queue[q][i]] = q /\ jobs'[queue[q][i]] # <<>>
      BY <2>2 DEF QueueInv
    <3>2. QueueOf[queue[q][i]] = q /\ jobs[queue[q][i]] # <<>> /\ queue[q][i] \in Rank
      BY <1>5 DEF IInv, QueueInv
    <3>3. queue[q][i] # r
      BY <2>1, <3>2 DEF Queued
    <3>4. QED
      BY <2>4, <3>2, <3>3
  <2>6. \A s \in Rank : Serves(w, s)' => s = r
    BY <2>2 DEF Serves
  <2>7. ScheduledOnce'
    BY <1>7, <2>1, <2>2, <2>6 DEF IInv, ScheduledOnce
  <2>8. NoForgottenRank'
    <3>1. jobs'[r] # <<>> => Serves(w, r)'
      BY <1>10, <2>2 DEF Runs, Serves
    <3>2. \A s \in Rank \ {r} : ~Serves(w, s)
      BY DEF Serves
    <3>3. QED
      BY <1>7, <2>1, <2>2, <2>4, <3>1, <3>2 DEF IInv, NoForgottenRank
  <2>9. QED
    BY <1>2, <1>3, <2>3, <2>5, <2>7, <2>8
<1>11. CASE Leaves(w)
  <2>1. UNCHANGED <<jobs, jobsMutex, queue>> /\ \A r \in Rank : Queued(r)' <=> Queued(r)
    BY <1>11 DEF Leaves, Queued
  <2>2. wpc[w] = "unlock" /\ wpc'[w] = "main" /\ wrank'[w] = Nobody
    BY <1>4, <1>11 DEF Leaves
  <2>3. \A r \in Rank : ~Serves(w, r) /\ ~Serves(w, r)'
    BY <1>4, <2>2 DEF Serves
  <2>4. ServeInv'
    <3>1. ServeOf(w)'
      BY <2>2 DEF ServeOf
    <3>2. QED
      BY <1>8, <3>1 DEF ServeInv
  <2>5. QueueInv' /\ ScheduledOnce'
    BY <1>7, <2>1, <2>3 DEF IInv, QueueInv, ScheduledOnce
  <2>6. NoForgottenRank'
    BY <1>7, <2>1, <2>3 DEF IInv, NoForgottenRank
  <2>7. QED
    BY <1>2, <1>3, <2>4, <2>5, <2>6
<1>12. QED
  BY <1>1, <1>9, <1>10, <1>11

(* The initial states satisfy the invariant. *)
LEMMA InitInv == Init => IInv
<1>1. SUFFICES ASSUME Init PROVE IInv
  OBVIOUS
<1>2. TypeOK
  BY <1>1, NrJobsAssumption, SetAssumption
     DEF Init, TypeOK, Status, Kind, ClientPc, WorkerPc, Result
<1>3. IndexInv /\ OwnsInv /\ QueueInv /\ ServeInv
  BY <1>1 DEF Init, IndexInv, IndexOf, OwnsInv, OwnsOf, QueueInv, ServeInv, ServeOf
<1>4. ScheduledOnce /\ NoForgottenRank
  BY <1>1, SetAssumption DEF Init, ScheduledOnce, NoForgottenRank, Serves, Queued
<1>5. QED
  BY <1>2, <1>3, <1>4 DEF IInv

(* Every step preserves the invariant. *)
LEMMA StepInv == IInv /\ [Next]_vars => IInv'
<1>1. SUFFICES ASSUME IInv, [Next]_vars PROVE IInv'
  OBVIOUS
<1>2. TypeOK'
  BY <1>1, TypeStep
<1>3. CASE \E c \in Client : Call(c) \/ InCall(c)
  BY <1>1, <1>2, <1>3, ClientPreserves DEF IInv
<1>4. CASE \E w \in Worker : WorkerStep(w)
  BY <1>1, <1>2, <1>4, WorkerPreserves DEF IInv
<1>5. CASE UNCHANGED vars \/ \E c \in Client : WakeForNoSlot(c)
  <2>1. UNCHANGED <<jobs, jobsMutex, queue, pc, at, set, errAt, wpc, wrank>>
    BY <1>5 DEF vars, rankVars, queueVars, clientVars, workerVars, WakeForNoSlot
  <2>2. UNCHANGED <<IndexInv, OwnsInv, QueueInv, ServeInv>>
    BY <2>1 DEF IndexInv, IndexOf, OwnsInv, OwnsOf, QueueInv, ServeInv, ServeOf, CurRank
  <2>3. UNCHANGED <<ScheduledOnce, NoForgottenRank>>
    BY <2>1 DEF ScheduledOnce, NoForgottenRank, Serves, Queued
  <2>4. QED
    BY <1>1, <1>2, <2>2, <2>3 DEF IInv
<1>6. QED
  BY <1>1, <1>3, <1>4, <1>5 DEF Next

(* The strengthened invariant holds in every reachable state. *)
THEOREM Inductive == Spec => []IInv
  BY InitInv, StepInv, PTL DEF Spec

(* The state of the job engine keeps its type in every reachable state, in *)
(* particular available_jobs_length never wraps below zero.                *)
THEOREM TypeCorrect == Spec => []TypeOK
<1>1. IInv => TypeOK
  BY DEF IInv
<1>2. QED
  BY <1>1, Inductive, PTL

(* The FIFO of a rank is run by one thread at a time, whatever the number  *)
(* of ranks, queues, clients and workers (add_jobs against                 *)
(* dpu_thread_job_fct).                                                    *)
THEOREM RankScheduledOnce == Spec => []ScheduledOnce
<1>1. IInv => ScheduledOnce
  BY DEF IInv
<1>2. QED
  BY <1>1, Inductive, PTL

(* A rank with jobs is linked in its queue or served by a worker, in every *)
(* reachable state.                                                        *)
THEOREM RankNeverForgotten == Spec => []NoForgottenRank
<1>1. IInv => NoForgottenRank
  BY DEF IInv
<1>2. QED
  BY <1>1, Inductive, PTL

-----------------------------------------------------------------------------
(***************************************************************************)
(* The sync of a synchronous call: its count of ranks is exact, no SYNC    *)
(* job outlives the call, and a call that returns has left no operation    *)
(* behind and reports the failure of its own; and the job slots; whether   *)
(* or not a wait may end without a signal.                                 *)
(***************************************************************************)

SyncJob(c) == [type |-> "sync", owner |-> c]

(* The SYNC job of c at place i of the FIFO of r is still to be run. *)
Pending(c, r, i) ==
    i \in DOMAIN jobs[r] /\ jobs[r][i] = SyncJob(c) /\ (i = 1 => ~HeadCounted(r))

Adding == {"add", "addq"}
Syncing == {"add", "addq", "wait"}

Once(c) == \A r \in Rank : \A i, j \in Nat : Pending(c, r, i) /\ Pending(c, r, j) => i = j

(* The SYNC jobs of c are in distinct FIFOs, of ranks that the loop over   *)
(* the set has been through, and belong to the current call.               *)
PendingOf(c) ==
    /\ Once(c)
    /\ IsFiniteSet(SyncRanks(c))
    /\ SyncRanks(c) # {} => kind[c] # "async" /\ pc[c] \in Syncing
    /\ pc[c] \in Adding =>
          \A r \in SyncRanks(c) : \E i \in 1..(at[c] - 1) : set[c][i] = r
    /\ \A i, j \in DOMAIN set[c] : set[c][i] = set[c][j] => i = j

(* The count of the sync. *)
CountOf(c) ==
    /\ kind[c] # "async" /\ pc[c] \in Adding =>
          left[c] = Cardinality(SyncRanks(c)) + Len(set[c]) - at[c] + 1
    /\ pc[c] = "wait" => left[c] = Cardinality(SyncRanks(c)) /\ kind[c] # "async"
    /\ kind[c] # "async" /\ pc[c] = "get" => left[c] = Len(set[c])

SyncOf(c) == PendingOf(c) /\ CountOf(c)
SyncInv == \A c \in Client : SyncOf(c)

(* A SYNC job of c comes after place j. *)
Followed(c, r, j) == \E k \in DOMAIN jobs[r] : k > j /\ jobs[r][k] = SyncJob(c)

(* In the FIFO of r every operation of c comes before a SYNC job of c. *)
Drained(c, r) ==
    \A j \in DOMAIN jobs[r] :
        jobs[r][j].owner = c /\ jobs[r][j].type # "sync" => Followed(c, r, j)

(* The operation of a synchronous call comes before its SYNC job. *)
OpFollowed(c, r) ==
    \A j \in DOMAIN jobs[r] :
        jobs[r][j] = [type |-> "op", owner |-> c] => Followed(c, r, j)

(* What the client asked for before a synchronous call comes before its    *)
(* SYNC jobs, too.                                                         *)
DrainOf(c) ==
    /\ \A r \in Rank : OpFollowed(c, r)
    /\ kind[c] # "async" =>
          \A i \in DOMAIN set[c] :
             \/ pc[c] \in Adding /\ i < at[c]
             \/ pc[c] \in {"wait", "reset"}
             \/ pc[c] = "idle" /\ result[c] # "JOBERR"
             => Drained(c, set[c][i])

(* The sync knows of a failed operation of the call, or the worker that    *)
(* clears the FIFO has not come to its SYNC job yet.                       *)
FailOf(c) ==
    /\ "op" \in failed[c] =>
          /\ kind[c] # "async" /\ pc[c] \in Syncing \cup {"reset"}
          /\ \/ status[c] = "ERR"
             \/ \E w \in Worker : wpc[w] \in {"clear", "clearNotify"} /\ wrank[w] \in SyncRanks(c)
    /\ pc[c] = "reset" => status[c] = "ERR" /\ kind[c] # "async"

FifoOf(c) == DrainOf(c) /\ FailOf(c)
FifoInv == \A c \in Client : FifoOf(c)

-----------------------------------------------------------------------------

(* The places of a FIFO, and its head. *)
LEMMA FifoType ==
    ASSUME IInv, NEW r \in Rank
    PROVE  /\ jobs[r] \in Seq(Job) /\ Len(jobs[r]) \in Nat /\ DOMAIN jobs[r] = 1..Len(jobs[r])
           /\ jobs[r] # <<>> => Len(jobs[r]) > 0 /\ Head(jobs[r]) = jobs[r][1] /\ jobs[r][1] \in Job
<1>1. jobs[r] \in Seq(Job)
  BY DEF IInv, TypeOK
<1>2. QED
  BY <1>1

(* The jobs of a call on a rank. *)
LEMMA JobsShape ==
    ASSUME IInv, NEW c \in Client
    PROVE  /\ kind[c] = "async" => JobsOf(c) = <<[type |-> "async", owner |-> c]>>
           /\ kind[c] = "dpu_sync" => JobsOf(c) = <<SyncJob(c)>>
           /\ kind[c] = "sync" => JobsOf(c) = <<[type |-> "op", owner |-> c], SyncJob(c)>>
           /\ kind[c] \in {"async", "dpu_sync", "sync"}
<1>1. kind[c] \in {"async", "dpu_sync", "sync"}
  BY DEF IInv, TypeOK, Kind
<1>2. QED
  BY <1>1 DEF JobsOf, SyncJob

(* Nothing is done to the FIFOs. *)
LEMMA StillFifo ==
    ASSUME jobs' = jobs, \A r \in Rank : HeadCounted(r)' = HeadCounted(r)
    PROVE  \A d \in Client : SyncRanks(d)' = SyncRanks(d) /\ (Once(d) => Once(d)')
<1> SUFFICES ASSUME NEW d \in Client
             PROVE  SyncRanks(d)' = SyncRanks(d) /\ (Once(d) => Once(d)')
  OBVIOUS
<1>1. \A r \in Rank, i \in Nat : Pending(d, r, i)' = Pending(d, r, i)
  BY DEF Pending
<1>2. SyncRanks(d)' = SyncRanks(d)
  BY DEF SyncRanks
<1>3. QED
  BY <1>1, <1>2 DEF Once

(* A rank has the SYNC job of c to run when it is pending somewhere. *)
LEMMA SyncRanksPending ==
    ASSUME IInv, NEW c \in Client, NEW r \in Rank
    PROVE  r \in SyncRanks(c) <=> \E i \in Nat : Pending(c, r, i)
BY FifoType DEF SyncRanks, Pending, SyncJob

(* A worker counts off the job at the head of its FIFO. *)
LEMMA CountEffect ==
    ASSUME IInv, NEW r \in Rank, jobs' = jobs, HeadCounted(r)', ~HeadCounted(r),
           \A s \in Rank \ {r} : HeadCounted(s)' = HeadCounted(s)
    PROVE  \A d \in Client :
              /\ Once(d) => Once(d)'
              /\ Once(d) /\ Pending(d, r, 1) => SyncRanks(d)' = SyncRanks(d) \ {r}
              /\ ~Pending(d, r, 1) => SyncRanks(d)' = SyncRanks(d)
<1> SUFFICES ASSUME NEW d \in Client
             PROVE  /\ Once(d) => Once(d)'
                    /\ Once(d) /\ Pending(d, r, 1) => SyncRanks(d)' = SyncRanks(d) \ {r}
                    /\ ~Pending(d, r, 1) => SyncRanks(d)' = SyncRanks(d)
  OBVIOUS
<1>1. \A s \in Rank, i \in Nat : Pending(d, s, i)' <=> Pending(d, s, i) /\ ~(s = r /\ i = 1)
  BY DEF Pending
<1>2. Once(d) => Once(d)'
  BY <1>1 DEF Once
<1>3. \A s \in Rank : /\ s \in SyncRanks(d) <=> \E i \in Nat : Pending(d, s, i)
                      /\ s \in SyncRanks(d)' <=> \E i \in Nat : Pending(d, s, i)'
  BY SyncRanksPending, FifoType DEF SyncRanks, Pending, SyncJob
<1>4. SyncRanks(d) \subseteq Rank /\ SyncRanks(d)' \subseteq Rank
  BY DEF SyncRanks
<1>5. ASSUME ~Pending(d, r, 1)
      PROVE  SyncRanks(d)' = SyncRanks(d)
  BY <1>1, <1>3, <1>4, <1>5
<1>6. ASSUME Once(d), Pending(d, r, 1)
      PROVE  SyncRanks(d)' = SyncRanks(d) \ {r}
  <2>1. \A i \in Nat : Pending(d, r, i) => i = 1
    BY <1>6 DEF Once
  <2>2. QED
    BY <1>1, <1>3, <1>4, <2>1
<1>7. QED
  BY <1>2, <1>5, <1>6

(* The job at the head of a FIFO is removed. *)
LEMMA ShiftEffect ==
    ASSUME IInv, NEW r \in Rank, jobs[r] # <<>>,
           jobs' = [jobs EXCEPT ![r] = Tail(jobs[r])], ~HeadCounted(r)',
           \A s \in Rank \ {r} : HeadCounted(s)' = HeadCounted(s)
    PROVE  \A d \in Client :
              /\ Once(d) => Once(d)'
              /\ Once(d) /\ Pending(d, r, 1) => SyncRanks(d)' = SyncRanks(d) \ {r}
              /\ ~Pending(d, r, 1) => SyncRanks(d)' = SyncRanks(d)
              /\ \A s \in Rank : /\ Drained(d, s) => Drained(d, s)'
                                 /\ OpFollowed(d, s) => OpFollowed(d, s)'
<1> SUFFICES ASSUME NEW d \in Client
             PROVE  /\ Once(d) => Once(d)'
                    /\ Once(d) /\ Pending(d, r, 1) => SyncRanks(d)' = SyncRanks(d) \ {r}
                    /\ ~Pending(d, r, 1) => SyncRanks(d)' = SyncRanks(d)
                    /\ \A s \in Rank : /\ Drained(d, s) => Drained(d, s)'
                                       /\ OpFollowed(d, s) => OpFollowed(d, s)'
  OBVIOUS
<1> DEFINE n == Len(jobs[r])
<1>1. /\ n \in Nat /\ n > 0 /\ DOMAIN jobs[r] = 1..n /\ DOMAIN jobs'[r] = 1..(n - 1)
      /\ \A i \in 1..(n - 1) : jobs'[r][i] = jobs[r][i + 1]
  <2>1. jobs[r] \in Seq(Job) /\ n \in Nat /\ n > 0 /\ DOMAIN jobs[r] = 1..n
    BY FifoType
  <2>2. jobs'[r] = Tail(jobs[r])
    BY DEF IInv, TypeOK
  <2>3. /\ Tail(jobs[r]) \in Seq(Job) /\ Len(Tail(jobs[r])) = n - 1
        /\ \A i \in 1..Len(Tail(jobs[r])) : Tail(jobs[r])[i] = jobs[r][i + 1]
    BY <2>1, HeadTailProperties
  <2>4. DOMAIN jobs'[r] = 1..(n - 1) /\ 1..Len(Tail(jobs[r])) = 1..(n - 1)
    <3>1. DOMAIN Tail(jobs[r]) = 1..Len(Tail(jobs[r]))
      BY <2>3
    <3>2. QED
      BY <2>2, <2>3, <3>1
  <2> HIDE DEF n
  <2>5. \A i \in 1..(n - 1) : jobs'[r][i] = jobs[r][i + 1]
    BY <2>2, <2>3, <2>4
  <2>6. QED
    BY <2>1, <2>4, <2>5
<1>2. \A s \in Rank \ {r} : jobs'[s] = jobs[s]
  BY DEF IInv, TypeOK
<1> HIDE DEF n
<1>3. \A i \in Nat : Pending(d, r, i)' <=> i # 0 /\ Pending(d, r, i + 1)
  <2>1. SUFFICES ASSUME NEW i \in Nat
                 PROVE  Pending(d, r, i)' <=> i # 0 /\ Pending(d, r, i + 1)
    OBVIOUS
  <2>2. i \in DOMAIN jobs'[r] <=> i # 0 /\ i + 1 \in DOMAIN jobs[r]
    BY <1>1
  <2>3. i \in DOMAIN jobs'[r] => jobs'[r][i] = jobs[r][i + 1]
    BY <1>1
  <2>4. SyncJob(d)' = SyncJob(d) /\ (i # 0 => i + 1 # 1)
    BY DEF SyncJob
  <2>5. QED
    BY <2>2, <2>3, <2>4 DEF Pending
<1>4. \A s \in Rank \ {r}, i \in Nat : Pending(d, s, i)' = Pending(d, s, i)
  BY <1>2 DEF Pending, SyncJob
<1>5. Once(d) => Once(d)'
  <2>1. SUFFICES ASSUME Once(d), NEW s \in Rank, NEW i \in Nat, NEW j \in Nat,
                        Pending(d, s, i)', Pending(d, s, j)'
                 PROVE  i = j
    BY DEF Once
  <2>2. CASE s = r
    <3>1. Pending(d, r, i + 1) /\ Pending(d, r, j + 1)
      BY <1>3, <2>1, <2>2
    <3>2. i + 1 \in Nat /\ j + 1 \in Nat
      OBVIOUS
    <3>3. i + 1 = j + 1
      BY <2>1, <3>1, <3>2 DEF Once
    <3>4. QED
      BY <3>3
  <2>3. CASE s # r
    BY <1>4, <2>1, <2>3 DEF Once
  <2>4. QED
    BY <2>2, <2>3
<1>6. \A s \in Rank : s \in SyncRanks(d) <=> \E i \in Nat : Pending(d, s, i)
  BY SyncRanksPending
<1>7. \A s \in Rank : s \in SyncRanks(d)' <=> \E i \in Nat : Pending(d, s, i)'
  <2>1. \A s \in Rank : DOMAIN jobs'[s] \subseteq Nat
    BY <1>1, <1>2, FifoType
  <2>2. QED
    BY <2>1 DEF SyncRanks, Pending, SyncJob
<1>8. r \in SyncRanks(d)' <=> \E k \in Nat : k # 1 /\ Pending(d, r, k)
  <2>1. ASSUME NEW i \in Nat, Pending(d, r, i)'
        PROVE  \E k \in Nat : k # 1 /\ Pending(d, r, k)
    BY <1>3, <2>1
  <2>2. ASSUME NEW k \in Nat, k # 1, Pending(d, r, k)
        PROVE  \E i \in Nat : Pending(d, r, i)'
    <3>1. k \in 1..n
      BY <1>1, <2>2 DEF Pending
    <3>2. k - 1 \in Nat /\ k - 1 # 0 /\ (k - 1) + 1 = k
      BY <1>1, <2>2, <3>1
    <3>3. QED
      BY <1>3, <2>2, <3>2
  <2>3. QED
    BY <1>7, <2>1, <2>2
<1>9. \A s \in Rank \ {r} : s \in SyncRanks(d)' <=> s \in SyncRanks(d)
  BY <1>4, <1>6, <1>7
<1>10. SyncRanks(d) \subseteq Rank /\ SyncRanks(d)' \subseteq Rank
  BY DEF SyncRanks
<1>11. ASSUME ~Pending(d, r, 1)
       PROVE  SyncRanks(d)' = SyncRanks(d)
  <2>1. r \in SyncRanks(d)' <=> r \in SyncRanks(d)
    BY <1>6, <1>8, <1>11
  <2>2. \A s \in Rank : s \in SyncRanks(d)' <=> s \in SyncRanks(d)
    BY <1>9, <2>1
  <2>3. QED
    BY <1>10, <2>2
<1>12. ASSUME Once(d), Pending(d, r, 1)
       PROVE  SyncRanks(d)' = SyncRanks(d) \ {r}
  <2>1. r \notin SyncRanks(d)'
    BY <1>8, <1>12 DEF Once
  <2>2. \A s \in Rank : s \in SyncRanks(d)' <=> s \in SyncRanks(d) \ {r}
    BY <1>9, <2>1
  <2>3. QED
    BY <1>10, <2>2
<1>13. ASSUME NEW j \in DOMAIN jobs'[r], Followed(d, r, j + 1)
       PROVE  Followed(d, r, j)'
  <2>1. PICK k \in DOMAIN jobs[r] : k > j + 1 /\ jobs[r][k] = SyncJob(d)
    BY <1>13 DEF Followed
  <2>2. k - 1 \in DOMAIN jobs'[r] /\ k - 1 > j /\ jobs'[r][k - 1] = jobs[r][k]
    <3>1. j \in 1..(n - 1) /\ k \in 1..n
      BY <1>1
    <3>2. k - 1 \in 1..(n - 1) /\ k - 1 > j /\ (k - 1) + 1 = k
      BY <1>1, <2>1, <3>1
    <3>3. QED
      BY <1>1, <3>2
  <2>3. QED
    BY <2>1, <2>2 DEF Followed, SyncJob
<1>14. \A j \in DOMAIN jobs'[r] : j + 1 \in DOMAIN jobs[r] /\ jobs'[r][j] = jobs[r][j + 1]
  BY <1>1
<1>15. ASSUME NEW s \in Rank
       PROVE  /\ Drained(d, s) => Drained(d, s)'
              /\ OpFollowed(d, s) => OpFollowed(d, s)'
  <2>1. CASE s = r
    BY <1>13, <1>14, <2>1 DEF Drained, OpFollowed
  <2>2. CASE s # r
    BY <1>2, <2>2 DEF Drained, OpFollowed, Followed, SyncJob
  <2>3. QED
    BY <2>1, <2>2
<1>16. QED
  BY <1>5, <1>11, <1>12, <1>15

(* Jobs are added at the end of a FIFO. *)
LEMMA AppendEffect ==
    ASSUME IInv, NEW c \in Client, NEW r \in Rank,
           jobs' = [jobs EXCEPT ![r] = jobs[r] \o JobsOf(c)],
           UNCHANGED workerVars, r \notin SyncRanks(c)
    PROVE  /\ \A d \in Client :
                 /\ Once(d) => Once(d)'
                 /\ d # c \/ kind[c] = "async" => SyncRanks(d)' = SyncRanks(d)
                 /\ \A s \in Rank : /\ d # c /\ Drained(d, s) => Drained(d, s)'
                                    /\ OpFollowed(d, s) => OpFollowed(d, s)'
           /\ kind[c] # "async" =>
                 /\ SyncRanks(c)' = SyncRanks(c) \cup {r}
                 /\ Drained(c, r)'
                 /\ \A s \in Rank : Drained(c, s) => Drained(c, s)'
<1> DEFINE n == Len(jobs[r])
           m == Len(JobsOf(c))
<1>1. /\ n \in Nat /\ DOMAIN jobs[r] = 1..n
      /\ m \in {1, 2} /\ DOMAIN jobs'[r] = 1..(n + m)
      /\ \A i \in 1..n : jobs'[r][i] = jobs[r][i]
      /\ \A i \in (n + 1)..(n + m) : jobs'[r][i] = JobsOf(c)[i - n]
  <2>1. jobs[r] \in Seq(Job) /\ n \in Nat /\ DOMAIN jobs[r] = 1..n
    BY FifoType
  <2>2. JobsOf(c) \in Seq(Job) /\ m \in {1, 2}
    BY JobsShape, JobsOfType DEF IInv
  <2>3. jobs'[r] = jobs[r] \o JobsOf(c)
    BY DEF IInv, TypeOK
  <2>4. /\ jobs'[r] \in Seq(Job) /\ Len(jobs'[r]) = n + m
        /\ \A i \in 1..(n + m) : jobs'[r][i] = IF i <= n THEN jobs[r][i] ELSE JobsOf(c)[i - n]
    BY <2>1, <2>2, <2>3, ConcatProperties
  <2> HIDE DEF n, m
  <2>5. DOMAIN jobs'[r] = 1..(n + m)
    BY <2>4
  <2>6. \A i \in 1..n : i \in 1..(n + m) /\ i <= n
    BY <2>1, <2>2
  <2>7. \A i \in (n + 1)..(n + m) : i \in 1..(n + m) /\ ~(i <= n)
    BY <2>1, <2>2
  <2>8. \A i \in 1..n : jobs'[r][i] = jobs[r][i]
    BY <2>4, <2>6
  <2>9. \A i \in (n + 1)..(n + m) : jobs'[r][i] = JobsOf(c)[i - n]
    BY <2>4, <2>7
  <2>10. QED
    BY <2>1, <2>2, <2>5, <2>8, <2>9
<1>2. \A s \in Rank \ {r} : jobs'[s] = jobs[s]
  BY DEF IInv, TypeOK
<1>3. \A s \in Rank : HeadCounted(s)' = HeadCounted(s)
  BY DEF HeadCounted, workerVars
<1>4. n = 0 => ~HeadCounted(r)
  BY <1>1, FifoType DEF HeadCounted, IInv, ServeInv, ServeOf
<1>5. \A d \in Client, s \in Rank \ {r}, i \in Nat : Pending(d, s, i)' = Pending(d, s, i)
  BY <1>2, <1>3 DEF Pending, SyncJob
<1>6. \A i \in (n + 1)..(n + m) :
         /\ jobs'[r][i].owner = c
         /\ jobs'[r][i] = SyncJob(c) <=> i = n + m /\ kind[c] # "async"
         /\ jobs'[r][i].type # "sync" <=> i # n + m \/ kind[c] = "async"
         /\ jobs'[r][i] = [type |-> "op", owner |-> c] => i # n + m /\ kind[c] # "async"
  <2>1. SUFFICES ASSUME NEW i \in (n + 1)..(n + m)
                 PROVE  /\ jobs'[r][i].owner = c
                        /\ jobs'[r][i] = SyncJob(c) <=> i = n + m /\ kind[c] # "async"
                        /\ jobs'[r][i].type # "sync" <=> i # n + m \/ kind[c] = "async"
                        /\ jobs'[r][i] = [type |-> "op", owner |-> c]
                              => i # n + m /\ kind[c] # "async"
    OBVIOUS
  <2>2. jobs'[r][i] = JobsOf(c)[i - n] /\ i - n \in {1, 2} /\ (i = n + m <=> i - n = m)
    BY <1>1
  <2>3. i - n \in 1..m
    BY <1>1
  <2>4. CASE kind[c] = "async"
    <3>1. m = 1 /\ JobsOf(c)[1] = [type |-> "async", owner |-> c]
      BY <2>4, JobsShape
    <3>2. i - n = 1 /\ i = n + m
      BY <1>1, <2>2, <2>3, <3>1
    <3>3. jobs'[r][i] = [type |-> "async", owner |-> c]
      BY <2>2, <3>1, <3>2
    <3>4. QED
      BY <2>4, <3>2, <3>3 DEF SyncJob
  <2>5. CASE kind[c] = "dpu_sync"
    <3>1. m = 1 /\ JobsOf(c)[1] = SyncJob(c)
      BY <2>5, JobsShape
    <3>2. i - n = 1 /\ i = n + m
      BY <1>1, <2>2, <2>3, <3>1
    <3>3. jobs'[r][i] = SyncJob(c)
      BY <2>2, <3>1, <3>2
    <3>4. QED
      BY <2>5, <3>2, <3>3 DEF SyncJob
  <2>6. CASE kind[c] = "sync"
    <3>1. m = 2 /\ JobsOf(c)[1] = [type |-> "op", owner |-> c] /\ JobsOf(c)[2] = SyncJob(c)
      BY <2>6, JobsShape
    <3>2. \/ i - n = 1 /\ i # n + m
          \/ i - n = 2 /\ i = n + m
      BY <1>1, <2>2, <2>3, <3>1
    <3>3. \/ i # n + m /\ jobs'[r][i] = [type |-> "op", owner |-> c]
          \/ i = n + m /\ jobs'[r][i] = SyncJob(c)
      BY <2>2, <3>1, <3>2
    <3>4. QED
      BY <2>6, <3>3 DEF SyncJob
  <2>7. QED
    BY <2>4, <2>5, <2>6, JobsShape
<1> HIDE DEF n, m
<1>7. \A d \in Client, i \in Nat :
         Pending(d, r, i)' <=> Pending(d, r, i) \/ (d = c /\ i = n + m /\ kind[c] # "async")
  <2>1. SUFFICES ASSUME NEW d \in Client, NEW i \in Nat
                 PROVE  Pending(d, r, i)' <=>
                           Pending(d, r, i) \/ (d = c /\ i = n + m /\ kind[c] # "async")
    OBVIOUS
  <2>2. CASE i \in 1..n
    <3>1. i \in DOMAIN jobs[r] /\ i \in DOMAIN jobs'[r] /\ jobs'[r][i] = jobs[r][i] /\ i # n + m
      BY <1>1, <2>2
    <3>2. QED
      BY <1>3, <3>1 DEF Pending, SyncJob
  <2>3. CASE i \in (n + 1)..(n + m)
    <3>1. i \notin DOMAIN jobs[r] /\ i \in DOMAIN jobs'[r] /\ (i = 1 => n = 0)
      BY <1>1, <2>3
    <3>2. jobs'[r][i] = SyncJob(d) <=> d = c /\ i = n + m /\ kind[c] # "async"
      <4>1. SyncJob(d).owner = d /\ jobs'[r][i].owner = c
        BY <1>6, <2>3 DEF SyncJob
      <4>2. d = c => (jobs'[r][i] = SyncJob(d) <=> i = n + m /\ kind[c] # "async")
        BY <1>6, <2>3
      <4>3. QED
        BY <4>1, <4>2
    <3>3. QED
      BY <1>3, <1>4, <3>1, <3>2 DEF Pending, SyncJob
  <2>4. CASE i \notin 1..(n + m)
    BY <1>1, <2>4 DEF Pending
  <2>5. QED
    BY <1>1, <2>2, <2>3, <2>4
<1>8. \A d \in Client, s \in Rank : s \in SyncRanks(d) <=> \E i \in Nat : Pending(d, s, i)
  BY SyncRanksPending
<1>9. \A d \in Client, s \in Rank : s \in SyncRanks(d)' <=> \E i \in Nat : Pending(d, s, i)'
  <2>1. \A s \in Rank : DOMAIN jobs'[s] \subseteq Nat
    BY <1>1, <1>2, FifoType
  <2>2. QED
    BY <2>1 DEF SyncRanks, Pending, SyncJob
<1>10. \A d \in Client : SyncRanks(d) \subseteq Rank /\ SyncRanks(d)' \subseteq Rank
  BY DEF SyncRanks
<1>11. ASSUME NEW d \in Client, d # c \/ kind[c] = "async"
       PROVE  SyncRanks(d)' = SyncRanks(d)
  <2>1. \A s \in Rank, i \in Nat : Pending(d, s, i)' <=> Pending(d, s, i)
    BY <1>5, <1>7, <1>11
  <2>2. \A s \in Rank : s \in SyncRanks(d)' <=> s \in SyncRanks(d)
    BY <1>8, <1>9, <2>1
  <2>3. QED
    BY <1>10, <2>2
<1>12. ASSUME kind[c] # "async"
       PROVE  SyncRanks(c)' = SyncRanks(c) \cup {r}
  <2>1. n + m \in Nat
    BY <1>1
  <2>2. r \in SyncRanks(c)'
    BY <1>7, <1>9, <1>12, <2>1
  <2>3. \A s \in Rank \ {r} : s \in SyncRanks(c)' <=> s \in SyncRanks(c)
    BY <1>5, <1>8, <1>9
  <2>4. \A s \in Rank : s \in SyncRanks(c)' <=> s \in SyncRanks(c) \cup {r}
    BY <2>2, <2>3
  <2>5. SyncRanks(c) \cup {r} \subseteq Rank
    BY <1>10
  <2>6. QED
    BY <1>10, <2>4, <2>5
<1>13. ASSUME NEW d \in Client, Once(d)
       PROVE  Once(d)'
  <2>1. SUFFICES ASSUME NEW s \in Rank, NEW i \in Nat, NEW j \in Nat,
                        Pending(d, s, i)', Pending(d, s, j)'
                 PROVE  i = j
    BY DEF Once
  <2>2. CASE s = r /\ d = c
    <3>1. \A k \in Nat : ~Pending(c, r, k)
      BY <1>8
    <3>2. QED
      BY <1>7, <2>1, <2>2, <3>1
  <2>3. CASE s = r /\ d # c
    BY <1>7, <1>13, <2>1, <2>3 DEF Once
  <2>4. CASE s # r
    BY <1>5, <1>13, <2>1, <2>4 DEF Once
  <2>5. QED
    BY <2>2, <2>3, <2>4
<1>14. ASSUME NEW d \in Client, NEW s \in Rank, NEW j \in DOMAIN jobs[s], Followed(d, s, j)
       PROVE  Followed(d, s, j)'
  BY <1>1, <1>2, <1>14 DEF Followed, SyncJob
<1>15. ASSUME kind[c] # "async", NEW j \in DOMAIN jobs'[r], j # n + m
       PROVE  Followed(c, r, j)'
  <2>1. n + m \in DOMAIN jobs'[r] /\ n + m > j
    BY <1>1, <1>15
  <2>2. n + m \in (n + 1)..(n + m)
    BY <1>1
  <2>3. jobs'[r][n + m] = SyncJob(c)
    BY <1>6, <1>15, <2>2
  <2>4. QED
    BY <2>1, <2>3 DEF Followed, SyncJob
<1>16. \A j \in DOMAIN jobs'[r] : j \in DOMAIN jobs[r] \/ j \in (n + 1)..(n + m)
  BY <1>1
<1>17. ASSUME NEW d \in Client, NEW s \in Rank
       PROVE  OpFollowed(d, s) => OpFollowed(d, s)'
  <2>1. CASE s = r
    <3>1. SUFFICES ASSUME OpFollowed(d, r), NEW j \in DOMAIN jobs'[r],
                          jobs'[r][j] = [type |-> "op", owner |-> d]
                   PROVE  Followed(d, r, j)'
      BY <2>1 DEF OpFollowed
    <3>2. CASE j \in DOMAIN jobs[r]
      BY <1>1, <1>14, <3>1, <3>2 DEF OpFollowed
    <3>3. CASE j \in (n + 1)..(n + m)
      <4>1. d = c /\ j # n + m /\ kind[c] # "async"
        BY <1>6, <3>1, <3>3
      <4>2. QED
        BY <1>15, <4>1
    <3>4. QED
      BY <1>16, <3>2, <3>3
  <2>2. CASE s # r
    BY <1>2, <1>14, <2>2 DEF OpFollowed
  <2>3. QED
    BY <2>1, <2>2
<1>18. ASSUME NEW d \in Client, d # c, NEW s \in Rank, Drained(d, s)
       PROVE  Drained(d, s)'
  <2>1. CASE s = r
    <3>1. SUFFICES ASSUME NEW j \in DOMAIN jobs'[r], jobs'[r][j].owner = d,
                          jobs'[r][j].type # "sync"
                   PROVE  Followed(d, r, j)'
      BY <2>1 DEF Drained
    <3>2. j \in DOMAIN jobs[r]
      BY <1>6, <1>16, <1>18, <3>1
    <3>3. QED
      BY <1>1, <1>14, <1>18, <2>1, <3>1, <3>2 DEF Drained
  <2>2. CASE s # r
    BY <1>2, <1>14, <1>18, <2>2 DEF Drained
  <2>3. QED
    BY <2>1, <2>2
<1>19. ASSUME kind[c] # "async"
       PROVE  Drained(c, r)' /\ \A s \in Rank : Drained(c, s) => Drained(c, s)'
  <2>1. Drained(c, r)'
    <3>1. SUFFICES ASSUME NEW j \in DOMAIN jobs'[r], jobs'[r][j].type # "sync"
                   PROVE  Followed(c, r, j)'
      BY DEF Drained
    <3>2. j # n + m
      <4>1. n + m \in (n + 1)..(n + m)
        BY <1>1
      <4>2. QED
        BY <1>6, <1>19, <3>1, <4>1
    <3>3. QED
      BY <1>15, <1>19, <3>2
  <2>2. \A s \in Rank \ {r} : Drained(c, s) => Drained(c, s)'
    BY <1>2, <1>14 DEF Drained
  <2>3. QED
    BY <2>1, <2>2
<1>20. QED
  BY <1>11, <1>12, <1>13, <1>17, <1>18, <1>19

-----------------------------------------------------------------------------

(* What the two invariants say of a client changes with its call only. *)
Private(d) == <<pc[d], kind[d], set[d], at[d], result[d]>>
Shared(d) == <<left[d], status[d], failed[d]>>

(* A worker that clears a FIFO with a SYNC job of d to run. *)
Clearing(v, d) == wpc[v] \in {"clear", "clearNotify"} /\ wrank[v] \in SyncRanks(d)

(* The FIFOs lose nothing that the operations of d wait for. *)
FifoKept(d) ==
    /\ Once(d) => Once(d)'
    /\ \A s \in Rank : /\ Drained(d, s) => Drained(d, s)'
                       /\ OpFollowed(d, s) => OpFollowed(d, s)'

(* A step that does not touch d keeps the invariants of d. *)
LEMMA Untouched ==
    ASSUME IInv, NEW d \in Client, SyncOf(d), FifoOf(d), FifoKept(d),
           SyncRanks(d)' = SyncRanks(d),
           UNCHANGED Private(d), UNCHANGED Shared(d),
           \A v \in Worker : /\ Clearing(v, d) => Clearing(v, d)'
    PROVE  SyncOf(d)' /\ FifoOf(d)'
<1>1. /\ pc'[d] = pc[d] /\ kind'[d] = kind[d] /\ set'[d] = set[d] /\ at'[d] = at[d]
      /\ result'[d] = result[d] /\ left'[d] = left[d]
      /\ status'[d] = status[d] /\ failed'[d] = failed[d]
  BY DEF Private, Shared
<1>2. set[d] \in Seq(Rank)
  BY DEF IInv, TypeOK
<1>3. PendingOf(d)'
  BY <1>1 DEF SyncOf, PendingOf, FifoKept, Syncing, Adding
<1>4. CountOf(d)'
  BY <1>1 DEF SyncOf, CountOf, Adding
<1>6. DrainOf(d)'
  <2>1. \A i \in DOMAIN set[d] : set[d][i] \in Rank
    BY <1>2
  <2>2. QED
    BY <1>1, <2>1 DEF FifoOf, DrainOf, FifoKept, Adding
<1>7. FailOf(d)'
  BY <1>1 DEF FifoOf, FailOf, Clearing, Syncing
<1>8. QED
  BY <1>3, <1>4, <1>6, <1>7 DEF SyncOf, FifoOf

(* The steps of a client change no variable of the others. *)
LEMMA ClientFrame ==
    ASSUME IInv, NEW c \in Client, Call(c) \/ InCall(c)
    PROVE  /\ UNCHANGED workerVars
           /\ \A d \in Client \ {c} : UNCHANGED Private(d) /\ UNCHANGED Shared(d)
<1> USE DEF IInv, TypeOK, Private, Shared, rankVars, queueVars, clientVars, syncVars, workerVars
<1>1. CASE Call(c)
  BY <1>1 DEF Call, InitSyncJob
<1>2. CASE GetJobs(c)
  BY <1>2 DEF GetJobs, Step
<1>3. CASE WaitForSlot(c)
  BY <1>3 DEF WaitForSlot
<1>4. CASE GetJobsFails(c)
  BY <1>4 DEF GetJobsFails
<1>5. CASE UngetJobs(c)
  BY <1>5 DEF UngetJobs, Step
<1>6. CASE GetJobsReturns(c)
  BY <1>6 DEF GetJobsReturns, Return
<1>7. CASE AddJobs(c)
  BY <1>7 DEF AddJobs, Step
<1>8. CASE AddJobsLocksRank(c)
  BY <1>8 DEF AddJobsLocksRank
<1>9. CASE AddFirstJobs(c)
  BY <1>9 DEF AddFirstJobs, Step
<1>10. CASE AddJobsDone(c)
  BY <1>10 DEF AddJobsDone, Return
<1>11. CASE WaitSyncJob(c)
  BY <1>11 DEF WaitSyncJob, Return
<1>12. CASE ResetJobError(c)
  BY <1>12 DEF ResetJobError, Return, Step
<1>13. QED
  BY <1>1, <1>2, <1>3, <1>4, <1>5, <1>6, <1>7, <1>8, <1>9, <1>10, <1>11, <1>12 DEF InCall

(* A step of a client that adds no job. *)
LEMMA NoJobAdded ==
    ASSUME IInv, SyncInv, FifoInv, NEW c \in Client, jobs' = jobs,
           Call(c) \/ InCall(c)
    PROVE  /\ \A d \in Client : /\ SyncRanks(d)' = SyncRanks(d) /\ FifoKept(d)
                                 /\ \A v \in Worker : /\ Clearing(v, d)' = Clearing(v, d)
           /\ \A d \in Client \ {c} : SyncOf(d)' /\ FifoOf(d)'
<1>1. wpc' = wpc /\ wrank' = wrank
  BY ClientFrame DEF workerVars
<1>2. \A r \in Rank : HeadCounted(r)' = HeadCounted(r)
  BY <1>1 DEF HeadCounted
<1>3. ASSUME NEW d \in Client
      PROVE  /\ SyncRanks(d)' = SyncRanks(d) /\ FifoKept(d)
             /\ \A v \in Worker : /\ Clearing(v, d)' = Clearing(v, d)
  <2>1. SyncRanks(d)' = SyncRanks(d) /\ (Once(d) => Once(d)')
    BY <1>2, StillFifo
  <2>2. \A s \in Rank : /\ Drained(d, s) => Drained(d, s)'
                        /\ OpFollowed(d, s) => OpFollowed(d, s)'
    BY DEF Drained, OpFollowed, Followed
  <2>3. \A v \in Worker : /\ Clearing(v, d)' = Clearing(v, d)
    BY <1>1, <2>1 DEF Clearing, CurJob
  <2>4. QED
    BY <2>1, <2>2, <2>3 DEF FifoKept
<1>4. ASSUME NEW d \in Client \ {c}
      PROVE  SyncOf(d)' /\ FifoOf(d)'
  <2>1. UNCHANGED Private(d) /\ UNCHANGED Shared(d)
    BY ClientFrame
  <2>2. SyncOf(d) /\ FifoOf(d)
    BY DEF SyncInv, FifoInv
  <2>3. QED
    BY <1>3, <2>1, <2>2, Untouched
<1>5. QED
  BY <1>3, <1>4

(* A client that adds no jobs and waits for none has no SYNC job. *)
LEMMA NoSyncJob ==
    ASSUME IInv, SyncInv, NEW c \in Client, pc[c] \notin Syncing \/ kind[c] = "async"
    PROVE  SyncRanks(c) = {}
BY DEF SyncInv, SyncOf, PendingOf

(* The application calls the API. *)
LEMMA CallSync ==
    ASSUME IInv, SyncInv, FifoInv, NEW c \in Client, Call(c)
    PROVE  SyncInv' /\ FifoInv'
<1>1. jobs' = jobs /\ pc[c] = "idle"
  BY DEF Call, rankVars
<1>2. /\ \A d \in Client : /\ SyncRanks(d)' = SyncRanks(d) /\ FifoKept(d)
      /\ \A d \in Client \ {c} : SyncOf(d)' /\ FifoOf(d)'
  BY <1>1, NoJobAdded
<1>3. SyncRanks(c)' = {} /\ SyncRanks(c) = {}
  BY <1>1, <1>2, NoSyncJob DEF Syncing
<1>4. PICK k \in CallKinds, s \in DpuSets[c] :
         /\ kind' = [kind EXCEPT ![c] = k]
         /\ set' = [set EXCEPT ![c] = s]
         /\ IF k = "async" THEN UNCHANGED syncVars ELSE InitSyncJob(c, Len(s))
  BY DEF Call
<1>5. kind'[c] = k /\ set'[c] = s /\ pc'[c] = "get" /\ failed'[c] = failed[c]
  BY <1>4 DEF Call, IInv, TypeOK
<1>6. \A i, j \in DOMAIN s : s[i] = s[j] => i = j
  BY DpuSetsAssumption
<1>7. k # "async" => left'[c] = Len(s)
  BY <1>4 DEF InitSyncJob, IInv, TypeOK
<1>8. "op" \notin failed[c]
  BY <1>1 DEF FifoInv, FifoOf, FailOf, Syncing
<1>9. Once(c)'
  BY <1>2 DEF FifoKept, SyncInv, SyncOf, PendingOf
<1>10. PendingOf(c)'
  BY <1>3, <1>5, <1>6, <1>9, FS_EmptySet DEF PendingOf
<1>11. CountOf(c)'
  BY <1>5, <1>7 DEF CountOf, Adding
<1>13. DrainOf(c)'
  BY <1>2, <1>5 DEF DrainOf, FifoKept, Adding, FifoInv, FifoOf
<1>14. FailOf(c)'
  BY <1>5, <1>8 DEF FailOf
<1>15. SyncOf(c)' /\ FifoOf(c)'
  BY <1>10, <1>11, <1>13, <1>14 DEF SyncOf, FifoOf
<1>16. QED
  BY <1>2, <1>15 DEF SyncInv, FifoInv

(* dpu_thread_job_get_jobs. *)
LEMMA GetSync ==
    ASSUME IInv, SyncInv, FifoInv, NEW c \in Client,
           \/ GetJobs(c) \/ WaitForSlot(c) \/ GetJobsFails(c) \/ UngetJobs(c)
           \/ GetJobsReturns(c)
    PROVE  SyncInv' /\ FifoInv'
<1>1. jobs' = jobs /\ pc[c] \in {"get", "unget"}
  BY DEF GetJobs, WaitForSlot, GetJobsFails, UngetJobs, GetJobsReturns
<1>2. InCall(c)
  BY DEF InCall
<1>3. /\ \A d \in Client : /\ SyncRanks(d)' = SyncRanks(d) /\ FifoKept(d)
      /\ \A d \in Client \ {c} : SyncOf(d)' /\ FifoOf(d)'
  BY <1>1, <1>2, NoJobAdded
<1>4. SyncRanks(c)' = {} /\ SyncRanks(c) = {}
  BY <1>1, <1>3, NoSyncJob DEF Syncing
<1>5. Cardinality({}) = 0 /\ IsFiniteSet({}) /\ Len(set[c]) \in Nat
  BY FS_EmptySet DEF IInv, TypeOK
<1>6. /\ kind'[c] = kind[c] /\ set'[c] = set[c] /\ left'[c] = left[c]
      /\ failed'[c] \subseteq failed[c]
      /\ \/ pc'[c] = "get" /\ pc[c] = "get"
         \/ pc'[c] = "add" /\ pc[c] = "get" /\ at'[c] = 1
         \/ pc'[c] = "unget"
         \/ pc'[c] = "idle" /\ result'[c] = "JOBERR"
  <2> USE DEF IInv, TypeOK, syncVars
  <2>1. CASE GetJobs(c)
    BY <2>1 DEF GetJobs
  <2>2. CASE WaitForSlot(c)
    BY <2>2 DEF WaitForSlot
  <2>3. CASE GetJobsFails(c)
    BY <2>3 DEF GetJobsFails
  <2>4. CASE UngetJobs(c)
    BY <2>4 DEF UngetJobs
  <2>5. CASE GetJobsReturns(c)
    BY <2>5 DEF GetJobsReturns, Return
  <2>6. QED
    BY <2>1, <2>2, <2>3, <2>4, <2>5
<1>7. "op" \notin failed[c]
  BY <1>1 DEF FifoInv, FifoOf, FailOf, Syncing
<1>8. PendingOf(c) /\ CountOf(c) /\ DrainOf(c)
  BY DEF SyncInv, SyncOf, FifoInv, FifoOf
<1>9. PendingOf(c)'
  BY <1>3, <1>4, <1>5, <1>6, <1>8 DEF PendingOf, FifoKept
<1>10. CountOf(c)'
  BY <1>4, <1>5, <1>6, <1>8 DEF CountOf, Adding
<1>12. DrainOf(c)'
  <2>1. \A r \in Rank : OpFollowed(c, r)'
    BY <1>3, <1>8 DEF DrainOf, FifoKept
  <2>2. \A i \in DOMAIN set[c] : i \in Nat /\ i > 0
    BY DEF IInv, TypeOK
  <2>3. QED
    BY <1>6, <2>1, <2>2 DEF DrainOf, Adding
<1>13. FailOf(c)'
  BY <1>6, <1>7 DEF FailOf
<1>14. SyncOf(c)' /\ FifoOf(c)'
  BY <1>9, <1>10, <1>12, <1>13 DEF SyncOf, FifoOf
<1>15. QED
  BY <1>3, <1>14 DEF SyncInv, FifoInv

(* dpu_thread_job_add_jobs, on its way to the queue and at its end. *)
LEMMA EndAddSync ==
    ASSUME IInv, SyncInv, FifoInv, NEW c \in Client,
           AddJobsLocksRank(c) \/ AddJobsDone(c)
    PROVE  SyncInv' /\ FifoInv'
<1>1. jobs' = jobs /\ pc[c] = "add"
  BY DEF AddJobsLocksRank, AddJobsDone, rankVars
<1>2. InCall(c)
  BY DEF InCall
<1>3. /\ \A d \in Client : /\ SyncRanks(d)' = SyncRanks(d) /\ FifoKept(d)
                           /\ \A v \in Worker : /\ Clearing(v, d)' = Clearing(v, d)
      /\ \A d \in Client \ {c} : SyncOf(d)' /\ FifoOf(d)'
  BY <1>1, <1>2, NoJobAdded
<1>4. /\ kind'[c] = kind[c] /\ set'[c] = set[c] /\ left'[c] = left[c]
      /\ status'[c] = status[c]
      /\ failed'[c] = failed[c]
      /\ \/ pc'[c] = "addq" /\ at'[c] = at[c]
         \/ pc'[c] = "wait" /\ at[c] = Len(set[c]) + 1 /\ kind[c] # "async"
         \/ pc'[c] = "idle" /\ kind[c] = "async"
  <2> USE DEF IInv, TypeOK, syncVars
  <2>1. CASE AddJobsLocksRank(c)
    BY <2>1 DEF AddJobsLocksRank
  <2>2. CASE AddJobsDone(c)
    <3>1. at[c] = Len(set[c]) + 1
      <4>1. at[c] \in 1..(Len(set[c]) + 1) /\ at[c] > Len(set[c]) /\ Len(set[c]) \in Nat
        BY <2>2 DEF AddJobsDone, IndexInv, IndexOf
      <4>2. QED
        BY <4>1
    <3>2. CASE kind[c] = "async"
      BY <2>2, <3>2 DEF AddJobsDone, Return
    <3>3. CASE kind[c] # "async"
      BY <2>2, <3>1, <3>3 DEF AddJobsDone
    <3>4. QED
      BY <3>2, <3>3
  <2>3. QED
    BY <2>1, <2>2
<1>5. kind[c] = "async" => SyncRanks(c) = {}
  BY NoSyncJob
<1>6. PendingOf(c) /\ CountOf(c) /\ DrainOf(c) /\ FailOf(c)
  BY DEF SyncInv, SyncOf, FifoInv, FifoOf
<1>7. Len(set[c]) \in Nat /\ DOMAIN set[c] = 1..Len(set[c]) /\ \A i \in DOMAIN set[c] : set[c][i] \in Rank
  BY DEF IInv, TypeOK
<1>8. PendingOf(c)'
  BY <1>1, <1>3, <1>4, <1>5, <1>6 DEF PendingOf, FifoKept, Adding, Syncing
<1>9. CountOf(c)'
  <2>1. Cardinality(SyncRanks(c)) \in Nat
    BY <1>6, FS_CardinalityType DEF PendingOf
  <2>2. QED
    BY <1>1, <1>3, <1>4, <1>6, <1>7, <2>1 DEF CountOf, Adding
<1>11. DrainOf(c)'
  <2>1. \A r \in Rank : OpFollowed(c, r)'
    BY <1>3, <1>6 DEF DrainOf, FifoKept
  <2>2. ASSUME kind[c] # "async", NEW i \in DOMAIN set[c], i < at[c]
        PROVE  Drained(c, set[c][i])'
    BY <1>1, <1>3, <1>4, <1>6, <1>7, <2>2 DEF DrainOf, FifoKept, Adding
  <2>3. QED
    BY <1>4, <1>7, <2>1, <2>2 DEF DrainOf, Adding
<1>12. FailOf(c)'
  BY <1>1, <1>3, <1>4, <1>6 DEF FailOf, Clearing, Syncing
<1>13. SyncOf(c)' /\ FifoOf(c)'
  BY <1>8, <1>9, <1>11, <1>12 DEF SyncOf, FifoOf
<1>14. QED
  BY <1>3, <1>13 DEF SyncInv, FifoInv

(* The end of a synchronous call, signalled or not. *)
LEMMA WaitSync ==
    ASSUME IInv, SyncInv, FifoInv, NEW c \in Client,
           (WaitSyncJob(c) /\ left[c] = 0) \/ ResetJobError(c)
    PROVE  SyncInv' /\ FifoInv'
<1>1. jobs' = jobs /\ pc[c] \in {"wait", "reset"}
  BY DEF WaitSyncJob, ResetJobError, rankVars
<1>2. InCall(c)
  BY DEF InCall
<1>3. /\ \A d \in Client : /\ SyncRanks(d)' = SyncRanks(d) /\ FifoKept(d)
      /\ \A d \in Client \ {c} : SyncOf(d)' /\ FifoOf(d)'
  BY <1>1, <1>2, NoJobAdded
<1>4. PendingOf(c) /\ CountOf(c) /\ DrainOf(c) /\ FailOf(c)
  BY DEF SyncInv, SyncOf, FifoInv, FifoOf
<1>5. kind[c] # "async"
  BY <1>1, <1>4 DEF CountOf, FailOf
<1>6. SyncRanks(c) = {}
  <2>1. CASE WaitSyncJob(c) /\ left[c] = 0
    <3>1. pc[c] = "wait" /\ left[c] = 0
      BY <2>1 DEF WaitSyncJob
    <3>2. Cardinality(SyncRanks(c)) = 0 /\ IsFiniteSet(SyncRanks(c))
      BY <1>4, <3>1 DEF CountOf, PendingOf
    <3>3. QED
      BY <3>2, FS_EmptySet
  <2>2. CASE ResetJobError(c)
    BY <2>2, NoSyncJob DEF ResetJobError, Syncing
  <2>3. QED
    BY <2>1, <2>2
<1>7. /\ kind'[c] = kind[c] /\ set'[c] = set[c] /\ status'[c] = status[c]
      /\ \/ pc'[c] = "idle" /\ result'[c] \in Status /\ "op" \notin failed'[c]
         \/ pc'[c] = "reset" /\ status[c] = "ERR" /\ failed'[c] = failed[c]
  <2>1. CASE WaitSyncJob(c) /\ left[c] = 0
    <3>1. pc[c] = "wait" /\ left[c] = 0 /\ status[c] \in {"OK", "ERR"}
      BY <1>4, <2>1 DEF WaitSyncJob, CountOf, IInv, TypeOK, Status
    <3>2. CASE status[c] = "OK"
      <4>1. "op" \notin failed[c]
        BY <1>4, <1>6, <3>2 DEF FailOf
      <4>2. QED
        BY <2>1, <3>1, <3>2, <4>1 DEF WaitSyncJob, MustReset, Return, IInv, TypeOK, Status
    <3>3. CASE status[c] = "ERR"
      BY <2>1, <3>1, <3>3 DEF WaitSyncJob, MustReset, IInv, TypeOK
    <3>4. QED
      BY <3>1, <3>2, <3>3
  <2>2. CASE ResetJobError(c)
    <3>1. pc[c] = "reset" /\ status[c] = "ERR"
      BY <1>4, <2>2 DEF ResetJobError, FailOf
    <3>2. CASE LastReset(c)
      BY <2>2, <3>1, <3>2 DEF ResetJobError, Return, IInv, TypeOK, Status, syncVars
    <3>3. CASE ~LastReset(c)
      BY <2>2, <3>1, <3>3 DEF ResetJobError, IInv, TypeOK, syncVars
    <3>4. QED
      BY <3>2, <3>3
  <2>3. QED
    BY <2>1, <2>2
<1>8. PendingOf(c)'
  BY <1>3, <1>4, <1>6, <1>7 DEF PendingOf, FifoKept, Adding
<1>9. CountOf(c)'
  BY <1>7 DEF CountOf, Adding
<1>11. DrainOf(c)'
  <2>1. \A r \in Rank : OpFollowed(c, r)'
    BY <1>3, <1>4 DEF DrainOf, FifoKept
  <2>2. \A i \in DOMAIN set[c] : set[c][i] \in Rank
    BY DEF IInv, TypeOK
  <2>3. \A i \in DOMAIN set[c] : Drained(c, set[c][i])'
    BY <1>1, <1>3, <1>4, <1>5, <1>7, <2>2 DEF DrainOf, FifoKept
  <2>4. QED
    BY <1>7, <2>1, <2>3 DEF DrainOf
<1>12. FailOf(c)'
  BY <1>1, <1>4, <1>5, <1>7 DEF FailOf, Syncing
<1>13. SyncOf(c)' /\ FifoOf(c)'
  BY <1>8, <1>9, <1>11, <1>12 DEF SyncOf, FifoOf
<1>14. QED
  BY <1>3, <1>13 DEF SyncInv, FifoInv

(* dpu_thread_job_add_jobs puts the jobs of the call in a FIFO. *)
LEMMA AddSync ==
    ASSUME IInv, SyncInv, FifoInv, NEW c \in Client, AddJobs(c) \/ AddFirstJobs(c)
    PROVE  SyncInv' /\ FifoInv'
<1>1. InCall(c)
  BY DEF InCall
<1>2. CurRank(c) \in Rank
  BY CurRankType DEF AddJobs, AddFirstJobs
<1>3. PICK r \in Rank : r = CurRank(c)
  BY <1>2
<1>4. /\ jobs' = [jobs EXCEPT ![r] = jobs[r] \o JobsOf(c)]
      /\ pc[c] \in Adding /\ pc'[c] = "add" /\ at'[c] = at[c] + 1
      /\ kind'[c] = kind[c] /\ set'[c] = set[c] /\ left'[c] = left[c]
      /\ status'[c] = status[c] /\ failed'[c] = failed[c]
  <2> USE DEF IInv, TypeOK, syncVars, Adding, Step
  <2>1. CASE AddJobs(c)
    BY <1>3, <2>1 DEF AddJobs
  <2>2. CASE AddFirstJobs(c)
    BY <1>3, <2>2 DEF AddFirstJobs
  <2>3. QED
    BY <2>1, <2>2
<1>5. UNCHANGED workerVars /\ wpc' = wpc /\ wrank' = wrank
  BY <1>1, ClientFrame DEF workerVars
<1>6. PendingOf(c) /\ CountOf(c) /\ DrainOf(c) /\ FailOf(c)
  BY DEF SyncInv, SyncOf, FifoInv, FifoOf
<1>7. /\ Len(set[c]) \in Nat /\ DOMAIN set[c] = 1..Len(set[c]) /\ at[c] \in Nat
      /\ at[c] \in 1..Len(set[c]) /\ r = set[c][at[c]]
      /\ \A i \in DOMAIN set[c] : set[c][i] \in Rank
  <2>1. set[c] \in Seq(Rank) /\ at[c] \in Nat
    BY DEF IInv, TypeOK
  <2>2. pc[c] = "addq" \/ (pc[c] = "add" /\ at[c] <= Len(set[c]))
    BY DEF AddJobs, AddFirstJobs
  <2>3. at[c] \in 1..Len(set[c])
    BY <2>1, <2>2 DEF IInv, IndexInv, IndexOf
  <2>4. QED
    BY <1>3, <2>1, <2>3 DEF CurRank
<1>8. r \notin SyncRanks(c)
  <2>1. SUFFICES ASSUME r \in SyncRanks(c) PROVE FALSE
    OBVIOUS
  <2>2. PICK i \in 1..(at[c] - 1) : set[c][i] = r
    BY <1>4, <1>6, <2>1 DEF PendingOf
  <2>3. i \in DOMAIN set[c] /\ at[c] \in DOMAIN set[c] /\ i # at[c]
    BY <1>7
  <2>4. QED
    BY <1>6, <1>7, <2>2, <2>3 DEF PendingOf
<1>9. /\ \A d \in Client :
            /\ Once(d) => Once(d)'
            /\ d # c \/ kind[c] = "async" => SyncRanks(d)' = SyncRanks(d)
            /\ \A s \in Rank : /\ d # c /\ Drained(d, s) => Drained(d, s)'
                               /\ OpFollowed(d, s) => OpFollowed(d, s)'
      /\ kind[c] # "async" =>
            /\ SyncRanks(c)' = SyncRanks(c) \cup {r}
            /\ Drained(c, r)'
            /\ \A s \in Rank : Drained(c, s) => Drained(c, s)'
  BY <1>4, <1>5, <1>8, AppendEffect
<1>11. ASSUME NEW d \in Client \ {c}
       PROVE  SyncOf(d)' /\ FifoOf(d)'
  <2>1. UNCHANGED Private(d) /\ UNCHANGED Shared(d)
    BY <1>1, ClientFrame
  <2>2. SyncOf(d) /\ FifoOf(d)
    BY DEF SyncInv, FifoInv
  <2>3. SyncRanks(d)' = SyncRanks(d) /\ FifoKept(d)
    BY <1>9 DEF FifoKept
  <2>4. \A v \in Worker : Clearing(v, d) => Clearing(v, d)'
    BY <1>5, <2>3 DEF Clearing
  <2>5. QED
    BY <2>1, <2>2, <2>3, <2>4, Untouched
<1>12. SyncRanks(c) \subseteq SyncRanks(c)'
  BY <1>9
<1>13. /\ IsFiniteSet(SyncRanks(c)')
       /\ Cardinality(SyncRanks(c)) \in Nat
       /\ kind[c] # "async" => Cardinality(SyncRanks(c)') = Cardinality(SyncRanks(c)) + 1
  BY <1>6, <1>8, <1>9, FS_AddElement, FS_CardinalityType DEF PendingOf
<1>14. PendingOf(c)'
  <2>1. SyncRanks(c)' # {} => kind[c] # "async"
    BY <1>6, <1>9 DEF PendingOf
  <2>2. \A s \in SyncRanks(c)' : \E i \in 1..at[c] : set[c][i] = s
    <3>1. ASSUME NEW s \in SyncRanks(c)' PROVE \E i \in 1..at[c] : set[c][i] = s
      <4>1. CASE s = r
        BY <1>7, <4>1
      <4>2. CASE s # r
        <5>1. s \in SyncRanks(c)
          BY <1>9, <3>1, <4>2
        <5>2. PICK i \in 1..(at[c] - 1) : set[c][i] = s
          BY <1>4, <1>6, <5>1 DEF PendingOf
        <5>3. i \in 1..at[c]
          BY <1>7
        <5>4. QED
          BY <5>2, <5>3
      <4>3. QED
        BY <4>1, <4>2
    <3>2. QED
      BY <3>1
  <2>3. 1..(at'[c] - 1) = 1..at[c]
    BY <1>4, <1>7
  <2>4. \A s \in SyncRanks(c)' : \E i \in 1..(at'[c] - 1) : set'[c][i] = s
    BY <1>4, <2>2, <2>3
  <2>5. Once(c)' /\ \A i, j \in DOMAIN set'[c] : set'[c][i] = set'[c][j] => i = j
    BY <1>4, <1>6, <1>9 DEF PendingOf
  <2>6. SyncRanks(c)' # {} => kind'[c] # "async" /\ pc'[c] \in Syncing
    BY <1>4, <2>1 DEF Syncing
  <2>7. QED
    BY <1>13, <2>4, <2>5, <2>6 DEF PendingOf
<1>15. CountOf(c)'
  <2>1. kind[c] # "async" =>
           left[c] = Cardinality(SyncRanks(c)) + Len(set[c]) - at[c] + 1
    BY <1>4, <1>6 DEF CountOf, Adding
  <2>2. kind[c] # "async" =>
           left[c] = Cardinality(SyncRanks(c)') + Len(set[c]) - (at[c] + 1) + 1
    <3> DEFINE n == Cardinality(SyncRanks(c))
               m == Cardinality(SyncRanks(c)')
               k == Len(set[c])
    <3>1. kind[c] # "async" => m = n + 1 /\ left[c] = n + k - at[c] + 1
      BY <1>13, <2>1
    <3>2. n \in Nat /\ k \in Nat /\ at[c] \in Nat
      BY <1>7, <1>13
    <3> HIDE DEF n, m, k
    <3>3. kind[c] # "async" => left[c] = m + k - (at[c] + 1) + 1
      BY <3>1, <3>2
    <3>4. QED
      BY <3>3 DEF m, k
  <2>3. QED
    BY <1>4, <2>1, <2>2 DEF CountOf, Adding
<1>17. DrainOf(c)'
  <2>1. \A s \in Rank : OpFollowed(c, s)'
    BY <1>6, <1>9 DEF DrainOf
  <2>2. ASSUME kind[c] # "async", NEW i \in DOMAIN set[c], i < at[c] + 1
        PROVE  Drained(c, set[c][i])'
    <3>1. PICK s \in Rank : s = set[c][i]
      BY <1>7
    <3>2. CASE i = at[c]
      BY <1>4, <1>7, <1>9, <2>2, <3>2
    <3>3. CASE i < at[c]
      <4>1. Drained(c, s)
        BY <1>4, <1>6, <2>2, <3>1, <3>3 DEF DrainOf
      <4>2. QED
        BY <1>4, <1>9, <2>2, <3>1, <4>1
    <3>4. QED
      BY <1>7, <2>2, <3>2, <3>3
  <2>3. QED
    BY <1>4, <2>1, <2>2 DEF DrainOf, Adding
<1>18. FailOf(c)'
  BY <1>4, <1>5, <1>6, <1>12 DEF FailOf, Syncing, Adding
<1>19. SyncOf(c)' /\ FifoOf(c)'
  BY <1>14, <1>15, <1>17, <1>18 DEF SyncOf, FifoOf
<1>20. QED
  BY <1>11, <1>19 DEF SyncInv, FifoInv

-----------------------------------------------------------------------------

(* The head of the FIFO that a worker serves is its own. *)
LEMMA WorkerHead ==
    ASSUME IInv, NEW w \in Worker, wpc[w] \notin {"main", "unlock"}, wrank' = wrank,
           NEW x \in WorkerPc, wpc' = [wpc EXCEPT ![w] = x],
           \A s \in Rank \ {wrank[w]} : jobs'[s] = jobs[s]
    PROVE  /\ wrank[w] \in Rank
           /\ HeadCounted(wrank[w]) <=> wpc[w] \in {"notify", "advance", "clearNotify"}
           /\ HeadCounted(wrank[w])' <=> x \in {"notify", "advance", "clearNotify"}
           /\ \A s \in Rank \ {wrank[w]} : HeadCounted(s)' = HeadCounted(s)
           /\ \A v \in Worker \ {w} :
                 /\ wrank[v] = wrank[w] => wpc[v] = "unlock"
                 /\ wpc'[v] = wpc[v]
           /\ wpc'[w] = x
<1>1. wrank[w] \in Rank
  BY WorkerRankType
<1>2. \A v \in Worker \ {w} : wrank[v] = wrank[w] => wpc[v] = "unlock"
  BY <1>1 DEF IInv, ScheduledOnce, Serves
<1>3. wpc'[w] = x /\ \A v \in Worker \ {w} : wpc'[v] = wpc[v]
  BY DEF IInv, TypeOK
<1>4. HeadCounted(wrank[w]) <=> wpc[w] \in {"notify", "advance", "clearNotify"}
  BY <1>2 DEF HeadCounted
<1>5. HeadCounted(wrank[w])' <=> x \in {"notify", "advance", "clearNotify"}
  BY <1>2, <1>3 DEF HeadCounted
<1>6. \A s \in Rank \ {wrank[w]} : HeadCounted(s)' = HeadCounted(s)
  BY <1>3 DEF HeadCounted
<1>8. QED
  BY <1>1, <1>2, <1>3, <1>4, <1>5, <1>6

(* The SYNC job at the head of the FIFO that a worker serves. *)
LEMMA PendingHead ==
    ASSUME IInv, NEW w \in Worker, wrank[w] \in Rank, NEW d \in Client
    PROVE  /\ Pending(d, wrank[w], 1) <=>
                 jobs[wrank[w]] # <<>> /\ CurJob(w) = SyncJob(d) /\ ~HeadCounted(wrank[w])
           /\ Pending(d, wrank[w], 1) => CurJob(w).type = "sync" /\ CurJob(w).owner = d
<1>1. CurJob(w) = SyncJob(d) => CurJob(w).type = "sync" /\ CurJob(w).owner = d
  BY DEF SyncJob
<1>2. jobs[wrank[w]] = <<>> => 1 \notin DOMAIN jobs[wrank[w]]
  BY FifoType
<1>3. jobs[wrank[w]] # <<>> => 1 \in DOMAIN jobs[wrank[w]] /\ CurJob(w) = jobs[wrank[w]][1]
  BY FifoType DEF CurJob
<1>4. QED
  BY <1>1, <1>2, <1>3 DEF Pending

(* A step that tells d nothing new but, perhaps, that it failed. *)
LEMMA FifoStays ==
    ASSUME IInv, NEW d \in Client, FifoOf(d), FifoKept(d), UNCHANGED Private(d),
           failed'[d] = failed[d], status'[d] = status[d] \/ status'[d] = "ERR",
           \A v \in Worker : Clearing(v, d) => Clearing(v, d)' \/ status'[d] = "ERR"
    PROVE  FifoOf(d)'
<1>1. /\ pc'[d] = pc[d] /\ kind'[d] = kind[d] /\ set'[d] = set[d] /\ at'[d] = at[d]
      /\ result'[d] = result[d]
  BY DEF Private
<1>2. DrainOf(d)'
  <2>1. \A i \in DOMAIN set[d] : set[d][i] \in Rank
    BY DEF IInv, TypeOK
  <2>2. QED
    BY <1>1, <2>1 DEF FifoOf, DrainOf, FifoKept, Adding
<1>3. FailOf(d)'
  BY <1>1 DEF FifoOf, FailOf, Clearing, Syncing
<1>4. QED
  BY <1>2, <1>3 DEF FifoOf

(* A step of a worker that touches the sync of no call. *)
LEMMA AllUntouched ==
    ASSUME IInv, SyncInv, FifoInv, UNCHANGED clientVars,
           UNCHANGED <<left, status, failed>>,
           \A d \in Client :
              /\ FifoKept(d) /\ SyncRanks(d)' = SyncRanks(d)
              /\ \A v \in Worker : /\ Clearing(v, d) => Clearing(v, d)'
    PROVE  SyncInv' /\ FifoInv'
<1>1. ASSUME NEW d \in Client PROVE SyncOf(d)' /\ FifoOf(d)'
  <2>1. UNCHANGED Private(d) /\ UNCHANGED Shared(d)
    BY DEF Private, Shared, clientVars
  <2>2. SyncOf(d) /\ FifoOf(d)
    BY DEF SyncInv, FifoInv
  <2>3. QED
    BY <2>1, <2>2, Untouched
<1>2. QED
  BY <1>1 DEF SyncInv, FifoInv

(* FIFOs that stay as they are keep their order. *)
LEMMA SameOrder ==
    ASSUME jobs' = jobs, NEW d \in Client, NEW s \in Rank
    PROVE  /\ Drained(d, s) => Drained(d, s)'
           /\ OpFollowed(d, s) => OpFollowed(d, s)'
BY DEF Drained, OpFollowed, Followed

(* A worker goes to or from a rank without running a job. *)
LEMMA QuietWorker ==
    ASSUME IInv, SyncInv, FifoInv, NEW w \in Worker,
           \/ TakeRank(w) \/ LockRank(w) \/ UnlockRank(w) \/ ClearDone(w)
           \/ ComputeJob(w) /\ wpc'[w] # "advance"
    PROVE  SyncInv' /\ FifoInv'
<1> DEFINE Counted == {"notify", "advance", "clearNotify"}
<1>1. /\ jobs' = jobs /\ UNCHANGED clientVars /\ UNCHANGED <<left, status, failed>>
      /\ wpc[w] \notin Counted /\ wpc'[w] \notin Counted
      /\ \A v \in Worker \ {w} : wpc'[v] = wpc[v] /\ wrank'[v] = wrank[v]
      /\ wpc[w] = "clear" => jobs[wrank[w]] = <<>>
  <2> USE DEF IInv, TypeOK, WorkerGoes, rankVars, syncVars
  <2>1. CASE TakeRank(w)
    BY <2>1 DEF TakeRank
  <2>2. CASE LockRank(w)
    BY <2>2 DEF LockRank
  <2>3. CASE UnlockRank(w)
    BY <2>3 DEF UnlockRank
  <2>4. CASE ClearDone(w)
    BY <2>4 DEF ClearDone
  <2>5. CASE ComputeJob(w) /\ wpc'[w] # "advance"
    BY <2>5 DEF ComputeJob
  <2>6. QED
    BY <2>1, <2>2, <2>3, <2>4, <2>5
<1>2. \A r \in Rank : HeadCounted(r)' = HeadCounted(r)
  BY <1>1 DEF HeadCounted
<1>3. ASSUME NEW d \in Client
      PROVE  /\ FifoKept(d) /\ SyncRanks(d)' = SyncRanks(d)
             /\ \A v \in Worker : /\ Clearing(v, d) => Clearing(v, d)'
  <2>1. FifoKept(d) /\ SyncRanks(d)' = SyncRanks(d)
    BY <1>1, <1>2, StillFifo, SameOrder DEF FifoKept
  <2>3. ASSUME Clearing(w, d) PROVE FALSE
    <3>1. wpc[w] = "clear" /\ jobs[wrank[w]] = <<>> /\ wrank[w] \in SyncRanks(d)
      BY <1>1, <2>3 DEF Clearing
    <3>2. QED
      BY <3>1, FifoType DEF SyncRanks
  <2>4. \A v \in Worker : Clearing(v, d) => Clearing(v, d)'
    BY <1>1, <2>1, <2>3 DEF Clearing
  <2>5. QED
    BY <2>1, <2>4
<1>4. QED
  BY <1>1, <1>3, AllUntouched

(* A worker runs an operation, or takes a job that counts no more off its  *)
(* FIFO.                                                                   *)
LEMMA RunSync ==
    ASSUME IInv, SyncInv, FifoInv, NEW w \in Worker,
           (ComputeJob(w) /\ wpc'[w] = "advance") \/ AdvanceToNextJob(w) \/ ClearJob(w)
    PROVE  SyncInv' /\ FifoInv'
<1>1. PICK x \in WorkerPc : wpc' = [wpc EXCEPT ![w] = x]
  <2>1. CASE ComputeJob(w) /\ wpc'[w] = "advance"
    BY <2>1 DEF ComputeJob, WorkerGoes, WorkerPc
  <2>2. CASE AdvanceToNextJob(w)
    BY <2>2 DEF AdvanceToNextJob, WorkerGoes, WorkerPc, NextJob
  <2>3. CASE ClearJob(w)
    BY <2>3 DEF ClearJob, workerVars, IInv, TypeOK
  <2>4. QED
    BY <2>1, <2>2, <2>3
<1>2. /\ UNCHANGED clientVars /\ UNCHANGED <<left, status, failed>>
      /\ wrank' = wrank /\ wpc[w] \in {"run", "advance", "clear"}
      /\ wpc[w] = "clear" => wpc'[w] = "clear"
      /\ wpc'[w] \notin {"notify", "clearNotify"}
  <2> USE DEF IInv, TypeOK, WorkerGoes, rankVars, syncVars, workerVars
  <2>1. CASE ComputeJob(w) /\ wpc'[w] = "advance"
    BY <2>1 DEF ComputeJob
  <2>2. CASE AdvanceToNextJob(w)
    BY <2>2 DEF AdvanceToNextJob, NextJob
  <2>3. CASE ClearJob(w)
    BY <2>3 DEF ClearJob
  <2>4. QED
    BY <2>1, <2>2, <2>3
<1>3. PICK r \in Rank : r = wrank[w]
  BY <1>2, WorkerRankType
<1>4. jobs[r] # <<>> /\ \A s \in Rank \ {r} : jobs'[s] = jobs[s]
  <2> USE DEF IInv, TypeOK, rankVars
  <2>1. CASE ComputeJob(w) /\ wpc'[w] = "advance"
    BY <1>3, <2>1, WorkerRankType DEF ComputeJob
  <2>2. CASE AdvanceToNextJob(w)
    BY <1>3, <2>2, WorkerRankType DEF AdvanceToNextJob
  <2>3. CASE ClearJob(w)
    BY <1>3, <2>3 DEF ClearJob
  <2>4. QED
    BY <2>1, <2>2, <2>3
<1>5. /\ HeadCounted(r) <=> wpc[w] \in {"notify", "advance", "clearNotify"}
      /\ HeadCounted(r)' <=> x \in {"notify", "advance", "clearNotify"}
      /\ \A s \in Rank \ {r} : HeadCounted(s)' = HeadCounted(s)
      /\ \A v \in Worker \ {w} :
            /\ wpc'[v] = wpc[v]
      /\ wpc'[w] = x
  BY <1>1, <1>2, <1>3, <1>4, WorkerHead
<1>6. \A d \in Client : ~Pending(d, r, 1)
  <2>1. HeadCounted(r) \/ CurJob(w).type # "sync"
    BY <1>5 DEF ComputeJob, AdvanceToNextJob, ClearJob
  <2>2. QED
    BY <1>3, <2>1, PendingHead
<1>7. ASSUME NEW d \in Client
      PROVE  FifoKept(d) /\ SyncRanks(d)' = SyncRanks(d)
  <2>1. CASE ComputeJob(w) /\ wpc'[w] = "advance"
    <3>1. jobs' = jobs /\ HeadCounted(r)' /\ ~HeadCounted(r)
      BY <1>5, <2>1 DEF ComputeJob, rankVars
    <3>2. (Once(d) => Once(d)') /\ SyncRanks(d)' = SyncRanks(d)
      BY <1>5, <1>6, <3>1, CountEffect
    <3>3. QED
      BY <3>1, <3>2, SameOrder DEF FifoKept
  <2>2. CASE AdvanceToNextJob(w) \/ ClearJob(w)
    <3>1. jobs' = [jobs EXCEPT ![r] = Tail(jobs[r])]
      BY <1>3, <2>2 DEF AdvanceToNextJob, ClearJob
    <3>2. ~HeadCounted(r)'
      <4>1. CASE AdvanceToNextJob(w)
        BY <1>5, <4>1 DEF AdvanceToNextJob, WorkerGoes, NextJob, IInv, TypeOK
      <4>2. CASE ClearJob(w)
        BY <1>5, <4>2 DEF ClearJob, workerVars
      <4>3. QED
        BY <2>2, <4>1, <4>2
    <3>3. QED
      BY <1>4, <1>5, <1>6, <3>1, <3>2, ShiftEffect DEF FifoKept
  <2>3. QED
    BY <2>1, <2>2
<1>8. ASSUME NEW d \in Client, NEW v \in Worker
      PROVE  /\ Clearing(v, d) => Clearing(v, d)'
  <2>1. CASE v = w
    BY <1>2, <1>7, <2>1 DEF Clearing
  <2>2. CASE v # w
    BY <1>2, <1>5, <1>7, <2>2 DEF Clearing
  <2>3. QED
    BY <2>1, <2>2
<1>9. QED
  BY <1>2, <1>7, <1>8, AllUntouched

(* The call whose SYNC job is at the head of the FIFO that a worker serves *)
(* is under way and counts the rank.                                       *)
LEMMA HeadSync ==
    ASSUME IInv, SyncInv, NEW w \in Worker, NEW r \in Rank, r = wrank[w],
           wpc[w] \in {"run", "clear"}, jobs[r] # <<>>, CurJob(w).type = "sync",
           NEW c, c = CurJob(w).owner
    PROVE  /\ c \in Client /\ r \in SyncRanks(c) /\ Pending(c, r, 1)
           /\ \A d \in Client \ {c} : ~Pending(d, r, 1)
           /\ kind[c] # "async" /\ pc[c] \in Syncing /\ left[c] # 0
<1>1. CurJob(w) \in Job
  BY WorkerRankType
<1>2. c \in Client /\ CurJob(w) = SyncJob(c)
  BY <1>1 DEF Job, SyncJob
<1>3. ~HeadCounted(r)
  BY DEF HeadCounted, IInv, ScheduledOnce, Serves
<1>4. Pending(c, r, 1) /\ \A d \in Client \ {c} : ~Pending(d, r, 1)
  BY <1>2, <1>3, PendingHead
<1>5. r \in SyncRanks(c)
  BY <1>2, <1>4, SyncRanksPending
<1>6. PendingOf(c) /\ CountOf(c)
  BY <1>2 DEF SyncInv, SyncOf
<1>7. kind[c] # "async" /\ pc[c] \in Syncing
  BY <1>5, <1>6 DEF PendingOf
<1>8. left[c] # 0
  <2>1. Cardinality(SyncRanks(c)) \in Nat /\ Cardinality(SyncRanks(c)) # 0
    BY <1>5, <1>6, FS_CardinalityType, FS_EmptySet DEF PendingOf
  <2>2. CASE pc[c] = "wait"
    BY <1>6, <2>1, <2>2 DEF CountOf
  <2>3. CASE pc[c] \in Adding
    <3>1. Len(set[c]) \in Nat /\ at[c] \in 1..(Len(set[c]) + 1)
      BY <1>2, <2>3 DEF Adding, IInv, TypeOK, IndexInv, IndexOf
    <3>2. left[c] = Cardinality(SyncRanks(c)) + Len(set[c]) - at[c] + 1
      BY <1>6, <1>7, <2>3 DEF CountOf
    <3> DEFINE n == Cardinality(SyncRanks(c))
               k == Len(set[c])
    <3>3. n \in Nat /\ n # 0 /\ k \in Nat /\ at[c] \in 1..(k + 1) /\ left[c] = n + k - at[c] + 1
      BY <2>1, <3>1, <3>2
    <3> HIDE DEF n, k
    <3>4. QED
      BY <3>3
  <2>4. QED
    BY <1>7, <2>2, <2>3 DEF Syncing, Adding
<1>9. QED
  BY <1>2, <1>4, <1>5, <1>7, <1>8

(* do_sync_job counts a rank off. *)
LEMMA CountedOff ==
    ASSUME IInv, NEW c \in Client, SyncOf(c), NEW r \in SyncRanks(c),
           SyncRanks(c)' = SyncRanks(c) \ {r}, Once(c)',
           UNCHANGED Private(c), left'[c] = left[c] - 1
    PROVE  SyncOf(c)'
<1>1. /\ pc'[c] = pc[c] /\ kind'[c] = kind[c] /\ set'[c] = set[c] /\ at'[c] = at[c]
  BY DEF Private
<1>2. PendingOf(c) /\ CountOf(c)
  BY DEF SyncOf
<1>3. kind[c] # "async" /\ pc[c] \in Syncing
  BY <1>2 DEF PendingOf
<1>4. /\ IsFiniteSet(SyncRanks(c)') /\ Cardinality(SyncRanks(c)) \in Nat
      /\ Cardinality(SyncRanks(c)') = Cardinality(SyncRanks(c)) - 1
  BY <1>2, FS_RemoveElement, FS_CardinalityType DEF PendingOf
<1>5. PendingOf(c)'
  BY <1>1, <1>2, <1>3, <1>4 DEF PendingOf, Adding, Syncing
<1>6. CountOf(c)'
  <2> DEFINE n == Cardinality(SyncRanks(c))
             m == Cardinality(SyncRanks(c)')
             k == Len(set[c])
  <2>1. /\ n \in Nat /\ m = n - 1 /\ k \in Nat /\ at[c] \in Nat
        /\ pc[c] \in Adding => left[c] = n + k - at[c] + 1
        /\ pc[c] = "wait" => left[c] = n
    BY <1>2, <1>3, <1>4 DEF CountOf, IInv, TypeOK
  <2> HIDE DEF n, m, k
  <2>2. /\ pc[c] \in Adding => left'[c] = m + k - at[c] + 1
        /\ pc[c] = "wait" => left'[c] = m
    BY <2>1
  <2>3. /\ pc[c] \in Adding => left'[c] = Cardinality(SyncRanks(c)') + Len(set[c]) - at[c] + 1
        /\ pc[c] = "wait" => left'[c] = Cardinality(SyncRanks(c)')
    BY <2>2 DEF m, k
  <2>4. QED
    BY <1>1, <1>3, <2>3 DEF CountOf, Syncing
<1>7. QED
  BY <1>5, <1>6 DEF SyncOf

(* dpu_thread_compute_job on a SYNC job. *)
LEMMA ComputeSync ==
    ASSUME IInv, SyncInv, FifoInv, NEW w \in Worker, ComputeSyncJob(w)
    PROVE  SyncInv' /\ FifoInv'
<1>1. PICK c \in Client : c = CurJob(w).owner
  BY WorkerRankType DEF ComputeSyncJob, Job
<1>2. PICK x \in WorkerPc : /\ wpc' = [wpc EXCEPT ![w] = x]
                            /\ x = IF left[c] = 1 THEN "notify" ELSE "advance"
  BY <1>1 DEF ComputeSyncJob, DoSyncJob, WorkerGoes, WorkerPc
<1>3. wpc[w] = "run" /\ CurJob(w).type = "sync" /\ wrank' = wrank /\ jobs' = jobs
  BY DEF ComputeSyncJob, rankVars
<1>4. PICK r \in Rank : r = wrank[w] /\ jobs[r] # <<>>
  BY <1>3, WorkerRankType
<1>5. /\ HeadCounted(r) <=> wpc[w] \in {"notify", "advance", "clearNotify"}
      /\ HeadCounted(r)' <=> x \in {"notify", "advance", "clearNotify"}
      /\ \A s \in Rank \ {r} : HeadCounted(s)' = HeadCounted(s)
      /\ \A v \in Worker \ {w} :
            /\ wrank[v] = r => wpc[v] = "unlock"
            /\ wpc'[v] = wpc[v]
      /\ wpc'[w] = x
  BY ZenonT(60), <1>2, <1>3, <1>4, WorkerHead
<1>6. /\ c \in Client /\ r \in SyncRanks(c) /\ Pending(c, r, 1)
      /\ \A d \in Client \ {c} : ~Pending(d, r, 1)
  BY <1>1, <1>3, <1>4, HeadSync
<1>7. /\ UNCHANGED clientVars /\ UNCHANGED <<status, failed>>
      /\ left'[c] = left[c] - 1 /\ \A d \in Client \ {c} : left'[d] = left[d]
  BY <1>1 DEF ComputeSyncJob, DoSyncJob, IInv, TypeOK
<1>8. \A d \in Client :
         /\ Once(d) => Once(d)'
         /\ Once(d) /\ Pending(d, r, 1) => SyncRanks(d)' = SyncRanks(d) \ {r}
         /\ ~Pending(d, r, 1) => SyncRanks(d)' = SyncRanks(d)
  BY <1>2, <1>3, <1>5, CountEffect
<1>9. \A d \in Client : SyncOf(d) /\ FifoOf(d) /\ Once(d) /\ FifoKept(d) /\ UNCHANGED Private(d)
  BY <1>3, <1>7, <1>8, SameOrder
     DEF SyncInv, FifoInv, SyncOf, PendingOf, FifoKept, Private, clientVars
<1>10. ASSUME NEW d \in Client, NEW v \in Worker, Clearing(v, d)
      PROVE  Clearing(v, d)'
  <2>1. v # w /\ wrank[v] # r
    BY <1>3, <1>5, <1>10 DEF Clearing
  <2>2. SyncRanks(d)' = SyncRanks(d) \/ SyncRanks(d)' = SyncRanks(d) \ {r}
    BY <1>8, <1>9
  <2>3. QED
    BY <1>3, <1>5, <1>10, <2>1, <2>2 DEF Clearing
<1>11. ASSUME NEW d \in Client PROVE FifoOf(d)'
  BY <1>7, <1>9, <1>10, FifoStays
<1>12. ASSUME NEW d \in Client \ {c} PROVE SyncOf(d)'
  <2>1. SyncRanks(d)' = SyncRanks(d) /\ UNCHANGED Shared(d)
    BY <1>6, <1>7, <1>8 DEF Shared
  <2>2. QED
    BY <1>9, <1>10, <2>1, Untouched
<1>13. SyncOf(c)'
  <2>1. SyncRanks(c)' = SyncRanks(c) \ {r} /\ Once(c)'
    BY <1>6, <1>8, <1>9
  <2>2. QED
    BY <1>6, <1>7, <1>9, <2>1, CountedOff
<1>14. QED
  BY <1>11, <1>12, <1>13 DEF SyncInv, FifoInv

(* dpu_thread_update_status on a SYNC job. *)
LEMMA ClearSync ==
    ASSUME IInv, SyncInv, FifoInv, NEW w \in Worker, ClearSyncJob(w)
    PROVE  SyncInv' /\ FifoInv'
<1>1. PICK c \in Client : c = CurJob(w).owner
  BY WorkerRankType DEF ClearSyncJob, Job
<1>2. PICK x \in WorkerPc : /\ wpc' = [wpc EXCEPT ![w] = x]
                            /\ x = IF left[c] = 1 THEN "clearNotify" ELSE "clear"
  BY <1>1 DEF ClearSyncJob, DoSyncJob, WorkerGoes, WorkerPc
<1>3. wpc[w] = "clear" /\ CurJob(w).type = "sync" /\ wrank' = wrank
  BY DEF ClearSyncJob
<1>4. PICK r \in Rank : r = wrank[w] /\ jobs[r] # <<>>
  BY <1>3, WorkerRankType DEF ClearSyncJob
<1>5. \/ left[c] = 1 /\ jobs' = jobs
      \/ left[c] # 1 /\ jobs' = [jobs EXCEPT ![r] = Tail(jobs[r])]
  BY <1>1, <1>4 DEF ClearSyncJob
<1>6. \A s \in Rank \ {r} : jobs'[s] = jobs[s]
  BY <1>5 DEF IInv, TypeOK
<1>7. /\ HeadCounted(r) <=> wpc[w] \in {"notify", "advance", "clearNotify"}
      /\ HeadCounted(r)' <=> x \in {"notify", "advance", "clearNotify"}
      /\ \A s \in Rank \ {r} : HeadCounted(s)' = HeadCounted(s)
      /\ \A v \in Worker \ {w} :
            /\ wrank[v] = r => wpc[v] = "unlock"
            /\ wpc'[v] = wpc[v]
      /\ wpc'[w] = x
  <2>1. \A s \in Rank \ {wrank[w]} : jobs'[s] = jobs[s]
    BY <1>4, <1>6
  <2>2. /\ HeadCounted(wrank[w]) <=> wpc[w] \in {"notify", "advance", "clearNotify"}
        /\ HeadCounted(wrank[w])' <=> x \in {"notify", "advance", "clearNotify"}
        /\ \A s \in Rank \ {wrank[w]} : HeadCounted(s)' = HeadCounted(s)
        /\ \A v \in Worker \ {w} :
              /\ wrank[v] = wrank[w] => wpc[v] = "unlock"
              /\ wpc'[v] = wpc[v]
        /\ wpc'[w] = x
    BY <1>2, <1>3, <2>1, WorkerHead
  <2>3. QED
    BY <1>3, <1>4, <2>2
<1>8. /\ c \in Client /\ r \in SyncRanks(c) /\ Pending(c, r, 1)
      /\ \A d \in Client \ {c} : ~Pending(d, r, 1)
  BY <1>1, <1>3, <1>4, HeadSync
<1>9. /\ UNCHANGED clientVars /\ UNCHANGED <<failed>>
      /\ left'[c] = left[c] - 1 /\ status'[c] = "ERR"
      /\ \A d \in Client \ {c} : left'[d] = left[d] /\ status'[d] = status[d]
  BY <1>1 DEF ClearSyncJob, DoSyncJob, FailSync, IInv, TypeOK
<1>10. \A d \in Client :
         /\ FifoKept(d)
         /\ Once(d) /\ Pending(d, r, 1) => SyncRanks(d)' = SyncRanks(d) \ {r}
         /\ ~Pending(d, r, 1) => SyncRanks(d)' = SyncRanks(d)
  <2>1. CASE left[c] = 1
    <3>1. jobs' = jobs /\ HeadCounted(r)' /\ ~HeadCounted(r)
      BY <1>2, <1>3, <1>5, <1>7, <2>1
    <3>2. QED
      BY <1>7, <3>1, CountEffect, SameOrder DEF FifoKept
  <2>2. CASE left[c] # 1
    <3>1. jobs' = [jobs EXCEPT ![r] = Tail(jobs[r])] /\ ~HeadCounted(r)'
      BY <1>2, <1>5, <1>7, <2>2
    <3>2. QED
      BY <1>4, <1>7, <3>1, ShiftEffect DEF FifoKept
  <2>3. QED
    BY <2>1, <2>2
<1>11. \A d \in Client : SyncOf(d) /\ FifoOf(d) /\ Once(d) /\ UNCHANGED Private(d)
  BY <1>9 DEF SyncInv, FifoInv, SyncOf, PendingOf, Private, clientVars
<1>12. ASSUME NEW d \in Client \ {c}, NEW v \in Worker, Clearing(v, d)
       PROVE  Clearing(v, d)'
  <2>1. SyncRanks(d)' = SyncRanks(d)
    BY <1>8, <1>10
  <2>2. CASE v = w
    BY <1>2, <1>3, <1>7, <1>12, <2>1, <2>2 DEF Clearing
  <2>3. CASE v # w
    BY <1>3, <1>7, <1>12, <2>1, <2>3 DEF Clearing
  <2>4. QED
    BY <2>2, <2>3
<1>13. ASSUME NEW d \in Client \ {c} PROVE SyncOf(d)' /\ FifoOf(d)'
  <2>1. SyncRanks(d)' = SyncRanks(d) /\ UNCHANGED Shared(d)
    BY <1>8, <1>9, <1>10 DEF Shared
  <2>2. QED
    BY <1>10, <1>11, <1>12, <2>1, Untouched
<1>14. SyncOf(c)'
  <2>1. SyncRanks(c)' = SyncRanks(c) \ {r} /\ Once(c)'
    BY <1>8, <1>10, <1>11 DEF FifoKept
  <2>2. QED
    BY <1>8, <1>9, <1>11, <2>1, CountedOff
<1>15. FifoOf(c)'
  BY <1>8, <1>9, <1>10, <1>11, FifoStays
<1>16. QED
  BY <1>13, <1>14, <1>15 DEF SyncInv, FifoInv

(* The second half of do_sync_job, after a success or while a FIFO is      *)
(* cleared.                                                                *)
LEMMA SignalSyncs ==
    ASSUME IInv, SyncInv, FifoInv, NEW w \in Worker, NotifySync(w) \/ ClearNotifySync(w)
    PROVE  SyncInv' /\ FifoInv'
<1>1. wpc[w] \in {"notify", "clearNotify"} /\ wrank' = wrank
  BY DEF NotifySync, ClearNotifySync
<1>2. PICK r \in Rank : r = wrank[w] /\ jobs[r] # <<>>
  BY <1>1, WorkerRankType
<1>3. PICK c \in Client : c = CurJob(w).owner
  BY <1>1, WorkerRankType DEF Job
<1>4. PICK x \in WorkerPc :
         /\ wpc' = [wpc EXCEPT ![w] = x]
         /\ \/ wpc[w] = "notify" /\ x = "advance" /\ jobs' = jobs
            \/ /\ wpc[w] = "clearNotify" /\ x = "clear"
               /\ jobs' = [jobs EXCEPT ![r] = Tail(jobs[r])]
  BY <1>2 DEF NotifySync, ClearNotifySync, WorkerGoes, WorkerPc, rankVars
<1>5. \A s \in Rank \ {wrank[w]} : jobs'[s] = jobs[s]
  BY <1>2, <1>4 DEF IInv, TypeOK
<1>6. /\ HeadCounted(r) /\ (HeadCounted(r)' <=> x = "advance")
      /\ \A s \in Rank \ {r} : HeadCounted(s)' = HeadCounted(s)
      /\ \A v \in Worker \ {w} :
            /\ wpc'[v] = wpc[v]
      /\ wpc'[w] = x
  <2>1. /\ HeadCounted(wrank[w]) <=> wpc[w] \in {"notify", "advance", "clearNotify"}
        /\ HeadCounted(wrank[w])' <=> x \in {"notify", "advance", "clearNotify"}
        /\ \A s \in Rank \ {wrank[w]} : HeadCounted(s)' = HeadCounted(s)
        /\ \A v \in Worker \ {w} :
              /\ wpc'[v] = wpc[v]
        /\ wpc'[w] = x
    BY <1>1, <1>4, <1>5, WorkerHead
  <2>2. QED
    BY <1>1, <1>2, <1>4, <2>1
<1>7. \A d \in Client : FifoKept(d) /\ SyncRanks(d)' = SyncRanks(d)
  <2>1. \A d \in Client : ~Pending(d, r, 1)
    BY <1>2, <1>6, PendingHead
  <2>2. CASE x = "advance"
    <3>1. HeadCounted(r)' = HeadCounted(r)
      <4>1. HeadCounted(r)' <=> HeadCounted(r)
        BY <1>6, <2>2
      <4>2. QED
        BY <4>1 DEF HeadCounted
    <3>2. jobs' = jobs /\ \A s \in Rank : HeadCounted(s)' = HeadCounted(s)
      BY <1>4, <1>6, <2>2, <3>1
    <3>3. QED
      BY <3>2, StillFifo, SameOrder DEF FifoKept
  <2>3. CASE x = "clear"
    <3>1. jobs' = [jobs EXCEPT ![r] = Tail(jobs[r])] /\ ~HeadCounted(r)'
      BY <1>4, <1>6, <2>3
    <3>2. QED
      BY <1>2, <1>6, <2>1, <3>1, ShiftEffect DEF FifoKept
  <2>4. QED
    BY <1>4, <2>2, <2>3
<1>8. UNCHANGED clientVars /\ UNCHANGED <<left, status, failed>>
  BY DEF NotifySync, ClearNotifySync
<1>9. ASSUME NEW d \in Client, NEW v \in Worker, Clearing(v, d)
      PROVE  Clearing(v, d)'
  BY <1>1, <1>4, <1>6, <1>7, <1>9 DEF Clearing
<1>10. QED
  BY <1>7, <1>8, <1>9, AllUntouched

(* dpu_thread_update_status records the error: the SYNC job of the call    *)
(* whose operation failed is still in the FIFO.                            *)
LEMMA FailureNoted ==
    ASSUME IInv, SyncInv, FifoInv, NEW w \in Worker, UpdateStatus(w)
    PROVE  SyncInv' /\ FifoInv'
<1>1. wpc[w] = "fail" /\ wrank' = wrank /\ jobs' = jobs
      /\ wpc' = [wpc EXCEPT ![w] = "clear"] /\ "clear" \in WorkerPc
  BY DEF UpdateStatus, WorkerGoes, WorkerPc
<1>2. PICK r \in Rank : r = wrank[w] /\ jobs[r] # <<>>
  BY <1>1, WorkerRankType
<1>3. PICK c \in Client : c = CurJob(w).owner
  BY <1>1, WorkerRankType DEF Job
<1>4. /\ \A s \in Rank : HeadCounted(s)' = HeadCounted(s)
      /\ \A v \in Worker \ {w} :
            /\ wpc'[v] = wpc[v]
      /\ wpc'[w] = "clear"
  <2>1. /\ HeadCounted(wrank[w]) <=> wpc[w] \in {"notify", "advance", "clearNotify"}
        /\ HeadCounted(wrank[w])' <=> "clear" \in {"notify", "advance", "clearNotify"}
        /\ \A s \in Rank \ {wrank[w]} : HeadCounted(s)' = HeadCounted(s)
        /\ \A v \in Worker \ {w} :
              /\ wpc'[v] = wpc[v]
        /\ wpc'[w] = "clear"
    BY ZenonT(60), <1>1, WorkerHead
  <2>2. HeadCounted(r)' = HeadCounted(r)
    <3>1. HeadCounted(r)' <=> HeadCounted(r)
      BY <1>1, <1>2, <2>1
    <3>2. QED
      BY <3>1 DEF HeadCounted
  <2>3. QED
    BY <1>2, <2>1, <2>2
<1>5. \A d \in Client : FifoKept(d) /\ SyncRanks(d)' = SyncRanks(d)
  BY <1>1, <1>4, StillFifo, SameOrder DEF FifoKept
<1>6. /\ UNCHANGED clientVars /\ UNCHANGED <<left, status>>
      /\ failed'[c] = failed[c] \cup {CurJob(w).type}
      /\ \A d \in Client \ {c} : failed'[d] = failed[d]
  BY <1>3 DEF UpdateStatus, syncVars, IInv, TypeOK
<1>7. ASSUME NEW d \in Client, NEW v \in Worker
      PROVE  /\ Clearing(v, d) => Clearing(v, d)'
  BY <1>1, <1>4, <1>5 DEF Clearing
<1>8. \A d \in Client : SyncOf(d) /\ FifoOf(d) /\ UNCHANGED Private(d)
  BY <1>6 DEF SyncInv, FifoInv, Private, clientVars
<1>9. ASSUME NEW d \in Client \ {c} PROVE SyncOf(d)' /\ FifoOf(d)'
  <2>1. UNCHANGED Shared(d)
    BY <1>6 DEF Shared
  <2>2. QED
    BY <1>5, <1>7, <1>8, <2>1, Untouched
<1>10. PendingOf(c) /\ CountOf(c) /\ DrainOf(c) /\ FailOf(c)
  BY <1>8 DEF SyncOf, FifoOf
<1>11. /\ pc'[c] = pc[c] /\ kind'[c] = kind[c] /\ set'[c] = set[c] /\ at'[c] = at[c]
       /\ result'[c] = result[c] /\ left'[c] = left[c]
       /\ status'[c] = status[c]
  BY <1>6, <1>8 DEF Private
<1>12. SyncOf(c)'
  <2>1. PendingOf(c)'
    BY <1>5, <1>10, <1>11 DEF PendingOf, FifoKept
  <2>2. CountOf(c)'
    BY <1>5, <1>10, <1>11 DEF CountOf
  <2>3. QED
    BY <2>1, <2>2 DEF SyncOf
<1>13. DrainOf(c)'
  <2>1. \A i \in DOMAIN set[c] : set[c][i] \in Rank
    BY DEF IInv, TypeOK
  <2>2. QED
    BY <1>5, <1>10, <1>11, <2>1 DEF DrainOf, FifoKept
<1>14. FailOf(c)'
  <2>1. CASE CurJob(w).type = "op"
    <3>1. /\ 1 \in DOMAIN jobs[r] /\ jobs[r][1] = [type |-> "op", owner |-> c]
          /\ DOMAIN jobs[r] = 1..Len(jobs[r])
      <4>1. jobs[r][1] = CurJob(w) /\ CurJob(w) \in Job /\ 1 \in DOMAIN jobs[r]
            /\ DOMAIN jobs[r] = 1..Len(jobs[r])
        BY <1>2, FifoType DEF CurJob
      <4>2. QED
        BY <1>3, <2>1, <4>1 DEF Job
    <3>2. Followed(c, r, 1)
      BY <1>10, <3>1 DEF DrainOf, OpFollowed
    <3>3. r \in SyncRanks(c)
      BY <3>1, <3>2 DEF Followed, SyncRanks, SyncJob
    <3>4. kind[c] # "async" /\ pc[c] \in Syncing
      BY <1>10, <3>3 DEF PendingOf
    <3>5. wpc'[w] = "clear" /\ wrank'[w] \in SyncRanks(c)'
      BY <1>1, <1>2, <1>4, <1>5, <3>3
    <3>6. QED
      BY <1>10, <1>11, <3>4, <3>5 DEF FailOf, Syncing
  <2>2. CASE CurJob(w).type # "op"
    <3>1. "op" \in failed'[c] => "op" \in failed[c]
      BY <1>6, <2>2
    <3>2. QED
      BY <1>7, <1>10, <1>11, <3>1 DEF FailOf, Clearing
  <2>3. QED
    BY <2>1, <2>2
<1>15. FifoOf(c)'
  BY <1>13, <1>14 DEF FifoOf
<1>16. QED
  BY <1>9, <1>12, <1>15 DEF SyncInv, FifoInv

-----------------------------------------------------------------------------

SyncIInv == IInv /\ SyncInv /\ FifoInv

(* No call has been made yet. *)
LEMMA SyncInit == Init => SyncIInv
<1>1. SUFFICES ASSUME Init PROVE SyncInv /\ FifoInv
  BY InitInv DEF SyncIInv
<1>2. SUFFICES ASSUME NEW c \in Client PROVE SyncOf(c) /\ FifoOf(c)
  BY DEF SyncInv, FifoInv
<1>3. /\ \A r \in Rank : jobs[r] = <<>> /\ DOMAIN jobs[r] = {}
      /\ pc[c] = "idle" /\ kind[c] = "async" /\ set[c] = <<>> /\ failed[c] = {}
      /\ \A w \in Worker : wpc[w] = "main"
  BY <1>1 DEF Init
<1>4. SyncRanks(c) = {} /\ Once(c)
  BY <1>3 DEF SyncRanks, Once, Pending
<1>5. PendingOf(c)
  BY <1>3, <1>4, FS_EmptySet DEF PendingOf, Adding
<1>6. CountOf(c)
  BY <1>3 DEF CountOf, Adding
<1>7. DrainOf(c) /\ FailOf(c)
  BY <1>3 DEF DrainOf, OpFollowed, FailOf
<1>8. QED
  BY <1>5, <1>6, <1>7 DEF SyncOf, FifoOf

(* Every step preserves the invariant. *)
LEMMA SyncStep == SyncIInv /\ [Next]_vars => SyncIInv'
<1>1. SUFFICES ASSUME IInv, SyncInv, FifoInv, [Next]_vars
               PROVE  SyncInv' /\ FifoInv'
  BY StepInv DEF SyncIInv
<1>2. ASSUME NEW c \in Client, Call(c) PROVE SyncInv' /\ FifoInv'
  BY <1>1, <1>2, CallSync
<1>3. ASSUME NEW c \in Client, InCall(c), ~(WaitSyncJob(c) /\ left[c] # 0)
      PROVE  SyncInv' /\ FifoInv'
  BY <1>1, <1>3, GetSync, AddSync, EndAddSync, WaitSync DEF InCall
<1>4. ASSUME NEW w \in Worker, WorkerStep(w) PROVE SyncInv' /\ FifoInv'
  BY <1>1, <1>4, QuietWorker, RunSync, ComputeSync, SignalSyncs, FailureNoted, ClearSync
     DEF WorkerStep
<1>5. CASE \/ UNCHANGED vars
           \/ \E c \in Client : WakeForNoSlot(c) \/ (WaitSyncJob(c) /\ left[c] # 0)
  <2>1. /\ jobs' = jobs /\ UNCHANGED workerVars /\ UNCHANGED clientVars
        /\ UNCHANGED <<left, status, failed>>
    BY <1>5 DEF vars, rankVars, syncVars, WakeForNoSlot, WaitSyncJob
  <2>2. \A r \in Rank : HeadCounted(r)' = HeadCounted(r)
    BY <2>1 DEF HeadCounted, workerVars
  <2>3. \A d \in Client : FifoKept(d) /\ SyncRanks(d)' = SyncRanks(d)
    BY <2>1, <2>2, StillFifo, SameOrder DEF FifoKept
  <2>4. \A d \in Client, v \in Worker : /\ Clearing(v, d) => Clearing(v, d)'
    BY <2>1, <2>3 DEF Clearing, CurJob, workerVars
  <2>5. QED
    BY <1>1, <2>1, <2>3, <2>4, AllUntouched
<1>6. QED
  BY <1>1, <1>2, <1>3, <1>4, <1>5 DEF Next

(* The strengthened invariant holds in every reachable state. *)
THEOREM SyncInductive == Spec => []SyncIInv
  BY SyncInit, SyncStep, PTL DEF Spec

(* No SYNC job is left to count a rank off a sync whose call has returned, *)
(* whatever the number of calls, ranks and workers, and also when a wait   *)
(* ends without a signal: nr_ranks and status of a dpu_thread_job_sync are *)
(* never written after its caller has gone.                                *)
THEOREM SyncOutlives == Spec => []SyncOutlivesItsJobs
<1>1. SyncIInv => SyncOutlivesItsJobs
  BY DEF SyncIInv, SyncInv, SyncOf, PendingOf, Syncing, SyncOutlivesItsJobs
<1>2. QED
  BY <1>1, SyncInductive, PTL

(* sync->nr_ranks is exact in every reachable state: each rank is counted  *)
(* off once, by do_sync_job after its SYNC job or by update_status when it *)
(* clears the FIFO.                                                        *)
THEOREM SyncCountExact == Spec => []SyncAccounting
<1>1. SyncIInv => SyncAccounting
  <2>1. SUFFICES ASSUME SyncIInv, NEW c \in Client, kind[c] # "async",
                        pc[c] \in {"add", "addq", "wait"}
                 PROVE  left[c] = Cardinality(SyncRanks(c))
                           + (IF pc[c] = "wait" THEN 0 ELSE Len(set[c]) - at[c] + 1)
    BY DEF SyncAccounting
  <2>2. CountOf(c) /\ PendingOf(c)
    BY <2>1 DEF SyncIInv, SyncInv, SyncOf
  <2>3. Cardinality(SyncRanks(c)) \in Nat
    BY <2>2, FS_CardinalityType DEF PendingOf
  <2>4. CASE pc[c] = "wait"
    BY <2>2, <2>3, <2>4 DEF CountOf
  <2>5. CASE pc[c] \in Adding
    <3>1. Len(set[c]) \in Nat /\ at[c] \in Nat
      BY <2>1 DEF SyncIInv, IInv, TypeOK
    <3>2. left[c] = Cardinality(SyncRanks(c)) + Len(set[c]) - at[c] + 1
      BY <2>1, <2>2, <2>5 DEF CountOf
    <3> DEFINE n == Cardinality(SyncRanks(c))
               k == Len(set[c])
    <3>3. n \in Nat /\ k \in Nat /\ left[c] = n + k - at[c] + 1
      BY <2>3, <3>1, <3>2
    <3> HIDE DEF n, k
    <3>4. left[c] = n + (k - at[c] + 1)
      BY <3>1, <3>3
    <3>5. QED
      BY <2>5, <3>4 DEF n, k, Adding
  <2>6. QED
    BY <2>1, <2>4, <2>5 DEF Adding
<1>2. QED
  BY <1>1, SyncInductive, PTL

(* A synchronous call or dpu_sync that has returned leaves no operation of *)
(* its client in the FIFOs of its set.                                     *)
THEOREM SyncLeavesNothing == Spec => []SyncDrains
<1>1. SyncIInv => SyncDrains
  <2>1. SUFFICES ASSUME SyncIInv, NEW c \in Client, pc[c] = "idle", kind[c] # "async",
                        result[c] # "JOBERR", NEW i \in DOMAIN set[c],
                        NEW j \in DOMAIN jobs[set[c][i]], jobs[set[c][i]][j].owner = c,
                        jobs[set[c][i]][j].type # "sync"
                 PROVE  FALSE
    BY DEF SyncDrains
  <2>2. PICK r \in Rank : r = set[c][i]
    BY <2>1 DEF SyncIInv, IInv, TypeOK
  <2>3. Drained(c, r) /\ PendingOf(c)
    BY <2>1, <2>2 DEF SyncIInv, FifoInv, FifoOf, DrainOf, SyncInv, SyncOf
  <2>4. Followed(c, r, j)
    BY <2>1, <2>2, <2>3 DEF Drained
  <2>5. DOMAIN jobs[r] = 1..Len(jobs[r])
    BY <2>1, FifoType DEF SyncIInv
  <2>6. r \in SyncRanks(c)
    BY <2>2, <2>4, <2>5 DEF Followed, SyncRanks, SyncJob
  <2>7. QED
    BY <2>1, <2>3, <2>6 DEF PendingOf, Syncing
<1>2. QED
  BY <1>1, SyncInductive, PTL

(* A failed operation of a synchronous call is returned by that call, on   *)
(* whatever rank it failed and whichever rank signals the sync.            *)
THEOREM SyncFailureReturned == Spec => []SyncFailureReported
<1>1. SyncIInv => SyncFailureReported
  BY DEF SyncIInv, FifoInv, FifoOf, FailOf, Syncing, SyncFailureReported
<1>2. QED
  BY <1>1, SyncInductive, PTL

-----------------------------------------------------------------------------
(***************************************************************************)
(* The job slots of a rank, with one client: none is lost on a rank        *)
(* without job_error, a client blocked on the pool will be woken up, and   *)
(* an asynchronous failure stays recorded.                                 *)
(***************************************************************************)

(* One thread calls the API. *)
OneClient == \A c, d \in Client : c = d

(* The slots a client has taken at place i of its set, when it is at p of  *)
(* its call and at place a of its loop, has taken g slots there, met the   *)
(* error at place e and needs n slots on each rank.                        *)
HeldAt(p, a, g, e, n, i) ==
    IF p = "get" /\ i = a
    THEN g
    ELSE IF \/ p = "get" /\ i < a
            \/ p = "unget" /\ a <= i /\ i < e
            \/ p \in Adding /\ a <= i
         THEN n
         ELSE 0

(* The call has got all its slots at place i. *)
SecuredAt(p, a, i) == p \in {"add", "addq", "wait", "reset"} \/ (p = "get" /\ i < a)

Secured(c, r) == \E i \in DOMAIN set[c] : set[c][i] = r /\ SecuredAt(pc[c], at[c], i)

Conserved(c, r) == available[r] + Len(jobs[r]) + Held(c, r) = NrJobs

(* Slots may be lost on a rank only while it has job_error, and then the   *)
(* call under way is none that could reset it.                             *)
Lost(c, r) == jobError[r] = "ERR" /\ ~Secured(c, r) /\ c \notin slotWait[r]

SlotOf(c, r) == Conserved(c, r) \/ Lost(c, r)

(* A client that is blocked waits for the rank it has come to, whose pool  *)
(* is empty; it never has all the slots it needs there.                    *)
BlockedOf(c) ==
    /\ pc[c] = "get" => got[c] < JobsPerRank(c)
    /\ \A r \in Rank : c \in slotWait[r] => pc[c] = "get" /\ CurRank(c) = r /\ available[r] = 0

(* A failure that the client has not been told of is recorded, unless the  *)
(* call is about to return an error.                                       *)
KeptOf(c) ==
    "async" \in failed[c] => pc[c] = "reset" \/ \E r \in Rank : jobError[r] # "OK"

SlotInv == \A c \in Client : BlockedOf(c) /\ KeptOf(c) /\ \A r \in Rank : SlotOf(c, r)

-----------------------------------------------------------------------------

(* A set names a rank at one place at most. *)
LEMMA OnePlace ==
    ASSUME SyncIInv, NEW c \in Client
    PROVE  /\ set[c] \in Seq(Rank) /\ Len(set[c]) \in Nat /\ DOMAIN set[c] = 1..Len(set[c])
           /\ \A i, j \in DOMAIN set[c] : set[c][i] = set[c][j] => i = j
           /\ at[c] \in Nat /\ errAt[c] \in Nat /\ got[c] \in Nat
           /\ JobsPerRank(c) \in {1, 2}
<1>1. \A i, j \in DOMAIN set[c] : set[c][i] = set[c][j] => i = j
  BY DEF SyncIInv, SyncInv, SyncOf, PendingOf
<1>2. QED
  BY <1>1 DEF SyncIInv, IInv, TypeOK, JobsPerRank

(* What the client holds on the rank at place i of its set, before and     *)
(* after a step of the same call.                                          *)
LEMMA AtPlace ==
    ASSUME SyncIInv, NEW c \in Client, NEW i \in DOMAIN set[c], set'[c] = set[c],
           kind'[c] = kind[c], NEW r, r = set[c][i]
    PROVE  /\ Held(c, r) = HeldAt(pc[c], at[c], got[c], errAt[c], JobsPerRank(c), i)
           /\ Held(c, r)' = HeldAt(pc'[c], at'[c], got'[c], errAt'[c], JobsPerRank(c), i)
           /\ Secured(c, r) <=> SecuredAt(pc[c], at[c], i)
           /\ Secured(c, r)' <=> SecuredAt(pc'[c], at'[c], i)
<1>1. {j \in DOMAIN set[c] : set[c][j] = r} = {i}
  BY OnePlace
<1>2. JobsPerRank(c)' = JobsPerRank(c)
  BY DEF JobsPerRank
<1>3. Held(c, r) = HeldAt(pc[c], at[c], got[c], errAt[c], JobsPerRank(c), i)
  BY <1>1 DEF Held, HeldAt, Adding
<1>4. Held(c, r)' = HeldAt(pc'[c], at'[c], got'[c], errAt'[c], JobsPerRank(c), i)
  BY <1>1, <1>2 DEF Held, HeldAt, Adding
<1>5. Secured(c, r) <=> SecuredAt(pc[c], at[c], i)
  BY <1>1 DEF Secured
<1>6. Secured(c, r)' <=> SecuredAt(pc'[c], at'[c], i)
  BY <1>1 DEF Secured
<1>7. QED
  BY <1>3, <1>4, <1>5, <1>6

(* It holds nothing on a rank that is not in its set. *)
LEMMA NoPlace ==
    ASSUME NEW c \in Client, NEW r \in Rank, \A i \in DOMAIN set[c] : set[c][i] # r,
           set'[c] = set[c]
    PROVE  /\ Held(c, r) = 0 /\ ~Secured(c, r)
           /\ Held(c, r)' = 0 /\ ~Secured(c, r)'
<1>1. {j \in DOMAIN set[c] : set[c][j] = r} = {}
  OBVIOUS
<1>2. QED
  BY <1>1 DEF Held, Secured

(* The pool and the FIFO of a rank. *)
LEMMA PoolType ==
    ASSUME IInv, NEW r \in Rank
    PROVE  available[r] \in Nat /\ Len(jobs[r]) \in Nat /\ jobError[r] \in {"OK", "ERR"}
BY DEF IInv, TypeOK, Status

(* A step of a call keeps the slots of a rank when it moves x of them      *)
(* between the client and the rest.                                        *)
LEMMA SlotsMoved ==
    ASSUME SyncIInv, NEW c \in Client, NEW i \in DOMAIN set[c], NEW r \in Rank, r = set[c][i],
           set'[c] = set[c], kind'[c] = kind[c], NEW x \in Int, SlotOf(c, r),
           available'[r] + Len(jobs'[r]) = available[r] + Len(jobs[r]) + x,
           HeldAt(pc'[c], at'[c], got'[c], errAt'[c], JobsPerRank(c), i)
              = HeldAt(pc[c], at[c], got[c], errAt[c], JobsPerRank(c), i) - x,
           Lost(c, r) => /\ jobError'[r] = jobError[r]
                         /\ SecuredAt(pc'[c], at'[c], i) => SecuredAt(pc[c], at[c], i)
                         /\ c \in slotWait'[r] => c \in slotWait[r]
    PROVE  SlotOf(c, r)'
<1>1. /\ Held(c, r) = HeldAt(pc[c], at[c], got[c], errAt[c], JobsPerRank(c), i)
      /\ Held(c, r)' = HeldAt(pc'[c], at'[c], got'[c], errAt'[c], JobsPerRank(c), i)
      /\ Secured(c, r) <=> SecuredAt(pc[c], at[c], i)
      /\ Secured(c, r)' <=> SecuredAt(pc'[c], at'[c], i)
  BY AtPlace
<1>2. available[r] \in Nat /\ Len(jobs[r]) \in Nat /\ NrJobs \in Nat
  BY PoolType, NrJobsAssumption DEF SyncIInv
<1>3. Held(c, r) \in Nat
  BY <1>1, OnePlace DEF HeldAt
<1>4. CASE Conserved(c, r)
  <2>1. Held(c, r)' = Held(c, r) - x
    BY <1>1
  <2>2. available'[r] + Len(jobs'[r]) + Held(c, r)' = NrJobs
    BY <1>2, <1>3, <1>4, <2>1 DEF Conserved
  <2>3. QED
    BY <2>2 DEF SlotOf, Conserved
<1>5. CASE Lost(c, r)
  BY <1>1, <1>5 DEF SlotOf, Lost
<1>6. QED
  BY <1>4, <1>5 DEF SlotOf

(* A step of a call that leaves the pool and the FIFO of a rank alone, and *)
(* what the client holds there.                                            *)
LEMMA SlotsStill ==
    ASSUME SyncIInv, NEW c \in Client, NEW r \in Rank, SlotOf(c, r),
           set'[c] = set[c], kind'[c] = kind[c],
           available'[r] = available[r], jobs'[r] = jobs[r],
           \A i \in DOMAIN set[c] : r = set[c][i] =>
              /\ HeldAt(pc'[c], at'[c], got'[c], errAt'[c], JobsPerRank(c), i)
                    = HeldAt(pc[c], at[c], got[c], errAt[c], JobsPerRank(c), i)
              /\ Lost(c, r) /\ SecuredAt(pc'[c], at'[c], i) => SecuredAt(pc[c], at[c], i),
           Lost(c, r) => /\ jobError'[r] = jobError[r]
                         /\ c \in slotWait'[r] => c \in slotWait[r]
    PROVE  SlotOf(c, r)'
<1>1. CASE \E i \in DOMAIN set[c] : r = set[c][i]
  <2>1. PICK i \in DOMAIN set[c] : r = set[c][i]
    BY <1>1
  <2>2. /\ Held(c, r) = HeldAt(pc[c], at[c], got[c], errAt[c], JobsPerRank(c), i)
        /\ Held(c, r)' = HeldAt(pc'[c], at'[c], got'[c], errAt'[c], JobsPerRank(c), i)
        /\ Secured(c, r) <=> SecuredAt(pc[c], at[c], i)
        /\ Secured(c, r)' <=> SecuredAt(pc'[c], at'[c], i)
    BY <2>1, AtPlace
  <2>3. Held(c, r)' = Held(c, r) /\ (Lost(c, r) /\ Secured(c, r)' => Secured(c, r))
    BY <2>1, <2>2
  <2>4. QED
    BY <2>3 DEF SlotOf, Conserved, Lost
<1>2. CASE \A i \in DOMAIN set[c] : r # set[c][i]
  <2>1. /\ Held(c, r) = 0 /\ Held(c, r)' = 0 /\ ~Secured(c, r)'
    BY <1>2, NoPlace
  <2>2. QED
    BY <2>1 DEF SlotOf, Conserved, Lost
<1>3. QED
  BY <1>1, <1>2

(* The application calls the API. *)
LEMMA CallSlots ==
    ASSUME SyncIInv, NEW c \in Client, NEW r \in Rank, SlotOf(c, r), Call(c)
    PROVE  SlotOf(c, r)'
<1>1. /\ pc[c] = "idle" /\ pc'[c] = "get" /\ at'[c] = 1 /\ got'[c] = 0
      /\ available' = available /\ jobs' = jobs /\ jobError' = jobError /\ slotWait' = slotWait
  BY DEF Call, rankVars, SyncIInv, IInv, TypeOK
<1>2. Held(c, r) = 0
  BY <1>1 DEF Held
<1>3. set'[c] \in Seq(Rank)
  <2>1. PICK s \in DpuSets[c] : set' = [set EXCEPT ![c] = s]
    BY DEF Call
  <2>2. s \in Seq(Rank) /\ set \in [Client -> Seq(Rank)]
    BY DpuSetsAssumption DEF SyncIInv, IInv, TypeOK
  <2>3. QED
    BY <2>1, <2>2
<1>4. \A i \in DOMAIN set'[c] : ~(i < 1)
  BY <1>3
<1>5. Held(c, r)' = 0
  BY <1>1, <1>4 DEF Held
<1>6. ~Secured(c, r)'
  BY <1>1, <1>4 DEF Secured, SecuredAt
<1>7. QED
  BY <1>1, <1>2, <1>5, <1>6 DEF SlotOf, Conserved, Lost

(* The place of the loop, of a client that is in one. *)
LEMMA PlaceOf ==
    ASSUME SyncIInv, NEW c \in Client,
           \/ pc[c] \in {"get", "unget", "addq", "reset"}
           \/ pc[c] = "add" /\ at[c] <= Len(set[c])
    PROVE  at[c] \in DOMAIN set[c] /\ CurRank(c) = set[c][at[c]] /\ CurRank(c) \in Rank
<1>1. set[c] \in Seq(Rank) /\ at[c] \in Nat /\ errAt[c] \in Nat
  BY DEF SyncIInv, IInv, TypeOK
<1>2. at[c] \in 1..Len(set[c])
  BY <1>1 DEF SyncIInv, IInv, IndexInv, IndexOf
<1>3. QED
  BY <1>1, <1>2 DEF CurRank

(* dpu_thread_job_get_jobs takes the slots of a rank. *)
LEMMA GetSlots ==
    ASSUME SyncIInv, NEW c \in Client, BlockedOf(c), NEW r \in Rank, SlotOf(c, r),
           GetJobs(c) \/ WaitForSlot(c)
    PROVE  SlotOf(c, r)'
<1>1. pc[c] = "get"
  BY DEF GetJobs, WaitForSlot
<1>2. at[c] \in DOMAIN set[c] /\ CurRank(c) = set[c][at[c]] /\ CurRank(c) \in Rank
  BY <1>1, PlaceOf
<1>3. /\ set'[c] = set[c] /\ kind'[c] = kind[c] /\ jobs' = jobs /\ jobError' = jobError
      /\ jobError[CurRank(c)] = "OK" /\ errAt'[c] = errAt[c]
      /\ \A s \in Rank \ {CurRank(c)} : available'[s] = available[s] /\ slotWait'[s] = slotWait[s]
  BY DEF GetJobs, WaitForSlot, SyncIInv, IInv, TypeOK
<1>4. /\ Len(set[c]) \in Nat /\ DOMAIN set[c] = 1..Len(set[c])
      /\ \A i, j \in DOMAIN set[c] : set[c][i] = set[c][j] => i = j
      /\ at[c] \in Nat /\ errAt[c] \in Nat /\ got[c] \in Nat
      /\ JobsPerRank(c) \in {1, 2}
  BY OnePlace
<1>5. \/ pc'[c] = "get" /\ at'[c] = at[c] + 1 /\ got'[c] = 0 /\ GetJobs(c)
      \/ pc'[c] = "add" /\ at'[c] = 1 /\ got'[c] = 0 /\ GetJobs(c) /\ at[c] = Len(set[c])
      \/ /\ pc'[c] = "get" /\ at'[c] = at[c] /\ WaitForSlot(c)
         /\ got'[c] = got[c] + available[CurRank(c)]
  <2>1. CASE GetJobs(c)
    BY SMTT(60), <1>1, <1>2, <1>4, <2>1 DEF GetJobs, Step, SyncIInv, IInv, TypeOK
  <2>2. CASE WaitForSlot(c)
    BY <1>1, <2>2 DEF WaitForSlot, SyncIInv, IInv, TypeOK
  <2>3. QED
    BY <2>1, <2>2
<1>6. CASE r # CurRank(c)
  <2>1. ASSUME NEW i \in DOMAIN set[c], r = set[c][i]
        PROVE  /\ HeldAt(pc'[c], at'[c], got'[c], errAt'[c], JobsPerRank(c), i)
                     = HeldAt(pc[c], at[c], got[c], errAt[c], JobsPerRank(c), i)
               /\ SecuredAt(pc'[c], at'[c], i) => SecuredAt(pc[c], at[c], i)
    <3>1. i # at[c] /\ i \in 1..Len(set[c])
      BY <1>2, <1>4, <1>6, <2>1
    <3>2. QED
      BY <1>1, <1>2, <1>4, <1>5, <3>1 DEF HeldAt, SecuredAt, Adding
  <2>2. QED
    BY <1>3, <1>6, <2>1, SlotsStill
<1>7. CASE r = CurRank(c)
  <2>1. available[r] \in Nat /\ Len(jobs[r]) \in Nat
    BY PoolType DEF SyncIInv
  <2>2. ~Lost(c, r)
    BY <1>3, <1>7 DEF Lost
  <2>3. HeldAt(pc[c], at[c], got[c], errAt[c], JobsPerRank(c), at[c]) = got[c]
    BY <1>1 DEF HeldAt
  <2>4. CASE GetJobs(c)
    <3>1. available'[r] = available[r] - (JobsPerRank(c) - got[c])
      BY <1>7, <2>4 DEF GetJobs, SyncIInv, IInv, TypeOK
    <3>2. \/ pc'[c] = "get" /\ at'[c] = at[c] + 1
          \/ pc'[c] = "add" /\ at'[c] = 1
      BY <2>4, <1>1 DEF GetJobs, Step, SyncIInv, IInv, TypeOK
    <3>3. HeldAt(pc'[c], at'[c], got'[c], errAt'[c], JobsPerRank(c), at[c]) = JobsPerRank(c)
      BY <1>2, <1>4, <3>2 DEF HeldAt, Adding
    <3>4. available'[r] + Len(jobs'[r]) = available[r] + Len(jobs[r]) + (got[c] - JobsPerRank(c))
      <4> DEFINE v == available[r]
                 n == Len(jobs[r])
                 k == JobsPerRank(c)
      <4>1. /\ v \in Nat /\ n \in Nat /\ k \in {1, 2} /\ got[c] \in Nat
            /\ available'[r] = v - (k - got[c]) /\ Len(jobs'[r]) = n
        BY <1>3, <1>4, <2>1, <3>1
      <4> HIDE DEF v, n, k
      <4>2. available'[r] + Len(jobs'[r]) = v + n + (got[c] - k)
        BY <4>1
      <4>3. QED
        BY <4>2 DEF v, n, k
    <3>5. JobsPerRank(c) = got[c] - (got[c] - JobsPerRank(c)) /\ got[c] - JobsPerRank(c) \in Int
      BY <1>4
    <3>6. QED
      BY <1>2, <1>3, <1>7, <2>2, <2>3, <3>3, <3>4, <3>5, SlotsMoved
  <2>5. CASE WaitForSlot(c)
    <3>1. available'[r] = 0 /\ got'[c] = got[c] + available[r] /\ pc'[c] = "get" /\ at'[c] = at[c]
      BY <1>1, <1>7, <2>5 DEF WaitForSlot, SyncIInv, IInv, TypeOK
    <3>2. HeldAt(pc'[c], at'[c], got'[c], errAt'[c], JobsPerRank(c), at[c]) = got[c] - (- available[r])
      BY <1>4, <2>1, <3>1 DEF HeldAt
    <3>3. available'[r] + Len(jobs'[r]) = available[r] + Len(jobs[r]) + (- available[r])
      BY <1>3, <2>1, <3>1
    <3>4. - available[r] \in Int
      BY <2>1
    <3>5. QED
      BY <1>2, <1>3, <1>7, <2>2, <2>3, <3>2, <3>3, <3>4, SlotsMoved
  <2>6. QED
    BY <2>4, <2>5
<1>8. QED
  BY <1>6, <1>7

(* dpu_thread_job_unget_jobs gives the slots of a rank back. *)
LEMMA UngetSlots ==
    ASSUME SyncIInv, NEW c \in Client, NEW r \in Rank, SlotOf(c, r),
           GetJobsFails(c) \/ UngetJobs(c) \/ GetJobsReturns(c)
    PROVE  SlotOf(c, r)'
<1>1. pc[c] \in {"get", "unget"}
  BY DEF GetJobsFails, UngetJobs, GetJobsReturns
<1>2. at[c] \in DOMAIN set[c] /\ CurRank(c) = set[c][at[c]] /\ CurRank(c) \in Rank
  BY <1>1, PlaceOf
<1>3. /\ set'[c] = set[c] /\ kind'[c] = kind[c] /\ jobs' = jobs /\ jobError' = jobError
      /\ slotWait' = slotWait
      /\ \A s \in Rank \ {CurRank(c)} : available'[s] = available[s]
  BY DEF GetJobsFails, UngetJobs, GetJobsReturns, Return, SyncIInv, IInv, TypeOK
<1>4. /\ Len(set[c]) \in Nat /\ DOMAIN set[c] = 1..Len(set[c])
      /\ \A i, j \in DOMAIN set[c] : set[c][i] = set[c][j] => i = j
      /\ at[c] \in Nat /\ errAt[c] \in Nat /\ got[c] \in Nat
      /\ JobsPerRank(c) \in {1, 2}
  BY OnePlace
<1>5. \/ pc[c] = "get" /\ pc'[c] = "unget" /\ at'[c] = 1 /\ errAt'[c] = at[c]
      \/ pc[c] = "unget" /\ pc'[c] = "unget" /\ at'[c] = at[c] + 1 /\ errAt'[c] = errAt[c]
      \/ pc[c] = "unget" /\ pc'[c] = "idle" /\ at[c] = errAt[c]
  <2> USE DEF SyncIInv, IInv, TypeOK
  <2>1. CASE GetJobsFails(c)
    BY <2>1 DEF GetJobsFails
  <2>2. CASE UngetJobs(c)
    BY <2>2 DEF UngetJobs, Step
  <2>3. CASE GetJobsReturns(c)
    BY <2>3 DEF GetJobsReturns, Return
  <2>4. QED
    BY <2>1, <2>2, <2>3
<1>6. \A i : ~SecuredAt(pc'[c], at'[c], i)
  BY <1>5 DEF SecuredAt
<1>7. CASE r # CurRank(c) \/ GetJobsReturns(c)
  <2>1. ASSUME NEW i \in DOMAIN set[c], r = set[c][i]
        PROVE  HeldAt(pc'[c], at'[c], got'[c], errAt'[c], JobsPerRank(c), i)
                  = HeldAt(pc[c], at[c], got[c], errAt[c], JobsPerRank(c), i)
    <3>1. i \in 1..Len(set[c]) /\ (i # at[c] \/ GetJobsReturns(c))
      BY <1>2, <1>4, <1>7, <2>1
    <3>2. CASE GetJobsReturns(c)
      <4>1. pc[c] = "unget" /\ at[c] = errAt[c] /\ pc'[c] = "idle"
        BY <3>2 DEF GetJobsReturns, Return, SyncIInv, IInv, TypeOK
      <4>2. QED
        BY <1>4, <3>1, <4>1 DEF HeldAt, Adding
    <3>3. CASE i # at[c]
      BY <1>2, <1>4, <1>5, <3>1, <3>3 DEF HeldAt, Adding
    <3>4. QED
      BY <3>1, <3>2, <3>3
  <2>2. available'[r] = available[r]
    BY <1>3, <1>7 DEF GetJobsReturns
  <2>3. QED
    BY <1>3, <1>6, <2>1, <2>2, SlotsStill
<1>8. CASE r = CurRank(c) /\ UngetJobs(c)
  <2>1. available[r] \in Nat /\ Len(jobs[r]) \in Nat
    BY PoolType DEF SyncIInv
  <2>2. /\ available'[r] = available[r] + JobsPerRank(c)
        /\ pc[c] = "unget" /\ pc'[c] = "unget" /\ at'[c] = at[c] + 1
        /\ at[c] < errAt[c] /\ errAt'[c] = errAt[c]
    BY <1>8 DEF UngetJobs, Step, SyncIInv, IInv, TypeOK
  <2>3. /\ HeldAt(pc[c], at[c], got[c], errAt[c], JobsPerRank(c), at[c]) = JobsPerRank(c)
        /\ HeldAt(pc'[c], at'[c], got'[c], errAt'[c], JobsPerRank(c), at[c]) = 0
    BY <1>4, <2>2 DEF HeldAt, Adding
  <2>4. available'[r] + Len(jobs'[r]) = available[r] + Len(jobs[r]) + JobsPerRank(c)
    BY SMTT(60), <1>3, <1>4, <2>1, <2>2
  <2>5. 0 = JobsPerRank(c) - JobsPerRank(c) /\ JobsPerRank(c) \in Int
    BY <1>4
  <2>6. QED
    BY <1>2, <1>3, <1>6, <1>8, <2>3, <2>4, <2>5, SlotsMoved
<1>9. CASE r = CurRank(c) /\ GetJobsFails(c)
  <2>1. jobError[r] \in {"OK", "ERR"} /\ jobError[r] # "OK" /\ c \notin slotWait[r]
    BY <1>9, PoolType DEF GetJobsFails, SyncIInv
  <2>2. ~Secured(c, r)'
    BY <1>6 DEF Secured
  <2>3. QED
    BY <1>3, <2>1, <2>2 DEF SlotOf, Lost
<1>10. QED
  BY <1>7, <1>8, <1>9

(* dpu_thread_job_add_jobs puts the slots of a rank in its FIFO. *)
LEMMA AddSlots ==
    ASSUME SyncIInv, NEW c \in Client, NEW r \in Rank, SlotOf(c, r),
           AddJobs(c) \/ AddFirstJobs(c)
    PROVE  SlotOf(c, r)'
<1>1. at[c] \in DOMAIN set[c] /\ CurRank(c) = set[c][at[c]] /\ CurRank(c) \in Rank
  BY PlaceOf DEF AddJobs, AddFirstJobs
<1>2. /\ set'[c] = set[c] /\ kind'[c] = kind[c] /\ available' = available
      /\ jobError' = jobError /\ slotWait' = slotWait
      /\ pc[c] \in Adding /\ pc'[c] = "add" /\ at'[c] = at[c] + 1
      /\ jobs' = [jobs EXCEPT ![CurRank(c)] = jobs[CurRank(c)] \o JobsOf(c)]
  <2> USE DEF Step, SyncIInv, IInv, TypeOK, Adding
  <2>1. CASE AddJobs(c)
    BY <2>1 DEF AddJobs
  <2>2. CASE AddFirstJobs(c)
    BY <2>2 DEF AddFirstJobs
  <2>3. QED
    BY <2>1, <2>2
<1>3. /\ Len(set[c]) \in Nat /\ DOMAIN set[c] = 1..Len(set[c])
      /\ \A i, j \in DOMAIN set[c] : set[c][i] = set[c][j] => i = j
      /\ at[c] \in Nat /\ JobsPerRank(c) \in {1, 2}
  BY OnePlace
<1>4. \A i : SecuredAt(pc[c], at[c], i)
  BY <1>2 DEF SecuredAt, Adding
<1>5. CASE r # CurRank(c)
  <2>1. ASSUME NEW i \in DOMAIN set[c], r = set[c][i]
        PROVE  HeldAt(pc'[c], at'[c], got'[c], errAt'[c], JobsPerRank(c), i)
                  = HeldAt(pc[c], at[c], got[c], errAt[c], JobsPerRank(c), i)
    <3>1. i # at[c] /\ i \in 1..Len(set[c])
      BY <1>1, <1>3, <1>5, <2>1
    <3>2. QED
      BY <1>2, <1>3, <3>1 DEF HeldAt, Adding
  <2>2. jobs'[r] = jobs[r]
    BY <1>2, <1>5 DEF SyncIInv, IInv, TypeOK
  <2>3. QED
    BY <1>2, <1>4, <2>1, <2>2, SlotsStill
<1>6. CASE r = CurRank(c)
  <2>1. available[r] \in Nat /\ Len(jobs[r]) \in Nat
    BY PoolType DEF SyncIInv
  <2>2. Len(JobsOf(c)) = JobsPerRank(c)
    BY JobsShape DEF JobsPerRank, SyncIInv
  <2>3. Len(jobs'[r]) = Len(jobs[r]) + JobsPerRank(c)
    <3>1. jobs'[r] = jobs[r] \o JobsOf(c)
      BY <1>2, <1>6 DEF SyncIInv, IInv, TypeOK
    <3>2. jobs[r] \in Seq(Job) /\ JobsOf(c) \in Seq(Job)
      BY JobsOfType DEF SyncIInv, IInv, TypeOK
    <3>3. Len(jobs[r] \o JobsOf(c)) = Len(jobs[r]) + Len(JobsOf(c))
      BY <3>2, ConcatProperties
    <3>4. QED
      BY <2>2, <3>1, <3>3
  <2>4. /\ HeldAt(pc[c], at[c], got[c], errAt[c], JobsPerRank(c), at[c]) = JobsPerRank(c)
        /\ HeldAt(pc'[c], at'[c], got'[c], errAt'[c], JobsPerRank(c), at[c]) = 0
    BY <1>2, <1>3 DEF HeldAt, Adding
  <2>5. available'[r] + Len(jobs'[r]) = available[r] + Len(jobs[r]) + JobsPerRank(c)
    BY <1>2, <1>3, <2>1, <2>3
  <2>6. 0 = JobsPerRank(c) - JobsPerRank(c) /\ JobsPerRank(c) \in Int
    BY <1>3
  <2>7. QED
    BY <1>1, <1>2, <1>4, <1>6, <2>4, <2>5, <2>6, SlotsMoved
<1>7. QED
  BY <1>5, <1>6

(* The rest of a call moves no slot; the rank whose job_error it resets    *)
(* has lost none.                                                          *)
LEMMA EndSlots ==
    ASSUME SyncIInv, NEW c \in Client, NEW r \in Rank, SlotOf(c, r),
           AddJobsLocksRank(c) \/ AddJobsDone(c) \/ WaitSyncJob(c) \/ ResetJobError(c)
    PROVE  SlotOf(c, r)'
<1>1. /\ set'[c] = set[c] /\ kind'[c] = kind[c] /\ available' = available /\ jobs' = jobs
      /\ slotWait' = slotWait
  BY DEF AddJobsLocksRank, AddJobsDone, WaitSyncJob, ResetJobError, Return, rankVars,
         clientVars, SyncIInv, IInv, TypeOK
<1>2. \/ pc[c] = "add" /\ pc'[c] = "addq" /\ at'[c] = at[c]
      \/ pc[c] = "add" /\ pc'[c] \in {"idle", "wait"} /\ at[c] > Len(set[c])
      \/ pc[c] \in {"wait", "reset"} /\ pc'[c] \in {"wait", "reset", "idle"}
  <2> USE DEF SyncIInv, IInv, TypeOK, clientVars
  <2>1. CASE AddJobsLocksRank(c)
    BY <2>1 DEF AddJobsLocksRank
  <2>2. CASE AddJobsDone(c)
    BY <2>2 DEF AddJobsDone, Return
  <2>3. CASE WaitSyncJob(c)
    BY <2>3 DEF WaitSyncJob, Return
  <2>4. CASE ResetJobError(c)
    BY <2>4 DEF ResetJobError, Return
  <2>5. QED
    BY <2>1, <2>2, <2>3, <2>4
<1>3. ASSUME NEW i \in DOMAIN set[c]
      PROVE  /\ HeldAt(pc'[c], at'[c], got'[c], errAt'[c], JobsPerRank(c), i)
                   = HeldAt(pc[c], at[c], got[c], errAt[c], JobsPerRank(c), i)
             /\ SecuredAt(pc[c], at[c], i)
  <2>1. i \in 1..Len(set[c]) /\ Len(set[c]) \in Nat /\ at[c] \in Nat
    BY <1>3, OnePlace
  <2>2. QED
    BY <1>2, <2>1 DEF HeldAt, SecuredAt, Adding
<1>4. Lost(c, r) => jobError'[r] = jobError[r]
  <2>1. CASE ResetJobError(c)
    <3>1. at[c] \in DOMAIN set[c] /\ CurRank(c) = set[c][at[c]]
      BY <2>1, PlaceOf DEF ResetJobError
    <3>2. Secured(c, CurRank(c))
      BY <1>3, <3>1 DEF Secured
    <3>3. QED
      BY <2>1, <3>2 DEF ResetJobError, Lost, SyncIInv, IInv, TypeOK
  <2>2. CASE ~ResetJobError(c)
    BY <2>2 DEF AddJobsLocksRank, AddJobsDone, WaitSyncJob, rankVars
  <2>3. QED
    BY <2>1, <2>2
<1>5. QED
  BY <1>1, <1>3, <1>4, SlotsStill

(* The slot of a job that leaves its FIFO goes back to the pool, and wakes *)
(* up the client when the pool was empty.                                  *)
LEMMA ReleaseSlots ==
    ASSUME SyncIInv, OneClient, NEW c \in Client, BlockedOf(c), NEW s \in Rank,
           jobs[s] # <<>>, jobs' = [jobs EXCEPT ![s] = Tail(jobs[s])], ReleaseJobSlot(s),
           UNCHANGED clientVars, jobError' = jobError
    PROVE  /\ \A r \in Rank : SlotOf(c, r) => SlotOf(c, r)'
           /\ BlockedOf(c)'
<1>1. /\ UNCHANGED <<pc, kind, set, at, got, errAt>>
  BY DEF clientVars
<1>2. /\ available'[s] = available[s] + 1
      /\ \A r \in Rank \ {s} : /\ available'[r] = available[r] /\ jobs'[r] = jobs[r]
                               /\ slotWait'[r] = slotWait[r]
      /\ slotWait'[s] \subseteq slotWait[s]
  BY SMTT(60) DEF ReleaseJobSlot, SyncIInv, IInv, TypeOK
<1>3. c \notin slotWait'[s]
  <2>1. slotWait[s] \subseteq {c}
    BY DEF OneClient, SyncIInv, IInv, TypeOK
  <2>2. CASE c \in slotWait[s]
    <3>1. available[s] = 0
      BY <2>2 DEF BlockedOf
    <3>2. PICK d \in slotWait[s] : slotWait' = [slotWait EXCEPT ![s] = @ \ {d}]
      BY <2>2, <3>1 DEF ReleaseJobSlot
    <3>3. QED
      BY <2>1, <3>2 DEF SyncIInv, IInv, TypeOK
  <2>3. CASE c \notin slotWait[s]
    BY <1>2, <2>3
  <2>4. QED
    BY <2>2, <2>3
<1>4. \A r \in Rank : Held(c, r)' = Held(c, r) /\ Secured(c, r)' = Secured(c, r)
  BY <1>1 DEF Held, Secured, JobsPerRank
<1>5. available'[s] + Len(jobs'[s]) = available[s] + Len(jobs[s])
  <2>1. jobs[s] \in Seq(Job) /\ jobs'[s] = Tail(jobs[s]) /\ Len(Tail(jobs[s])) = Len(jobs[s]) - 1
    BY HeadTailProperties DEF SyncIInv, IInv, TypeOK
  <2>2. available[s] \in Nat /\ Len(jobs[s]) \in Nat
    BY PoolType DEF SyncIInv
  <2> DEFINE n == Len(jobs[s])
             m == Len(jobs'[s])
  <2>3. n \in Nat /\ m = n - 1
    BY <2>1, <2>2
  <2> HIDE DEF n, m
  <2>4. available'[s] + m = available[s] + n
    BY <1>2, <2>2, <2>3
  <2>5. QED
    BY <2>4 DEF n, m
<1>6. ASSUME NEW r \in Rank, SlotOf(c, r)
      PROVE  SlotOf(c, r)'
  <2>1. c \in slotWait'[r] => c \in slotWait[r]
    BY <1>2
  <2>2. available'[r] + Len(jobs'[r]) = available[r] + Len(jobs[r])
    BY <1>2, <1>5
  <2>3. QED
    BY <1>4, <1>6, <2>1, <2>2 DEF SlotOf, Conserved, Lost
<1>7. BlockedOf(c)'
  BY <1>1, <1>2, <1>3 DEF BlockedOf, CurRank, JobsPerRank
<1>8. QED
  BY <1>6, <1>7

(* A worker leaves the slots alone, or releases the one of a job. *)
LEMMA WorkerSlots ==
    ASSUME SyncIInv, OneClient, NEW c \in Client, BlockedOf(c), NEW w \in Worker, WorkerStep(w)
    PROVE  /\ \A r \in Rank : SlotOf(c, r) => SlotOf(c, r)'
           /\ BlockedOf(c)'
<1>1. CASE /\ UNCHANGED <<jobs, available, slotWait>> /\ UNCHANGED clientVars
           /\ \A r \in Rank : jobError'[r] = jobError[r] \/ jobError'[r] = "ERR"
  <2>1. UNCHANGED <<pc, kind, set, at, got, errAt>>
    BY <1>1 DEF clientVars
  <2>2. \A r \in Rank : Held(c, r)' = Held(c, r) /\ Secured(c, r)' = Secured(c, r)
    BY <2>1 DEF Held, Secured, JobsPerRank
  <2>3. \A r \in Rank : SlotOf(c, r) => SlotOf(c, r)'
    BY <1>1, <2>2 DEF SlotOf, Conserved, Lost
  <2>4. BlockedOf(c)'
    BY <1>1, <2>1 DEF BlockedOf, CurRank, JobsPerRank
  <2>5. QED
    BY <2>3, <2>4
<1>2. CASE /\ wpc[w] # "main" /\ jobs[wrank[w]] # <<>>
           /\ jobs' = [jobs EXCEPT ![wrank[w]] = Tail(jobs[wrank[w]])]
           /\ ReleaseJobSlot(wrank[w]) /\ UNCHANGED clientVars /\ jobError' = jobError
  BY <1>2, WorkerRankType, ReleaseSlots DEF SyncIInv
<1>3. CASE TakeRank(w) \/ LockRank(w) \/ ComputeJob(w) \/ ComputeSyncJob(w) \/ NotifySync(w)
           \/ ClearDone(w) \/ UnlockRank(w)
  BY <1>1, <1>3 DEF TakeRank, LockRank, ComputeJob, ComputeSyncJob, NotifySync, ClearDone,
                    UnlockRank, rankVars
<1>4. CASE UpdateStatus(w)
  BY <1>1, <1>4 DEF UpdateStatus, SyncIInv, IInv, TypeOK
<1>5. CASE AdvanceToNextJob(w) \/ ClearJob(w) \/ ClearNotifySync(w)
  <2>1. wpc[w] # "main" /\ jobs[wrank[w]] # <<>>
    BY <1>5, WorkerRankType DEF AdvanceToNextJob, ClearJob, ClearNotifySync, SyncIInv
  <2>2. QED
    BY <1>2, <1>5, <2>1 DEF AdvanceToNextJob, ClearJob, ClearNotifySync
<1>6. CASE ClearSyncJob(w)
  BY <1>1, <1>2, <1>6 DEF ClearSyncJob
<1>7. QED
  BY <1>3, <1>4, <1>5, <1>6 DEF WorkerStep

(* A client is blocked by WaitForSlot only, and then goes nowhere until it *)
(* is woken up.                                                            *)
LEMMA ClientBlocked ==
    ASSUME SyncIInv, NEW c \in Client, BlockedOf(c), Call(c) \/ InCall(c)
    PROVE  BlockedOf(c)'
<1>1. got[c] \in Nat /\ JobsPerRank(c) \in {1, 2} /\ \A r \in Rank : available[r] \in Nat
  BY OnePlace, PoolType DEF SyncIInv
<1>2. CASE WaitForSlot(c)
  <2>1. PICK s \in Rank : s = CurRank(c)
    BY <1>2, PlaceOf DEF WaitForSlot
  <2>2. /\ UNCHANGED <<pc, kind, set, at>> /\ got'[c] = got[c] + available[s]
        /\ available[s] < JobsPerRank(c) - got[c] /\ pc[c] = "get"
        /\ available'[s] = 0
        /\ \A r \in Rank \ {s} : slotWait'[r] = slotWait[r] /\ available'[r] = available[r]
    BY <1>2, <2>1 DEF WaitForSlot, SyncIInv, IInv, TypeOK
  <2>3. CurRank(c)' = CurRank(c) /\ JobsPerRank(c)' = JobsPerRank(c)
    BY <2>2 DEF CurRank, JobsPerRank
  <2>4. got'[c] < JobsPerRank(c)
    BY <1>1, <2>2
  <2>5. QED
    BY <2>1, <2>2, <2>3, <2>4 DEF BlockedOf
<1>3. ASSUME ~WaitForSlot(c)
      PROVE  \A r \in Rank : c \notin slotWait[r]
  <2>1. CASE pc[c] = "get"
    BY <1>3, <2>1 DEF Call, InCall, GetJobs, GetJobsFails, UngetJobs, GetJobsReturns, AddJobs,
          AddJobsLocksRank, AddFirstJobs, AddJobsDone, WaitSyncJob, ResetJobError, BlockedOf
  <2>2. CASE pc[c] # "get"
    BY <2>2 DEF BlockedOf
  <2>3. QED
    BY <2>1, <2>2
<1>4. CASE ~WaitForSlot(c)
  <2>1. slotWait' = slotWait
    BY <1>4 DEF Call, InCall, GetJobs, GetJobsFails, UngetJobs, GetJobsReturns, AddJobs,
          AddJobsLocksRank, AddFirstJobs, AddJobsDone, WaitSyncJob, ResetJobError, rankVars
  <2>2. pc'[c] = "get" => got'[c] = 0
    <3> USE DEF SyncIInv, IInv, TypeOK
    <3>1. CASE Call(c)
      BY <3>1 DEF Call
    <3>2. CASE GetJobs(c)
      BY <3>2 DEF GetJobs
    <3>3. CASE GetJobsFails(c) \/ UngetJobs(c) \/ GetJobsReturns(c)
      BY <3>3 DEF GetJobsFails, UngetJobs, GetJobsReturns, Return
    <3>4. CASE AddJobs(c) \/ AddJobsLocksRank(c) \/ AddFirstJobs(c)
      BY <3>4 DEF AddJobs, AddJobsLocksRank, AddFirstJobs
    <3>5. CASE AddJobsDone(c)
      BY <3>5 DEF AddJobsDone, Return
    <3>6. CASE WaitSyncJob(c)
      BY <3>6 DEF WaitSyncJob, Return, clientVars
    <3>7. CASE ResetJobError(c)
      BY <3>7 DEF ResetJobError, Return
    <3>8. QED
      BY <1>4, <3>1, <3>2, <3>3, <3>4, <3>5, <3>6, <3>7 DEF InCall
  <2>3. JobsPerRank(c)' \in {1, 2}
    BY DEF JobsPerRank
  <2>4. QED
    BY <1>3, <1>4, <2>1, <2>2, <2>3 DEF BlockedOf
<1>5. QED
  BY <1>2, <1>4

(* do_jobs resets job_error on its way to returning an error only, and a   *)
(* worker that fails a job sets it.                                        *)
LEMMA FailureKept ==
    ASSUME SyncIInv, NEW c \in Client, KeptOf(c),
           Call(c) \/ InCall(c) \/ \E w \in Worker : WorkerStep(w)
    PROVE  KeptOf(c)'
<1> USE DEF SyncIInv, IInv, TypeOK
<1>1. CASE jobError' = jobError /\ failed' = failed /\ (pc[c] = "reset" => pc'[c] = "reset")
  BY <1>1 DEF KeptOf
<1>2. CASE Call(c)
  BY <1>1, <1>2 DEF Call, rankVars
<1>3. CASE GetJobs(c) \/ WaitForSlot(c) \/ GetJobsFails(c) \/ UngetJobs(c) \/ AddJobs(c)
           \/ AddJobsLocksRank(c) \/ AddFirstJobs(c)
  BY <1>1, <1>3 DEF GetJobs, WaitForSlot, GetJobsFails, UngetJobs, AddJobs, AddJobsLocksRank,
                    AddFirstJobs
<1>4. CASE GetJobsReturns(c)
  BY <1>4 DEF GetJobsReturns, Return, KeptOf
<1>5. CASE AddJobsDone(c)
  BY <1>1, <1>5 DEF AddJobsDone, Return, rankVars
<1>6. CASE WaitSyncJob(c)
  BY <1>1, <1>6 DEF WaitSyncJob, Return, rankVars, clientVars
<1>7. CASE ResetJobError(c)
  <2>1. status[c] = "ERR" /\ pc[c] = "reset"
    BY <1>7 DEF ResetJobError, FifoInv, FifoOf, FailOf
  <2>2. CASE LastReset(c)
    BY <1>7, <2>1, <2>2 DEF ResetJobError, Return, KeptOf
  <2>3. CASE ~LastReset(c)
    BY <1>7, <2>1, <2>3 DEF ResetJobError, KeptOf
  <2>4. QED
    BY <2>2, <2>3
<1>8. ASSUME NEW w \in Worker, WorkerStep(w)
      PROVE  KeptOf(c)'
  <2>1. CASE UpdateStatus(w)
    <3>1. wrank[w] \in Rank
      BY <2>1, WorkerRankType DEF UpdateStatus
    <3>2. jobError'[wrank[w]] = "ERR"
      BY <2>1, <3>1 DEF UpdateStatus
    <3>3. QED
      BY <3>1, <3>2 DEF KeptOf
  <2>2. CASE ~UpdateStatus(w)
    BY <1>1, <1>8, <2>2 DEF WorkerStep, TakeRank, LockRank, ComputeJob, ComputeSyncJob,
          NotifySync, AdvanceToNextJob, ClearJob, ClearSyncJob, ClearNotifySync, ClearDone,
          UnlockRank, rankVars, clientVars
  <2>3. QED
    BY <2>1, <2>2
<1>9. QED
  BY <1>2, <1>3, <1>4, <1>5, <1>6, <1>7, <1>8 DEF InCall

-----------------------------------------------------------------------------

(* Every slot is in the pool at first. *)
LEMMA SlotInit == Init => SlotInv
<1>1. SUFFICES ASSUME Init, NEW c \in Client
               PROVE  BlockedOf(c) /\ KeptOf(c) /\ \A r \in Rank : SlotOf(c, r)
  BY DEF SlotInv
<1>2. ASSUME NEW r \in Rank
      PROVE  SlotOf(c, r)
  <2>1. /\ Held(c, r) = 0 /\ available[r] = NrJobs /\ jobs[r] = <<>> /\ NrJobs \in Nat
    BY <1>1, NrJobsAssumption DEF Init, Held
  <2>2. QED
    BY <2>1 DEF SlotOf, Conserved
<1>3. BlockedOf(c) /\ KeptOf(c)
  BY <1>1 DEF Init, BlockedOf, KeptOf
<1>4. QED
  BY <1>2, <1>3

(* A step of the one client or of a worker keeps the invariant. *)
LEMMA SlotStep ==
    ASSUME OneClient, SyncIInv, SlotInv, [Next]_vars
    PROVE  SlotInv'
<1>1. SUFFICES ASSUME NEW c \in Client
               PROVE  BlockedOf(c)' /\ KeptOf(c)' /\ \A r \in Rank : SlotOf(c, r)'
  BY DEF SlotInv
<1>2. BlockedOf(c) /\ KeptOf(c) /\ \A r \in Rank : SlotOf(c, r)
  BY DEF SlotInv
<1>3. CASE Call(c) \/ InCall(c)
  <2>1. BlockedOf(c)' /\ KeptOf(c)'
    BY <1>2, <1>3, ClientBlocked, FailureKept
  <2>2. ASSUME NEW r \in Rank
        PROVE  SlotOf(c, r)'
    <3>1. SlotOf(c, r)
      BY <1>2
    <3>2. QED
      BY <1>2, <1>3, <3>1, CallSlots, GetSlots, UngetSlots, AddSlots, EndSlots DEF InCall
  <2>3. QED
    BY <2>1, <2>2
<1>4. ASSUME NEW w \in Worker, WorkerStep(w)
      PROVE  BlockedOf(c)' /\ KeptOf(c)' /\ \A r \in Rank : SlotOf(c, r)'
  BY <1>2, <1>4, WorkerSlots, FailureKept
<1>5. CASE UNCHANGED vars \/ WakeForNoSlot(c)
  <2>0. /\ UNCHANGED <<jobs, available, jobError, clientVars, failed>>
        /\ \A r \in Rank : slotWait'[r] \subseteq slotWait[r]
    BY <1>5 DEF vars, rankVars, WakeForNoSlot, SyncIInv, IInv, TypeOK
  <2> USE DEF clientVars
  <2>1. BlockedOf(c)' /\ KeptOf(c)'
    BY <1>2, <2>0 DEF BlockedOf, KeptOf, CurRank, JobsPerRank
  <2>2. ASSUME NEW r \in Rank
        PROVE  SlotOf(c, r)'
    <3>1. Held(c, r)' = Held(c, r) /\ Secured(c, r)' = Secured(c, r)
      BY <2>0 DEF Held, Secured, JobsPerRank
    <3>2. QED
      BY <1>2, <2>0, <3>1 DEF SlotOf, Conserved, Lost
  <2>3. QED
    BY <2>1, <2>2
<1>6. \A d \in Client : d = c
  BY DEF OneClient
<1>7. QED
  BY <1>3, <1>4, <1>5, <1>6 DEF Next

(* The invariant of the slots holds in every reachable state, next to the  *)
(* one of the syncs.                                                       *)
THEOREM SlotInductive == OneClient => (Spec => [](SyncIInv /\ SlotInv))
<1>1. ASSUME OneClient
      PROVE  SyncIInv /\ SlotInv /\ [Next]_vars => SlotInv'
  BY <1>1, SlotStep
<1>2. ASSUME OneClient
      PROVE  Spec => [](SyncIInv /\ SlotInv)
  BY <1>1, <1>2, SlotInit, SyncInductive, PTL DEF Spec
<1>3. QED
  BY <1>2

(* No job slot is lost or handed out twice on a rank without job_error,    *)
(* with one thread that calls the API: those dpu_thread_job_get_jobs took  *)
(* come back from the FIFO through release_job_slot or from unget_jobs.    *)
THEOREM NoSlotLost == OneClient => (Spec => []SlotsConserved)
<1>1. SyncIInv /\ SlotInv => SlotsConserved
  BY DEF SlotInv, SlotOf, Conserved, Lost, SlotsConserved
<1>2. QED
  BY <1>1, SlotInductive, PTL

(* A client that dpu_thread_job_get_jobs blocked on an empty pool is       *)
(* blocked while the FIFO of the rank holds a job, whose slot will wake it *)
(* up, provided that the pool is large enough for one synchronous call.    *)
THEOREM BlockedWillBeWoken == OneClient /\ NrJobs >= 2 => (Spec => []WaiterWillBeWoken)
<1>1. NrJobs >= 2 /\ SyncIInv /\ SlotInv => WaiterWillBeWoken
  <2>1. SUFFICES ASSUME NrJobs >= 2, SyncIInv, SlotInv, NEW c \in Client, NEW r \in Rank,
                        c \in slotWait[r]
                 PROVE  jobs[r] # <<>>
    BY DEF WaiterWillBeWoken
  <2>2. /\ pc[c] = "get" /\ CurRank(c) = r /\ available[r] = 0 /\ got[c] < JobsPerRank(c)
        /\ Conserved(c, r)
    BY <2>1 DEF SlotInv, BlockedOf, SlotOf, Lost
  <2>3. at[c] \in DOMAIN set[c]
    BY <2>1, <2>2, PlaceOf
  <2>4. Held(c, r) = got[c]
    BY <2>2, <2>3 DEF Held, CurRank
  <2>5. got[c] \in Nat /\ JobsPerRank(c) \in {1, 2} /\ Len(jobs[r]) \in Nat /\ NrJobs \in Nat
    BY <2>1, OnePlace, PoolType, NrJobsAssumption DEF SyncIInv
  <2>6. Len(jobs[r]) # 0
    BY <2>1, <2>2, <2>4, <2>5 DEF Conserved
  <2>7. QED
    BY <2>6
<1>2. ASSUME OneClient, NrJobs >= 2
      PROVE  Spec => []WaiterWillBeWoken
  <2>1. SyncIInv /\ SlotInv => WaiterWillBeWoken
    BY <1>1, <1>2
  <2>2. QED
    BY <1>2, <2>1, SlotInductive, PTL
<1>3. QED
  BY <1>2

(* An asynchronous failure that no call has returned yet is still recorded *)
(* when the client is between two calls: do_jobs resets job_error only     *)
(* when the call returns an error itself.                                  *)
THEOREM FailureStaysRecorded == OneClient => (Spec => []AsyncFailureKept)
<1>1. SyncIInv /\ SlotInv => AsyncFailureKept
  BY DEF SlotInv, KeptOf, AsyncFailureKept
<1>2. QED
  BY <1>1, SlotInductive, PTL
=============================================================================
