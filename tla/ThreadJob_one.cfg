SPECIFICATION Spec
CONSTANTS
  r1 = r1
  r2 = r2
  q1 = q1
  c1 = c1
  c2 = c2
  Nobody = Nobody
  Rank = {r1, r2}
  Queue = {q1}
  Client = {c1}
  Worker = {w1, w2}
  QueueOf <- OneQueueOf
  WorkerQueue <- OneWorkerQueue
  DpuSets <- AllSets
  CallKinds <- AnyKind
  NrJobs = 3
  SpuriousWakeups = TRUE
INVARIANTS
  TypeOK
  ScheduledOnce
  NoForgottenRank
  SyncOutlivesItsJobs
  SyncAccounting
  SyncFailureReported
  AsyncFailureKept
  SlotsConserved
  WaiterWillBeWoken
CHECK_DEADLOCK FALSE
