SPECIFICATION PreemptSpec
CONSTANTS
    r1 = r1
    r2 = r2
    q1 = q1
    d1 = d1
    All = All
    Rank = {r1, r2}
    RankAt <- TwoRanks
    Worker = {r1, r2}
    InfoOf <- OneWorkerEach
    Dpu = {d1}
    Queue = {q1}
    QueueOf <- OneQueueOf
    Slot <- ListOrder
    Targets <- RankTarget
    Modes = {"restart", "advance"}
    ResetMayFail = TRUE
    Slow = {}
    MaxLaunches = 2
    MaxClock = 2
    MaxFailures = 0
INVARIANTS
    UnfinishedReported
    DoneIsDone
CHECK_DEADLOCK FALSE
