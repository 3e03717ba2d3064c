SPECIFICATION PreemptFairSpec
CONSTANTS
    r1 = r1
    r2 = r2
    q1 = q1
    d1 = d1
    All = All
    Rank = {r1, r2}
    RankAt <- TwoRanks
    Worker = {r1}
    InfoOf <- OneWorkerEach
    Dpu = {d1}
    Queue = {q1}
    QueueOf <- OneQueueOf
    Slot <- ListOrder
    Targets <- RankTarget
    Modes = {"restart"}
    ResetMayFail = FALSE
    Slow = {r1, r2}
    MaxLaunches = 2
    MaxClock = 1
    MaxFailures = 0
PROPERTIES
    PreemptReturns
CHECK_DEADLOCK FALSE
