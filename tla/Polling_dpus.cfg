SPECIFICATION Spec
CONSTANTS
    r1 = r1
    r2 = r2
    q1 = q1
    d1 = d1
    d2 = d2
    All = All
    Rank = {r1}
    Dpu = {d1, d2}
    Queue = {q1}
    QueueOf <- OneQueueOf
    Slot <- ListOrder
    Targets <- EveryTarget
    MaxFailures = 2
INVARIANTS
    RunContextCounts
    LaunchComplete
CHECK_DEADLOCK FALSE
