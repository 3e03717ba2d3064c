SPECIFICATION FairSpec
CONSTANTS
    r1 = r1
    r2 = r2
    q1 = q1
    d1 = d1
    d2 = d2
    All = All
    Rank = {r1, r2}
    Dpu = {d1}
    Queue = {q1}
    QueueOf <- OneQueueOf
    Slot <- ListOrder
    Targets <- RankTarget
    MaxFailures = 1
INVARIANTS
    PollerAwake
    NoMissedBroadcast
PROPERTIES
    LaunchReturns
    PollerStops
CHECK_DEADLOCK FALSE
