SPECIFICATION Spec
CONSTANTS
    Null = Null
    p1 = p1
    c1 = c1
    c2 = c2
    Calls <- TwoCallers
    Client = {c1, c2}
    Rank = {r1, r2}
    Poller = {p1}
    PollerOf <- OnePoller
    MaxRanks = 2
    MaxOpens = 2
    Faults = {}
INVARIANT HandlerHeld
CHECK_DEADLOCK FALSE
