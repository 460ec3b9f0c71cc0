SPECIFICATION FairSpec
CONSTANTS
    p1 = p1
    p2 = p2
    p3 = p3
    w1 = w1
    w2 = w2
    Proxy = {p1, p2}
    Present = {p1}
    Worker = {w1, w2}
    Outcome = {"alive"}
    Recurring = TRUE
    Filtered = TRUE
    MaxKills = 1
    MaxFaults = 1
    None = None
ACTION_CONSTRAINT ChangesMatter
INVARIANTS StatusTold
CHECK_DEADLOCK FALSE
PROPERTIES StopEnds
