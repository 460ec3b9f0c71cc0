SPECIFICATION Spec
CONSTANTS
    p1 = p1
    p2 = p2
    p3 = p3
    w1 = w1
    w2 = w2
    Proxy = {p1, p2, p3}
    Present = {p1, p2}
    Worker = {w1, w2}
    Outcome = {"alive"}
    Recurring = FALSE
    Filtered = FALSE
    MaxKills = 1
    MaxFaults = 0
    None = None
SYMMETRY Symmetry
INVARIANTS NothingDropped CountsFollowMarks AppliedOnce
CHECK_DEADLOCK FALSE
