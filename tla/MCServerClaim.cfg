SPECIFICATION MCSpec
CONSTANTS
    s1 = s1
    s2 = s2
    m = m
    r1 = r1
    n1 = n1
    n2 = n2
    Start = {s1, s2}
    Manual = {m}
    Stopper = {r1}
    Pid = {n1, n2}
    NoToken = NoToken
    NoPid = NoPid
    NoProcess = NoProcess
INVARIANTS ClaimSound
PROPERTIES SuccessIsOwn NoLockout Answered
CHECK_DEADLOCK FALSE
