SPECIFICATION FairSpec
CONSTANTS
    s1 = s1
    u = u
    m = m
    n1 = n1
    n2 = n2
    Start = {s1, u}
    Service = {u}
    Manual = {m}
    Pid = {n1, n2}
    NoToken = NoToken
    NoPid = NoPid
    NoProcess = NoProcess
INVARIANTS OneOwner ClaimSound SuccessIsOwn FailureIsClean
PROPERTIES OwnershipSpec NoLockout
CHECK_DEADLOCK FALSE
