SPECIFICATION FairControlSpec
CONSTANTS
    s1 = s1
    s2 = s2
    m = m
    n1 = n1
    n2 = n2
    r1 = r1
    r2 = r2
    d1 = d1
    q1 = q1
    Start = {s1}
    Service = {}
    Manual = {}
    Pid = {n1}
    NoToken = NoToken
    NoPid = NoPid
    NoProcess = NoProcess
    Stopper = {}
    Deleter = {d1}
    Poller = {q1}
    None = None
PROPERTIES NotResurrected Answered
CHECK_DEADLOCK FALSE
