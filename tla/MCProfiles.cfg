CONSTANTS
    Blank = Blank
    Nonsense = Nonsense
    Given <- MCGiven
    Rows <- MCRows
    Scopes <- MCScopes
    Space = Space
    Name = {"A", "a", "-a", "b"}
    SafeName <- MCSafeName
    Dashed = {"-a"}
    Wanted <- MCWanted
    Proxies <- MCProxies
    Caller = {c1, c2}
    Url = {"plain", "percent"}
    UnitReads <- MCUnitReads
    Empty = Empty
    u1 = u1
    u2 = u2
    a1 = a1
    a2 = a2
    private = private
    x = x
    y = y
    None = None
    Source = {u1, u2}
    Lists <- MCLists
    Protocol = {"http", "https", "socks5"}
    Address = {a1, a2, private}
    Public = {a1, a2}
    Families <- MCFamilies
    Place <- MCPlace
    Exit = {x, y}
    Limit = 3
    Floor = 1
    TopN = 2
    Probes = 2
    Outcomes <- MCOutcomes
SPECIFICATION MCSpec
CONSTRAINT Bounds
SYMMETRY Symmetry
INVARIANTS LaunchesAsSaved ServesWhatWasShown BestAreListed
PROPERTIES StaysProtected NoneOverwritten
CHECK_DEADLOCK FALSE
