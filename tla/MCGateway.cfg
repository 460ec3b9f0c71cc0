SPECIFICATION Spec
CONSTRAINTS FirstTunnels ThirdRecord
ACTION_CONSTRAINTS EndsAtOnce ChangesMatter
CONSTANTS
    a = a
    b = b
    d = d
    c1 = c1
    c2 = c2
    None = None
    Id = {a, b, d}
    Place = {"http", "socks"}
    Socks = {"socks"}
    Row <- MCRow
    Client = {"near", "far"}
    Score <- MCScore
    Mode = {"fixed", "per_connection", "better_cost", "time", "sticky_client", "sticky_id", "sticky_place"}
    FixedId = a
    FixedPlace = "http"
    Conn = {c1, c2}
    Threads = 2
    Listener = {"http"}
    from <- MCFrom
    Events = {"database"}
    Requests = {"tunnel", "plain"}
INVARIANTS TriesAreTold
PROPERTIES ChoiceIsCurrent PinMovesForCause
CHECK_DEADLOCK FALSE
