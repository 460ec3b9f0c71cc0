SPECIFICATION FairSpec
CONSTANTS
    a = a
    b = b
    d = d
    c1 = c1
    c2 = c2
    None = None
    Id = {a, b}
    Place = {"http", "socks"}
    Socks = {"socks"}
    Row <- MCOneRow
    Client = {"near", "far"}
    Score <- MCScore
    Mode = {"per_connection"}
    FixedId = a
    FixedPlace = "http"
    Conn = {c1, c2, "c3"}
    Threads = 1
    Listener = {"http", "https", "socks4", "socks5"}
    from <- MCFrom
    Events = {"signal", "accept"}
    Requests = {"bad", "unauthorised", "unsupported", "tunnel", "plain"}
INVARIANTS PermitsCounted HandlersClean
PROPERTIES HandlersEnd
CHECK_DEADLOCK FALSE
