--------------------------------- MODULE Gateway ---------------------------------
(***************************************************************************)
(* The serving side of one proxy server process: the accept loop of        *)
(* proxy_server/server/listener.py, its worker threads, the HTTP, SOCKS4   *)
(* and SOCKS5 handlers with connect_selected_upstream, over ProxyStore.    *)
(* A step of a connection ends where its thread may wait: for a worker,    *)
(* for the client, for an upstream, for the lock of the store.             *)
(***************************************************************************)
EXTENDS ProxyStore, Sequences, SequencesExt

CONSTANTS
    Conn,       \* client connections
    Threads,    \* worker threads
    Listener,   \* protocols of the listener: "http", "https", "socks4" or "socks5"
    from,       \* the client of each connection
    Events,     \* bound: what may happen to the process in the instance
    Requests    \* bound: what its clients may ask

ASSUME GatewayAssumption ==
    /\ Threads \in Nat \ {0} /\ IsFiniteSet(Conn)
    /\ Listener \subseteq {"http", "https", "socks4", "socks5"}
    /\ from \in [Conn -> Client]
    /\ Events \subseteq {"signal", "accept", "database"}

VARIABLES
    protocol,   \* the protocol of the listener
    serving,    \* the main thread: "open", "stopping", "draining", "broken" or "over"
    permits,    \* free permits of the admission semaphore
    at,         \* how far each connection is
    ask,        \* what each client asked for
    tried,      \* the upstreams connect_selected_upstream took, in order
    up,         \* the upstream row a connection is about to use or uses
    open,       \* the sockets of each connection: a subset of {"client", "upstream"}
    reply,      \* the answer the client got
    told        \* what the store was told of upstreams: <<id, outcome>> in order

connVars == <<at, ask, tried, up, open, reply, told>>
vars == <<storeVars, protocol, serving, permits, connVars>>

Capacity == 2 * Threads

Ask == {"none", "bad", "unauthorised", "unsupported", "tunnel", "plain"}
Reply == {"none", "bad", "unauthorised", "unsupported", "refused", "granted"}

TypeOK ==
    /\ StoreTypeOK /\ protocol \in Listener
    /\ serving \in {"open", "stopping", "draining", "broken", "over"}
    /\ permits \in 0..Capacity
    /\ at \in [Conn -> {"new", "turned_away", "queued", "cancelled", "handshake", "reading", "plain",
                        "select", "dial", "send", "answer", "forwarding", "closing", "done"}]
    /\ ask \in [Conn -> Ask]
    /\ \A c \in Conn : Len(tried[c]) <= 2 /\ Range(tried[c]) \subseteq Id
    /\ up \in [Conn -> Row \cup {None}]
    /\ open \in [Conn -> SUBSET {"client", "upstream"}]
    /\ reply \in [Conn -> Reply]
    /\ \A c \in Conn : Range(told[c]) \subseteq Id \X {"alive", "fail"}

Init ==
    /\ StoreInit /\ protocol \in Listener
    /\ serving = "open" /\ permits = Capacity
    /\ at = [c \in Conn |-> "new"]
    /\ ask = [c \in Conn |-> "none"]
    /\ tried = [c \in Conn |-> <<>>]
    /\ up = [c \in Conn |-> None]
    /\ open = [c \in Conn |-> {}]
    /\ reply = [c \in Conn |-> "none"]
    /\ told = [c \in Conn |-> <<>>]

Goes(c, here, there) == at[c] = here /\ at' = [at EXCEPT ![c] = there]
Replies(c, what) == reply' = [reply EXCEPT ![c] = what]
Tells(c, i, outcome) == told' = [told EXCEPT ![c] = Append(@, <<i, outcome>>)]

(* The connections a worker thread is busy with. *)
Working == {c \in Conn : at[c] \in {"handshake", "reading", "plain", "select", "dial", "send",
                                    "answer", "forwarding", "closing"}}

-----------------------------------------------------------------------------
(* The accept loop. *)

Accept(c) ==
    /\ serving = "open" /\ at[c] = "new"
    /\ at' = [at EXCEPT ![c] = IF permits > 0 THEN "queued" ELSE "turned_away"]
    /\ permits' = IF permits > 0 THEN permits - 1 ELSE 0
    /\ open' = [open EXCEPT ![c] = IF permits > 0 THEN {"client"} ELSE {}]
    /\ UNCHANGED <<storeVars, protocol, serving, ask, tried, up, reply, told>>

(* SIGTERM, in the main thread: the accept socket is closed. *)
Shutdown ==
    /\ "signal" \in Events
    /\ serving = "open" /\ serving' = "stopping"
    /\ UNCHANGED <<storeVars, protocol, permits, connVars>>

(* executor.shutdown: what no worker has taken yet is cancelled. *)
Drain ==
    /\ serving = "stopping" /\ serving' = "draining"
    /\ at' = [c \in Conn |-> IF at[c] = "queued" THEN "cancelled" ELSE at[c]]
    /\ UNCHANGED <<storeVars, protocol, permits, ask, tried, up, open, reply, told>>

(* accept raises, for want of descriptors say: the workers go on with the queue. *)
AcceptRaises ==
    /\ "accept" \in Events
    /\ serving = "open" /\ serving' = "broken"
    /\ UNCHANGED <<storeVars, protocol, permits, connVars>>

(* The threads have been joined, here or at the end of the interpreter. *)
Leave ==
    /\ \/ serving = "draining" /\ Working = {}
       \/ serving = "broken" /\ Working = {} /\ \A c \in Conn : at[c] # "queued"
    /\ serving' = "over"
    /\ UNCHANGED <<storeVars, protocol, permits, connVars>>

-----------------------------------------------------------------------------
(* _dispatch. *)

Dispatch(c) ==
    /\ Cardinality(Working) < Threads
    /\ Goes(c, "queued", IF protocol = "https" THEN "handshake" ELSE "reading")
    /\ UNCHANGED <<storeVars, protocol, serving, permits, ask, tried, up, open, reply, told>>

(* The variables of the thread are gone, and so is its permit. *)
Ends(c) ==
    /\ ask' = [ask EXCEPT ![c] = "none"] /\ tried' = [tried EXCEPT ![c] = <<>>]
    /\ up' = [up EXCEPT ![c] = None] /\ told' = [told EXCEPT ![c] = <<>>]
    /\ reply' = [reply EXCEPT ![c] = "none"]
    /\ UNCHANGED <<storeVars, protocol, serving>>

(* The handshake has no time limit; it ends, well or not, when the client acts. *)
Handshake(c) ==
    \/ /\ Goes(c, "handshake", "reading")
       /\ UNCHANGED <<storeVars, protocol, serving, permits, ask, tried, up, open, reply, told>>
    \/ /\ Goes(c, "handshake", "done")
       /\ open' = [open EXCEPT ![c] = {}]
       /\ permits' = permits + 1
       /\ Ends(c)

-----------------------------------------------------------------------------
(* The handlers. *)

(* What a request can be, and how a listener answers one it does not serve: *)
(* a SOCKS5 client whose frames are wrong gets nothing, a SOCKS4 listener   *)
(* knows a single refusal.                                                  *)
Asks == Requests \cap
        CASE protocol \in {"http", "https"} -> {"bad", "unauthorised", "tunnel", "plain"}
          [] protocol = "socks5" -> {"bad", "unauthorised", "unsupported", "tunnel"}
          [] OTHER -> {"bad", "unauthorised", "tunnel"}

Answer(q) == CASE protocol = "socks5" -> IF q = "bad" THEN "none" ELSE q
               [] protocol = "socks4" -> "refused"
               [] OTHER -> q

(* The request arrives, up to what decides about it. *)
Reads(c) ==
    \E q \in Asks :
        /\ ask' = [ask EXCEPT ![c] = q]
        /\ CASE q = "tunnel" -> Goes(c, "reading", "select") /\ reply' = reply
             [] q = "plain" -> Goes(c, "reading", "plain") /\ reply' = reply
             [] OTHER -> Goes(c, "reading", "closing") /\ Replies(c, Answer(q))
        /\ UNCHANGED <<storeVars, protocol, serving, permits, tried, up, open, told>>

(* Seeded fault: the socket of a client has no timeout while it is read. *)
ClientFailsLate(c) ==
    /\ Goes(c, "answer", "closing")
    /\ UNCHANGED <<storeVars, protocol, serving, permits, ask, tried, up, open, reply, told>>

(* The client is gone, or silent for longer than the timeout of its socket. *)
ClientFails(c) ==
    /\ \E here \in {"reading", "answer"} : Goes(c, here, "closing")
    /\ UNCHANGED <<storeVars, protocol, serving, permits, ask, tried, up, open, reply, told>>

(* A plain request chooses once to see how it is to be forwarded, and again   *)
(* in connect_selected_upstream when that is a SOCKS proxy.                   *)
ChoosesForPlain(c) ==
    \E r \in Row \cup {None} :
        /\ Select(from[c], FALSE, {}, r)
        /\ CASE r = None -> Goes(c, "plain", "closing") /\ Replies(c, "refused") /\ up' = up
             [] r # None /\ r.place \in Socks -> Goes(c, "plain", "select") /\ UNCHANGED <<reply, up>>
             [] OTHER -> Goes(c, "plain", "send") /\ up' = [up EXCEPT ![c] = r] /\ reply' = reply
        /\ UNCHANGED <<rows, dbUp, mode, protocol, serving, permits, ask, tried, open, told>>

(* Opening the upstream and sending it the request.  There is no second try. *)
SendWorks(c) ==
    /\ Goes(c, "send", "forwarding")
    /\ open' = [open EXCEPT ![c] = @ \cup {"upstream"}]
    /\ Tells(c, up[c].id, "alive")
    /\ Replies(c, "granted")
    /\ UNCHANGED <<storeVars, protocol, serving, permits, ask, tried, up>>

SendFails(c) ==
    /\ Goes(c, "send", "closing")
    /\ open' \in {open, [open EXCEPT ![c] = @ \cup {"upstream"}]}
    /\ Tells(c, up[c].id, "fail")
    /\ Replies(c, "refused")
    /\ UNCHANGED <<storeVars, protocol, serving, permits, ask, tried, up>>

(* connect_selected_upstream: at most two upstreams, the second after a load. *)
Chooses(c) ==
    \E r \in Row \cup {None} :
        /\ Select(from[c], tried[c] # <<>>, Range(tried[c]), r)
        /\ IF r = None THEN Goes(c, "select", "closing") /\ Replies(c, "refused") /\ UNCHANGED <<tried, up>>
           ELSE /\ Goes(c, "select", "dial") /\ reply' = reply
                /\ up' = [up EXCEPT ![c] = r] /\ tried' = [tried EXCEPT ![c] = Append(@, r.id)]
        /\ UNCHANGED <<rows, dbUp, mode, protocol, serving, permits, ask, open, told>>

DialWorks(c) ==
    /\ Goes(c, "dial", "answer")
    /\ open' = [open EXCEPT ![c] = @ \cup {"upstream"}]
    /\ Tells(c, up[c].id, "alive")
    /\ UNCHANGED <<storeVars, protocol, serving, permits, ask, tried, up, reply>>

(* Seeded fault: a failed upstream is reported when all have failed. *)
DialFailsSilently(c) ==
    /\ at[c] = "dial"
    /\ IF Len(tried[c]) < 2
       THEN Goes(c, "dial", "select") /\ UNCHANGED <<reply, told>>
       ELSE Goes(c, "dial", "closing") /\ Replies(c, "refused") /\ Tells(c, up[c].id, "fail")
    /\ UNCHANGED <<storeVars, protocol, serving, permits, ask, tried, up, open>>

DialFails(c) ==
    /\ IF Len(tried[c]) < 2
       THEN Goes(c, "dial", "select") /\ reply' = reply
       ELSE Goes(c, "dial", "closing") /\ Replies(c, "refused")
    /\ Tells(c, up[c].id, "fail")
    /\ UNCHANGED <<storeVars, protocol, serving, permits, ask, tried, up, open>>

(* The client is told, or the plain request is sent through the SOCKS tunnel. *)
Grants(c) ==
    /\ Goes(c, "answer", "forwarding")
    /\ Replies(c, "granted")
    /\ UNCHANGED <<storeVars, protocol, serving, permits, ask, tried, up, open, told>>

(* forward_bidirectional returns, and closes both: an end, an error or silence. *)
ForwardEnds(c) ==
    /\ Goes(c, "forwarding", "closing")
    /\ open' = [open EXCEPT ![c] = {}]
    /\ UNCHANGED <<storeVars, protocol, serving, permits, ask, tried, up, reply, told>>

(* Seeded fault: only a finished tunnel closes its upstream. *)
ClosesClient(c) ==
    /\ Goes(c, "closing", "done")
    /\ open' = [open EXCEPT ![c] = @ \ {"client"}]
    /\ permits' = permits + 1
    /\ Ends(c)

(* Seeded fault: a handler that did not answer keeps its permit. *)
ClosesAnswered(c) ==
    /\ Goes(c, "closing", "done")
    /\ open' = [open EXCEPT ![c] = {}]
    /\ permits' = IF reply[c] = "none" THEN permits ELSE permits + 1
    /\ Ends(c)

(* The finally of the handler, then that of _dispatch. *)
Closes(c) ==
    /\ Goes(c, "closing", "done")
    /\ open' = [open EXCEPT ![c] = {}]
    /\ permits' = permits + 1
    /\ Ends(c)

-----------------------------------------------------------------------------
(* What a worker does by itself or when a time limit of its sockets is over. *)
Bounded(c) ==
    ClientFails(c) \/ ChoosesForPlain(c) \/ SendFails(c) \/ Chooses(c) \/ DialFails(c) \/ Closes(c)

Step(c) ==
    \/ Accept(c) \/ Dispatch(c) \/ Handshake(c) \/ Reads(c) \/ Bounded(c)
    \/ SendWorks(c) \/ DialWorks(c) \/ Grants(c) \/ ForwardEnds(c)

Outside == "database" \in Events /\ UNCHANGED <<protocol, serving, permits, connVars>>

Next ==
    \/ \E c \in Conn : Step(c)
    \/ Shutdown \/ Drain \/ AcceptRaises \/ Leave
    \/ (Rewrites \/ DatabaseFails \/ DatabaseReturns \/ Ages) /\ Outside

Spec == Init /\ [][Next]_vars

(* Threads are scheduled and the waits of a handler are bounded.  Nothing      *)
(* bounds a handshake, a tunnel that is used, or the wait for a free worker.   *)
FairSpec == Spec /\ WF_vars(Drain) /\ WF_vars(Leave) /\ \A c \in Conn : WF_vars(Bounded(c))

-----------------------------------------------------------------------------
(* Permits are taken by the main thread and given back by workers: each is     *)
(* free, or held by one connection that is queued, worked on or cancelled.     *)
PermitsCounted ==
    permits + Cardinality({c \in Conn : at[c] \in {"queued", "cancelled"}} \cup Working) = Capacity

(* Whatever way a handler ends, it leaves no socket behind. *)
SocketsClosed == \A c \in Conn : at[c] \in {"done", "turned_away"} => open[c] = {}

(* "Failed connection attempts are excluded from the immediate retry": the two *)
(* attempts of a connection go to different records, and the second is made    *)
(* only when the store was told that the first one failed.                     *)
RetryGoesElsewhere ==
    \A c \in Conn : Len(tried[c]) = 2 =>
        tried[c][1] # tried[c][2] /\ <<tried[c][1], "fail">> \in Range(told[c])

(* The store hears of every upstream that was tried, once, in order, and       *)
(* before the connection ends; only the last one can have worked.              *)
EveryTryIsTold ==
    \A c \in Conn : at[c] = "closing" =>
        /\ [i \in DOMAIN told[c] |-> told[c][i][1]] =
              IF ask[c] = "plain" /\ tried[c] = <<>> /\ up[c] # None THEN <<up[c].id>> ELSE tried[c]
        /\ \A i \in DOMAIN told[c] : told[c][i][2] = "alive" => i = Len(told[c])

(* A client that is not let in never makes the server choose an upstream.      *)
OnlyAuthorised == \A c \in Conn : ask[c] \in {"bad", "unauthorised", "unsupported"} =>
                                  up[c] = None /\ tried[c] = <<>>

(* "Cached candidates are revalidated against the current filtered candidate   *)
(* set": a connection goes to a row of the present load, as it is there, and a *)
(* retry, or a choice after 30 seconds, to a record that passes the filters    *)
(* now, unless the database cannot be read.                                    *)
ChoiceIsCurrent ==
    [][\A c \in Conn : up'[c] \notin {None, up[c]} =>
          /\ up'[c] \in cache'
          /\ dbUp /\ (~young \/ tried[c] # <<>>) => up'[c] \in rows]_vars

(* A proxy the store stays with is left only for a reason: it is not in the    *)
(* present load, the connection that chooses has just seen it fail, a cheaper  *)
(* one is there, or one as cheap when a connection tries again, or the mode    *)
(* rotates.                                                                    *)
PinMovesForCause ==
    [][pinned # None /\ pinned' # None /\ ~Same(pinned, pinned') =>
          \/ mode = "time"
          \/ \A r \in cache' : ~Same(r, pinned)
          \/ mode = "better_cost" /\ \A r \in cache' : Same(r, pinned) =>
                \/ pinned'.cost < r.cost
                \/ pinned'.cost = r.cost /\ \E c \in Conn : tried[c] # <<>> /\ tried'[c] # tried[c]
          \/ \E c \in Conn : tried'[c] # tried[c] /\ pinned.id \in Range(tried[c])]_vars

(* "waits for active handlers during graceful shutdown". *)
GracefulEnd == serving = "over" => Working = {}

(* A worker that neither shakes hands nor forwards gets its connection to a    *)
(* tunnel or to its end: no wait of a handler is without limit.                *)
HandlersEnd ==
    \A c \in Conn : c \in Working /\ at[c] # "handshake" ~> at[c] \in {"forwarding", "done"}

(* Whoever was tried, and in whatever order it failed, the store knows. *)
TriesAreTold == TypeOK /\ RetryGoesElsewhere /\ EveryTryIsTold

(* However a connection or the whole server ends, nothing of it is left: no  *)
(* socket, no working thread; and who was not let in moved no upstream.      *)
HandlersClean == SocketsClosed /\ GracefulEnd /\ OnlyAuthorised
=============================================================================
