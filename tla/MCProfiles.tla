------------------------------- MODULE MCProfiles -------------------------------
(* Profiles and lists, one kind at a time: of a proxy server, of one monitor *)
(* with all that requests say, of two monitors and requests that overtake    *)
(* each other, and the public feed.                                          *)
EXTENDS Profiles, PublicFeed, TLC

CONSTANTS Nonsense, u1, u2, a1, a2, private, x, y

VARIABLE scene

vars == <<profileVars, monitorVars, feedVars, scene>>

MCInit ==
    /\ scene \in {"server", "monitor", "monitors", "feed"}
    /\ ProfileInit /\ MonitorInit /\ FeedInit
    /\ scene # "feed" => lists = CHOOSE l \in Lists : TRUE

MCNext ==
    \/ scene = "server" /\ ProfileNext /\ UNCHANGED <<monitorVars, feedVars>> /\ scene' = scene
    \/ scene \in {"monitor", "monitors"} /\ MonitorNext /\ UNCHANGED <<profileVars, feedVars>> /\ scene' = scene
    \/ scene = "feed" /\ FeedNext /\ UNCHANGED <<profileVars, monitorVars>> /\ scene' = scene

MCSpec == MCInit /\ [][MCNext]_vars

(* The bounds.  One monitor, one request at a time and a profile that is not *)
(* far from the usual one where much is said; names and units alone where    *)
(* two of each are at work.                                                  *)
Unusual(p) == {f \in Entry \ {"name"} : p[f] # Usual[f]}
Held == {records[i].profile : i \in Known} \cup {request[u].profile : u \in {v \in Caller : request[v] # Empty}}
Bounds ==
    /\ scene = "monitor" =>
          /\ Cardinality({u \in Caller : request[u] # Empty}) <= 1 /\ Cardinality(Known) <= 1 /\ Made = {}
          /\ \A p \in Held : Cardinality(Unusual(p)) <= 2 /\ p.name # "b"
    /\ scene = "monitors" =>
          \A p \in Held : Unusual(p) \subseteq {"create_service"} /\ p.name \in {"a", "b"}

Symmetry == Permutations(Caller)

(* Proxy servers. *)
Pairs == {[username |-> u, password |-> p] : u \in {Blank, "u"}, p \in {Blank, "p"}}
MCGiven ==
    {<<>>, [clear_credentials |-> TRUE], [cost_threshold |-> 1], [min_cost |-> 2],
     [username |-> Space, password |-> Space], [password |-> Space],
     [keyfile |-> "k"], [certfile |-> "c", keyfile |-> "k"], [auth |-> "no_auth", country |-> {"x"}]}
    \cup {[protocol |-> t] @@ c : t \in {"http", "socks4"}, c \in Pairs}
    \cup {[bind |-> b, public |-> p] : b \in {"loopback", "network"}, p \in {TRUE, FALSE, Nonsense}}
    \cup {[threads |-> n] : n \in {0, 1001}}
    \cup {[statuses |-> {"untested"}, auth |-> "auth", upstream |-> u, mobile |-> TRUE, web |-> TRUE] :
              u \in {{"socks5"}, {"gopher"}}}
MCRows ==
    {[protocol |-> p, status |-> s, web |-> w, mobile |-> w, country |-> "x",
      username |-> u, password |-> q, cost |-> k] :
        p \in {"http", "socks5"}, s \in {"alive", "untested", Blank}, w \in {TRUE, Blank},
        u \in {Blank, "u"}, q \in {Blank, "p"}, k \in {1, 3}}
    \cup {[protocol |-> "http", status |-> "alive", web |-> TRUE, mobile |-> FALSE, country |-> c,
           username |-> Blank, password |-> Blank, cost |-> k] : c \in {"x", "y", Blank}, k \in {1, Blank}}
MCScopes == {Everything, [statuses |-> {"alive"}, protocols |-> {}], [statuses |-> {}, protocols |-> {"socks5"}]}

(* Monitors. *)
MCSafeName == [n \in {"A", "a", "-a", "b"} |-> IF n = "b" THEN "b" ELSE "a"]
MCWanted ==
    {[name |-> n] : n \in {"A", "a", "-a", "b"}}
    \cup {[name |-> "a", create_service |-> "yes"], <<>>, [name |-> Empty]}
    \cup {[run_mode |-> m, schedule_time |-> t] : m \in {"schedule", "once"}, t \in {Empty, "noon", Nonsense}}
    \cup {[run_mode |-> "schedule"], [run_mode |-> Empty], [threads |-> 7], [threads |-> Empty], [threads |-> 201],
          [name |-> "a", status |-> {"untested"}], [status |-> {"alive", "untested"}, protocol |-> {"http"}],
          [protocol |-> {"gopher"}], [schedule_days |-> {"mon", "sun"}, geo |-> "false"], [geo |-> Empty],
          [urls |-> "plain"], [urls |-> "percent"], [urls |-> private]}
MCUnitReads == [t \in {"A", "a", "-a", "b", "plain", "percent"} |-> IF t = "percent" THEN Nonsense ELSE t]
MCProxies == [protocol : {"http", "socks5"}, status : {"alive", "dead", Empty}]

(* The feed. *)
Named(p, a) == [candidate |-> [protocol |-> p, address |-> a], auth |-> FALSE]
Authorised(p, a) == [candidate |-> [protocol |-> p, address |-> a], auth |-> TRUE]
MCLists ==
    {(u1 :> <<Named("http", a1), Named("http", a2), Named("https", a1)>>)
       @@ (u2 :> <<Named("https", a1), Named("https", a2), Named("http", private)>>),
     (u1 :> <<Named("http", a1), Named("http", a1), Authorised("http", a2)>>)
       @@ (u2 :> <<Named("socks5", a2), None, Named("http", a1), Named("socks5", private)>>)}
MCPlace ==
    [c \in Candidate |-> (CASE c.protocol = "http" -> 0 [] c.protocol = "https" -> 10 [] OTHER -> 20)
                         + (CASE c.address = a1 -> 1 [] c.address = a2 -> 2 [] OTHER -> 3)]
MCFamilies == <<{"socks5"}, {"http", "https"}>>
Found(e, f, q) == [exits |-> <<e, f>>, quick |-> q]
MCOutcomes ==
    {Found(None, None, FALSE), Found(x, None, FALSE), Found(None, y, TRUE), Found(x, y, FALSE),
     Found(x, x, FALSE), Found(x, x, TRUE), Found(y, y, FALSE)}
=============================================================================
