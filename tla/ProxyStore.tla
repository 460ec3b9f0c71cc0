------------------------------- MODULE ProxyStore -------------------------------
(***************************************************************************)
(* How a proxy server chooses an upstream: proxy_server/server/            *)
(* proxy_store.py.  The store keeps the rows of its last load for 30       *)
(* seconds and, for the modes that stay with a proxy, the one it chose.    *)
(* A row stands for what the choice can tell apart: its id, where it       *)
(* leads (protocol, address and user name), and its cost.  A record that   *)
(* does not pass the filters of the profile is not offered at all; the     *)
(* filters are in ServerProfile.                                           *)
(***************************************************************************)
EXTENDS Integers, FiniteSets

CONSTANTS
    Id,         \* records of the proxies table
    Place,      \* protocol, address and user name of a record
    Socks,      \* the places that are SOCKS proxies
    Row,        \* the records there may be: [id, place, cost], no cost zero
    Client,     \* client addresses
    Score(_, _, _), \* the hash of a client, an id and a place
    Mode,       \* rotation modes of the instance
    FixedId, FixedPlace,  \* what sticky_upstream names
    None

ASSUME StoreAssumption ==
    /\ Socks \subseteq Place
    /\ Row \subseteq [id : Id, place : Place, cost : Nat \ {0}]
    /\ None \notin Row /\ IsFiniteSet(Row)
    /\ \A c \in Client, i \in Id, place \in Place : Score(c, i, place) \in Nat
    /\ Mode \subseteq {"fixed", "per_connection", "better_cost", "time",
                       "sticky_client", "sticky_id", "sticky_place"}

VARIABLES
    rows,       \* the records that pass the filters now
    dbUp,       \* can the database be read
    mode,       \* the rotation mode of the profile
    cache,      \* the rows of the last load, or None before it
    young,      \* is the last load less than 30 seconds ago
    pinned      \* the proxy the store stays with

storeVars == <<rows, dbUp, mode, cache, young, pinned>>

OneRowEach(S) == \A r, s \in S : r.id = s.id => r = s

StoreTypeOK ==
    /\ rows \subseteq Row /\ OneRowEach(rows)
    /\ dbUp \in BOOLEAN /\ young \in BOOLEAN /\ mode \in Mode
    /\ cache \in {None} \cup SUBSET Row
    /\ pinned \in Row \cup {None}

StoreInit ==
    /\ rows \in SUBSET Row /\ OneRowEach(rows)
    /\ dbUp = TRUE /\ young = FALSE /\ mode \in Mode
    /\ cache = None /\ pinned = None

-----------------------------------------------------------------------------
(* _identity: not the cost, and not the password. *)
Same(r, s) == r.id = s.id /\ r.place = s.place

(* Seeded fault: a retry is content with what it has. *)
LoadIsDueWhenOld(force) == cache = None \/ ~young

LoadIsDue(force) == force \/ cache = None \/ ~young

(* _ensure_candidates: a load that fails keeps the old rows. *)
Loaded(force) ==
    IF LoadIsDue(force) /\ dbUp THEN rows ELSE IF cache = None THEN {} ELSE cache

(* Seeded fault: the pinned proxy is taken from an earlier load. *)
AlwaysAvailable(S) == pinned

(* _still_available: the row of this load with the identity of the pinned one. *)
StillAvailable(S) ==
    IF pinned # None /\ \E r \in S : Same(r, pinned)
    THEN CHOOSE r \in S : Same(r, pinned) ELSE None

Cheapest(S) == {r \in S : \A s \in S : r.cost <= s.cost}

(* _select_client_sticky. *)
Rendezvous(c, S) ==
    CHOOSE r \in S : \A s \in S : Score(c, s.id, s.place) <= Score(c, r.id, r.place)

(* _select_explicit_sticky: the first match in the order of cost. *)
Explicit(S) ==
    LET found == {r \in S : IF mode = "sticky_id" THEN r.id = FixedId
                                                  ELSE r.place = FixedPlace}
    IN  IF found = {} THEN {None} ELSE Cheapest(found)

(* Seeded fault: the fixed mode chooses again every time. *)
OffersAnew(c, S, held, force) == IF mode = "fixed" THEN S ELSE {Rendezvous(c, S)}

(* The proxies a mode may choose when held is what it stayed with. *)
Offers(c, S, held, force) ==
    CASE mode = "per_connection" -> S
      [] mode = "sticky_client" -> {Rendezvous(c, S)}
      [] mode \in {"sticky_id", "sticky_place"} -> Explicit(S)
      [] mode = "fixed" -> IF held = None THEN S ELSE {held}
      [] mode = "time" -> IF held = None \/ force THEN S ELSE {held} \cup S
      [] mode = "better_cost" ->
            IF held = None \/ force \/ \A r \in Cheapest(S) : r.cost < held.cost
            THEN Cheapest(S) ELSE {held}

Stays == mode \in {"fixed", "better_cost", "time"}

(* select, under the lock of the store. *)
Select(c, force, excluded, r) ==
    LET loaded == Loaded(force)
        S == {s \in loaded : s.id \notin excluded}
        held == StillAvailable(S)
    IN  /\ cache' = loaded
        /\ young' = (young \/ (LoadIsDue(force) /\ dbUp))
        /\ IF S = {}
           THEN r = None /\ pinned' = pinned
           ELSE /\ r \in Offers(c, S, held, force)
                /\ pinned' = IF Stays THEN r ELSE held

-----------------------------------------------------------------------------
(* The monitors, the dashboard and the clock. *)

Rewrites ==
    /\ \/ \E s \in Row : rows' = {r \in rows : r.id # s.id} \cup {s}
       \/ \E s \in rows : rows' = rows \ {s}
    /\ rows' # rows
    /\ UNCHANGED <<dbUp, mode, cache, young, pinned>>

DatabaseFails == dbUp /\ dbUp' = FALSE /\ UNCHANGED <<rows, mode, cache, young, pinned>>
DatabaseReturns == ~dbUp /\ dbUp' = TRUE /\ UNCHANGED <<rows, mode, cache, young, pinned>>
Ages == young /\ young' = FALSE /\ UNCHANGED <<rows, dbUp, mode, cache, pinned>>

=============================================================================
