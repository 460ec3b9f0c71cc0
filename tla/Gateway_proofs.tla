----------------------------- MODULE Gateway_proofs -----------------------------
(***************************************************************************)
(* Proofs about the connections of a proxy server, for any finite set of   *)
(* clients, any number of worker threads, any records and rotation modes.  *)
(***************************************************************************)
EXTENDS Gateway, FiniteSetTheorems, TLAPS

(* The stages a worker thread is in, and those that hold a permit. *)
Busy == {"handshake", "reading", "plain", "select", "dial", "send", "answer", "forwarding", "closing"}
Taken == {"queued", "cancelled"} \cup Busy
Holding == {c \in Conn : at[c] \in Taken}

(* Before anything was asked, or after all was forgotten. *)
Blank == {"new", "turned_away", "queued", "cancelled", "handshake", "reading", "done"}
Refused == {"bad", "unauthorised", "unsupported"}

Shape ==
    /\ at \in [Conn -> Blank \cup Busy] /\ ask \in [Conn -> Ask] /\ permits \in Nat
    /\ DOMAIN open = Conn /\ DOMAIN tried = Conn /\ DOMAIN up = Conn

(* A request is known from the moment it was read until the end, and one that *)
(* is refused goes from there straight to the end.                            *)
RequestKnown(c) ==
    /\ at[c] \in Blank => ask[c] = "none" /\ up[c] = None /\ tried[c] = <<>>
    /\ at[c] \notin Blank \cup {"closing"} => ask[c] \in {"tunnel", "plain"}
    /\ ask[c] \in Refused => up[c] = None /\ tried[c] = <<>>

PermitsHeld == permits + Cardinality(Holding) = Capacity

(* Nobody comes to the workers once the queue was cancelled or is empty. *)
QueueEnds ==
    /\ serving \in {"draining", "over"} => \A c \in Conn : at[c] # "queued"
    /\ serving = "over" => Working = {}

IInv == Shape /\ PermitsHeld /\ QueueEnds /\ SocketsClosed /\ \A c \in Conn : RequestKnown(c)

LEMMA HoldingIsFinite ==
  IsFiniteSet(Holding) /\ Cardinality(Holding) \in Nat /\ Capacity \in Nat
<1>1. IsFiniteSet(Holding)
  BY GatewayAssumption, FS_Subset, Holding \subseteq Conn DEF Holding
<1>2. QED
  BY <1>1, FS_CardinalityType, GatewayAssumption DEF Capacity

(* The same connections hold the permits in other words. *)
LEMMA SameHolding == Holding = {c \in Conn : at[c] \in {"queued", "cancelled"}} \cup Working
BY DEF Holding, Working, Taken, Busy

(* A worker that goes from one of its stages to another. *)
LEMMA WorkersKeepIt ==
  ASSUME IInv, NEW c \in Conn, NEW there \in Busy,
         at[c] \in Busy, at' = [at EXCEPT ![c] = there],
         UNCHANGED <<serving, permits>>,
         ask' \in [Conn -> Ask], DOMAIN open' = Conn, DOMAIN tried' = Conn, DOMAIN up' = Conn,
         \A e \in Conn \ {c} : /\ open'[e] = open[e] /\ ask'[e] = ask[e]
                               /\ up'[e] = up[e] /\ tried'[e] = tried[e],
         RequestKnown(c)'
  PROVE  IInv'
<1>1. Shape'
  BY DEF IInv, Shape, Busy
<1>2. Holding' = Holding
  BY DEF IInv, Shape, Holding, Taken
<1>3. PermitsHeld'
  BY <1>2 DEF IInv, PermitsHeld, Capacity
<1>4. QueueEnds'
  <2>1. c \in Working
    BY DEF Working, Busy
  <2>2. serving # "over"
    BY <2>1 DEF IInv, QueueEnds
  <2>3. QED
    BY <2>2 DEF IInv, Shape, QueueEnds, Busy
<1>5. SocketsClosed'
  BY DEF IInv, Shape, SocketsClosed, Busy
<1>6. \A e \in Conn : RequestKnown(e)'
  BY DEF IInv, Shape, RequestKnown
<1>7. QED
  BY <1>1, <1>3, <1>4, <1>5, <1>6 DEF IInv

(* A worker that is done with its connection. *)
LEMMA EndsKeepIt ==
  ASSUME IInv, NEW c \in Conn, at[c] \in Busy, at' = [at EXCEPT ![c] = "done"],
         open' = [open EXCEPT ![c] = {}], permits' = permits + 1, Ends(c)
  PROVE  IInv'
<1>1. Shape'
  BY DEF IInv, Shape, Ends, Ask, Blank
<1>2. PermitsHeld'
  <2>1. Holding' = Holding \ {c} /\ c \in Holding
    BY DEF IInv, Shape, Holding, Taken, Busy
  <2>2. Cardinality(Holding') = Cardinality(Holding) - 1
    BY <2>1, HoldingIsFinite, FS_RemoveElement
  <2>3. QED
    BY <2>2, HoldingIsFinite DEF IInv, Shape, PermitsHeld, Capacity
<1>3. QueueEnds'
  BY DEF IInv, Shape, QueueEnds, Ends, Working
<1>4. SocketsClosed'
  BY DEF IInv, Shape, SocketsClosed
<1>5. \A e \in Conn : RequestKnown(e)'
  BY DEF IInv, Shape, RequestKnown, Ends, Blank, Refused
<1>6. QED
  BY <1>1, <1>2, <1>3, <1>4, <1>5 DEF IInv

LEMMA ConnectionsAreKept == Spec => []IInv
<1>1. Init => IInv
  <2> SUFFICES ASSUME Init PROVE IInv
    OBVIOUS
  <2>1. Shape
    BY GatewayAssumption DEF Init, Shape, Blank, Ask, Capacity
  <2>2. Holding = {}
    BY DEF Init, Holding, Taken, Busy
  <2>3. PermitsHeld
    BY <2>2, FS_EmptySet, GatewayAssumption DEF Init, PermitsHeld, Capacity
  <2>4. QueueEnds /\ SocketsClosed
    BY DEF Init, QueueEnds, SocketsClosed
  <2>5. \A c \in Conn : RequestKnown(c)
    BY DEF Init, RequestKnown, Blank, Refused
  <2>6. QED
    BY <2>1, <2>3, <2>4, <2>5 DEF IInv
<1>2. IInv /\ [Next]_vars => IInv'
  <2> SUFFICES ASSUME IInv, [Next]_vars
               PROVE  IInv'
    OBVIOUS
  <2>1. ASSUME NEW c \in Conn, Accept(c)
        PROVE  IInv'
    <3> USE <2>1 DEF Accept
    <3>1. Shape'
      BY DEF IInv, Shape, Blank
    <3>2. PermitsHeld'
      <4>1. CASE permits > 0
        <5>1. Holding' = Holding \cup {c} /\ c \notin Holding
          BY <4>1 DEF IInv, Shape, Holding, Taken, Busy
        <5>2. Cardinality(Holding') = Cardinality(Holding) + 1
          BY <5>1, HoldingIsFinite, FS_AddElement
        <5>3. QED
          BY <4>1, <5>2, HoldingIsFinite DEF IInv, Shape, PermitsHeld, Capacity
      <4>2. CASE ~(permits > 0)
        <5>1. Holding' = Holding
          BY <4>2 DEF IInv, Shape, Holding, Taken, Busy
        <5>2. permits = 0
          BY <4>2 DEF IInv, Shape
        <5>3. QED
          BY <4>2, <5>1, <5>2 DEF IInv, Shape, PermitsHeld, Capacity
      <4>3. QED
        BY <4>1, <4>2
    <3>3. QueueEnds'
      BY DEF IInv, QueueEnds
    <3>4. SocketsClosed'
      BY DEF IInv, Shape, SocketsClosed
    <3>5. \A e \in Conn : RequestKnown(e)'
      BY DEF IInv, Shape, RequestKnown, Blank
    <3>6. QED
      BY <3>1, <3>2, <3>3, <3>4, <3>5 DEF IInv
  <2>2. CASE Shutdown \/ AcceptRaises
    <3>1. UNCHANGED <<permits, connVars>> /\ serving' \in {"stopping", "broken"}
      BY <2>2 DEF Shutdown, AcceptRaises
    <3>2. QED
      BY <3>1 DEF connVars, IInv, Shape, PermitsHeld, Holding, Capacity, QueueEnds, SocketsClosed, RequestKnown
  <2>3. CASE Drain
    <3> USE <2>3 DEF Drain
    <3>1. Shape'
      BY DEF IInv, Shape, Blank
    <3>2. Holding' = Holding
      BY DEF Holding, Taken
    <3>3. PermitsHeld'
      BY <3>2 DEF IInv, PermitsHeld, Capacity
    <3>4. QueueEnds' /\ SocketsClosed'
      BY DEF IInv, Shape, QueueEnds, SocketsClosed
    <3>5. \A e \in Conn : RequestKnown(e)'
      BY DEF IInv, Shape, RequestKnown, Blank
    <3>6. QED
      BY <3>1, <3>3, <3>4, <3>5 DEF IInv
  <2>4. CASE Leave
    <3>1. QueueEnds'
      BY <2>4 DEF Leave, connVars, IInv, QueueEnds, Working
    <3>2. QED
      BY <2>4, <3>1 DEF Leave, connVars, IInv, Shape, PermitsHeld, Holding, Capacity, SocketsClosed, RequestKnown
  <2>5. ASSUME NEW c \in Conn, Dispatch(c)
        PROVE  IInv'
    <3> USE <2>5 DEF Dispatch, Goes
    <3>1. Shape'
      BY DEF IInv, Shape, Blank
    <3>2. Holding' = Holding
      BY DEF IInv, Shape, Holding, Taken, Busy
    <3>3. PermitsHeld'
      BY <3>2 DEF IInv, PermitsHeld, Capacity
    <3>4. QueueEnds' /\ SocketsClosed'
      BY DEF IInv, Shape, QueueEnds, SocketsClosed
    <3>5. \A e \in Conn : RequestKnown(e)'
      BY DEF IInv, Shape, RequestKnown, Blank
    <3>6. QED
      BY <3>1, <3>3, <3>4, <3>5 DEF IInv
  <2>6. ASSUME NEW c \in Conn, Handshake(c)
        PROVE  IInv'
    <3>1. CASE Goes(c, "handshake", "reading") /\ UNCHANGED <<serving, permits, ask, tried, up, open>>
      <4>1. RequestKnown(c)'
        BY <3>1 DEF Goes, IInv, Shape, RequestKnown, Blank
      <4>2. QED
        BY <3>1, <4>1, WorkersKeepIt DEF Goes, IInv, Shape, Busy
    <3>2. CASE Goes(c, "handshake", "done") /\ open' = [open EXCEPT ![c] = {}]
               /\ permits' = permits + 1 /\ Ends(c)
      BY <3>2, EndsKeepIt DEF Goes, Busy
    <3>3. QED
      BY <2>6, <3>1, <3>2 DEF Handshake
  <2>7. ASSUME NEW c \in Conn, Reads(c)
        PROVE  IInv'
    <3>1. PICK q \in Ask : /\ q # "none"
                           /\ ask' = [ask EXCEPT ![c] = q]
                           /\ CASE q = "tunnel" -> Goes(c, "reading", "select")
                                [] q = "plain" -> Goes(c, "reading", "plain")
                                [] OTHER -> Goes(c, "reading", "closing")
                           /\ UNCHANGED <<serving, permits, tried, up, open>>
      BY <2>7 DEF Reads, Asks, Ask
    <3>2. PICK there \in {"select", "plain", "closing"} :
             /\ Goes(c, "reading", there)
             /\ there # "closing" => q \in {"tunnel", "plain"}
      BY <3>1
    <3>3. RequestKnown(c)'
      BY <3>1, <3>2 DEF Goes, IInv, Shape, RequestKnown, Blank
    <3>4. QED
      BY <3>1, <3>2, <3>3, WorkersKeepIt DEF Goes, IInv, Shape, Busy
  <2>8. ASSUME NEW c \in Conn, ClientFails(c)
        PROVE  IInv'
    <3>1. PICK here \in {"reading", "answer"} : Goes(c, here, "closing")
      BY <2>8 DEF ClientFails
    <3>2. RequestKnown(c)'
      BY <2>8, <3>1 DEF ClientFails, Goes, IInv, Shape, RequestKnown, Blank, Refused
    <3>3. QED
      BY <2>8, <3>1, <3>2, WorkersKeepIt DEF ClientFails, Goes, IInv, Shape, Busy
  <2>9. ASSUME NEW c \in Conn, ChoosesForPlain(c)
        PROVE  IInv'
    <3>1. PICK r \in Row \cup {None} :
             /\ CASE r = None -> Goes(c, "plain", "closing") /\ up' = up
                  [] r # None /\ r.place \in Socks -> Goes(c, "plain", "select") /\ up' = up
                  [] OTHER -> Goes(c, "plain", "send") /\ up' = [up EXCEPT ![c] = r]
             /\ UNCHANGED <<serving, permits, ask, tried, open>>
      BY <2>9 DEF ChoosesForPlain
    <3>2. /\ Goes(c, "plain", "closing") \/ Goes(c, "plain", "select") \/ Goes(c, "plain", "send")
          /\ up' = up \/ up' = [up EXCEPT ![c] = r]
      <4>1. CASE r = None
        BY <3>1, <4>1
      <4>2. CASE r # None /\ r.place \in Socks
        BY <3>1, <4>2
      <4>3. CASE r # None /\ r.place \notin Socks
        BY <3>1, <4>3
      <4>4. QED
        BY <4>1, <4>2, <4>3
    <3>3. DOMAIN up' = Conn /\ \A e \in Conn \ {c} : up'[e] = up[e]
      BY <3>2 DEF IInv, Shape
    <3>4. ask[c] \in {"tunnel", "plain"}
      BY <3>2 DEF Goes, IInv, RequestKnown, Blank
    <3>5. RequestKnown(c)'
      BY <3>1, <3>2, <3>4 DEF Goes, IInv, Shape, RequestKnown, Blank, Refused
    <3>6. QED
      BY <3>1, <3>2, <3>3, <3>5, WorkersKeepIt DEF Goes, IInv, Shape, Busy
  <2>10. ASSUME NEW c \in Conn, Chooses(c)
         PROVE  IInv'
    <3>1. PICK r \in Row \cup {None} :
             /\ IF r = None THEN Goes(c, "select", "closing") /\ UNCHANGED <<tried, up>>
                ELSE /\ Goes(c, "select", "dial")
                     /\ up' = [up EXCEPT ![c] = r] /\ tried' = [tried EXCEPT ![c] = Append(@, r.id)]
             /\ UNCHANGED <<serving, permits, ask, open>>
      BY <2>10 DEF Chooses
    <3>2. Goes(c, "select", "closing") \/ Goes(c, "select", "dial")
      BY <3>1
    <3>3. /\ DOMAIN up' = Conn /\ \A e \in Conn \ {c} : up'[e] = up[e]
          /\ DOMAIN tried' = Conn /\ \A e \in Conn \ {c} : tried'[e] = tried[e]
      BY <3>1 DEF IInv, Shape
    <3>4. ask[c] \in {"tunnel", "plain"}
      BY <3>2 DEF Goes, IInv, RequestKnown, Blank
    <3>5. RequestKnown(c)'
      BY <3>1, <3>2, <3>4 DEF Goes, IInv, Shape, RequestKnown, Blank, Refused
    <3>6. QED
      BY <3>1, <3>2, <3>3, <3>5, WorkersKeepIt DEF Goes, IInv, Shape, Busy
  <2>11. ASSUME NEW c \in Conn,
                SendWorks(c) \/ SendFails(c) \/ DialWorks(c) \/ DialFails(c) \/ Grants(c) \/ ForwardEnds(c)
         PROVE  IInv'
    <3>1. PICK here \in {"send", "dial", "answer", "forwarding"},
               there \in {"forwarding", "closing", "answer", "select"} :
             Goes(c, here, there)
      BY <2>11 DEF SendWorks, SendFails, DialWorks, DialFails, Grants, ForwardEnds
    <3>2. /\ UNCHANGED <<serving, permits, ask, tried, up>>
          /\ DOMAIN open' = Conn /\ \A e \in Conn \ {c} : open'[e] = open[e]
      BY <2>11 DEF SendWorks, SendFails, DialWorks, DialFails, Grants, ForwardEnds, IInv, Shape
    <3>3. ask[c] \in {"tunnel", "plain"}
      BY <3>1 DEF Goes, IInv, RequestKnown, Blank
    <3>4. RequestKnown(c)'
      BY <3>1, <3>2, <3>3 DEF Goes, IInv, Shape, RequestKnown, Blank, Refused
    <3>5. QED
      BY <3>1, <3>2, <3>4, WorkersKeepIt DEF Goes, IInv, Shape, Busy
  <2>12. ASSUME NEW c \in Conn, Closes(c)
         PROVE  IInv'
    BY <2>12, EndsKeepIt DEF Closes, Goes, Busy
  <2>13. CASE UNCHANGED <<serving, permits, connVars>>
    BY <2>13 DEF connVars, IInv, Shape, PermitsHeld, Holding, Capacity, QueueEnds, Working,
                 SocketsClosed, RequestKnown
  <2>14. QED
    BY <2>1, <2>2, <2>3, <2>4, <2>5, <2>6, <2>7, <2>8, <2>9, <2>10, <2>11, <2>12, <2>13
       DEF Next, Step, Bounded, Outside, vars
<1>3. QED
  BY <1>1, <1>2, PTL DEF Spec

-----------------------------------------------------------------------------
(* Every permit of the semaphore is free or held by one connection, whatever *)
(* way its handler ended: the listener never gives fewer or more than it has. *)
THEOREM PermitsAreCounted == Spec => []PermitsCounted
<1>1. IInv => PermitsCounted
  BY SameHolding DEF IInv, PermitsHeld, PermitsCounted
<1>2. QED
  BY <1>1, ConnectionsAreKept, PTL

(* A connection that is over has no socket, a server that is over has no *)
(* thread, and a request that was refused has moved no upstream.         *)
THEOREM HandlersAreClean == Spec => []HandlersClean
<1>1. IInv => HandlersClean
  BY DEF IInv, HandlersClean, QueueEnds, GracefulEnd, RequestKnown, OnlyAuthorised, Refused
<1>2. QED
  BY <1>1, ConnectionsAreKept, PTL

-----------------------------------------------------------------------------
(* Choosing.  The largest score of a set is found without counting: it is that *)
(* of a row whose superiors are, as a set, minimal.                            *)
LEMMA RendezvousIsThere ==
  ASSUME NEW S \in SUBSET Row, S # {}, NEW client \in Client
  PROVE  Rendezvous(client, S) \in S
<1> DEFINE score(r) == Score(client, r.id, r.place)
           Above(r) == {s \in S : score(s) > score(r)}
           T == {Above(r) : r \in S}
<1>1. \A r \in S : score(r) \in Nat
  BY StoreAssumption
<1>2. IsFiniteSet(S)
  BY StoreAssumption, FS_Subset
<1>3. T \subseteq FiniteSubsetsOf(S) /\ T # {}
  <2>1. ASSUME NEW r \in S
        PROVE  Above(r) \in FiniteSubsetsOf(S)
    <3>1. Above(r) \in SUBSET S
      OBVIOUS
    <3>2. IsFiniteSet(Above(r))
      BY <1>2, <3>1, FS_Subset
    <3>3. QED
      BY <3>1, <3>2 DEF FiniteSubsetsOf
  <2>2. QED
    BY <2>1
<1>4. PICK U \in T : \A V \in T : ~ (<<V, U>> \in StrictSubsetOrdering(S))
  BY <1>3, FS_StrictSubsetOrderingWellFounded, WFMin
<1>5. PICK r \in S : U = Above(r)
  BY <1>4
<1>6. \A s \in S : score(s) <= score(r)
  <2> SUFFICES ASSUME NEW s \in S, ~(score(s) <= score(r))
               PROVE  FALSE
    OBVIOUS
  <2>1. s \in Above(r) /\ s \notin Above(s)
    BY <1>1
  <2>2. Above(s) \subseteq Above(r)
    BY <1>1
  <2>3. <<Above(s), Above(r)>> \in StrictSubsetOrdering(S)
    BY <2>1, <2>2 DEF StrictSubsetOrdering
  <2>4. QED
    BY <1>4, <1>5, <2>3
<1>7. QED
  BY <1>6 DEF Rendezvous

(* What the store stays with is a row of the present load. *)
LEMMA HeldIsThere ==
  ASSUME NEW S
  PROVE  /\ StillAvailable(S) = None \/ (StillAvailable(S) \in S /\ Same(StillAvailable(S), pinned))
         /\ StillAvailable(S) = None => pinned = None \/ None \in S \/ \A r \in S : ~Same(r, pinned)
BY DEF StillAvailable

(* Every mode chooses among the rows it is given, or nothing. *)
LEMMA OffersAreThere ==
  ASSUME NEW S \in SUBSET Row, S # {}, NEW client \in Client, NEW force,
         NEW r \in Offers(client, S, StillAvailable(S), force), mode \in Mode
  PROVE  r \in S \/ r = None
<1>1. Rendezvous(client, S) \in S
  BY RendezvousIsThere
<1>2. StillAvailable(S) = None \/ StillAvailable(S) \in S
  BY HeldIsThere
<1>3. Explicit(S) \subseteq S \cup {None}
  BY DEF Explicit, Cheapest
<1>4. Cheapest(S) \subseteq S
  BY DEF Cheapest
<1> HIDE DEF StillAvailable, Rendezvous, Explicit, Cheapest
<1>5. mode \in {"fixed", "per_connection", "better_cost", "time", "sticky_client", "sticky_id", "sticky_place"}
  BY StoreAssumption
<1>6. CASE mode = "per_connection"
  BY <1>6 DEF Offers
<1>7. CASE mode = "sticky_client"
  BY <1>1, <1>7 DEF Offers
<1>8. CASE mode \in {"sticky_id", "sticky_place"}
  BY <1>3, <1>8 DEF Offers
<1>9. CASE mode = "fixed"
  BY <1>2, <1>9 DEF Offers
<1>10. CASE mode = "time"
  BY <1>2, <1>10 DEF Offers
<1>11. CASE mode = "better_cost"
  BY <1>2, <1>4, <1>11 DEF Offers
<1>12. QED
  BY <1>5, <1>6, <1>7, <1>8, <1>9, <1>10, <1>11

(* The step of the store when one of its clients chooses r. *)
LEMMA SelectIsTyped ==
  ASSUME StoreTypeOK, NEW client \in Client, NEW force \in BOOLEAN, NEW excluded,
         NEW r \in Row \cup {None}, Select(client, force, excluded, r),
         UNCHANGED <<rows, dbUp, mode>>
  PROVE  /\ StoreTypeOK'
         /\ cache' = Loaded(force)
         /\ r # None => r \in cache' /\ r.id \notin excluded
<1> DEFINE S == {s \in Loaded(force) : s.id \notin excluded}
<1>1. Loaded(force) \subseteq Row /\ None \notin Row
  BY StoreAssumption DEF StoreTypeOK, Loaded
<1>2. S \in SUBSET Row
  BY <1>1
<1>3. cache' = Loaded(force)
  BY DEF Select
<1>4. \/ S = {} /\ r = None /\ pinned' = pinned
      \/ /\ S # {} /\ r \in Offers(client, S, StillAvailable(S), force)
         /\ pinned' \in {r, StillAvailable(S)}
  BY DEF Select
<1>5. StillAvailable(S) = None \/ StillAvailable(S) \in S
  BY HeldIsThere
<1>6. r # None => r \in S
  <2>1. CASE S = {}
    BY <1>4, <2>1
  <2>2. CASE S # {}
    BY <1>2, <1>4, <2>2, OffersAreThere DEF StoreTypeOK
  <2>3. QED
    BY <2>1, <2>2
<1>7. pinned' \in Row \cup {None}
  BY <1>2, <1>4, <1>5 DEF StoreTypeOK
<1>8. young' \in BOOLEAN
  BY DEF Select, StoreTypeOK
<1>9. QED
  BY <1>1, <1>3, <1>6, <1>7, <1>8 DEF StoreTypeOK

-----------------------------------------------------------------------------
(* What is known of one connection at the stage here that asked for q, took *)
(* the upstreams ts, is to use u, and told the store rs.                    *)
FailuresTold(ts, rs) == \A i \in 1..Len(rs) : rs[i] = <<ts[i], "fail">>

AllTold(q, ts, u, rs) ==
    \/ q = "plain" /\ ts = <<>> /\ u \in Row /\ Len(rs) = 1 /\ rs[1][1] = u.id
    \/ /\ ts = <<>> => u = None
       /\ Len(rs) = Len(ts)
       /\ \A i \in 1..Len(rs) : rs[i][1] = ts[i] /\ (i < Len(rs) => rs[i][2] = "fail")

Sound(here, q, ts, u, rs) ==
    /\ ts \in Seq(Id) /\ Len(ts) <= 2 /\ rs \in Seq(Id \X {"alive", "fail"}) /\ u \in Row \cup {None}
    /\ Len(ts) = 2 => ts[1] # ts[2]
    /\ here \in Blank \cup {"plain"} => ts = <<>> /\ rs = <<>> /\ u = None
    /\ here = "plain" => q = "plain"
    /\ here = "select" => Len(ts) <= 1 /\ Len(rs) = Len(ts) /\ FailuresTold(ts, rs) /\ (ts = <<>> => u = None)
    /\ here = "dial" => /\ ts # <<>> /\ u \in Row /\ u.id = ts[Len(ts)]
                        /\ Len(rs) = Len(ts) - 1 /\ FailuresTold(ts, rs)
    /\ here = "send" => q = "plain" /\ ts = <<>> /\ rs = <<>> /\ u \in Row
    /\ here \in {"answer", "forwarding", "closing"} => AllTold(q, ts, u, rs)

ConnectionSound(c) == Sound(at[c], ask[c], tried[c], up[c], told[c])

(* The load that is kept holds each record once, as the table does. *)
StoreSound == StoreTypeOK /\ (cache # None => OneRowEach(cache))

RestTyped ==
    /\ protocol \in Listener /\ serving \in {"open", "stopping", "draining", "broken", "over"}
    /\ open \in [Conn -> SUBSET {"client", "upstream"}] /\ reply \in [Conn -> Reply]
    /\ up \in [Conn -> Row \cup {None}] /\ DOMAIN told = Conn

TryInv == StoreSound /\ RestTyped /\ \A c \in Conn : ConnectionSound(c)

(* A failure of an upstream is told with it, and nothing else is. *)
LEMMA TellsOne ==
  ASSUME NEW rs \in Seq(Id \X {"alive", "fail"}), NEW i \in Id, NEW outcome \in {"alive", "fail"}
  PROVE  /\ Append(rs, <<i, outcome>>) \in Seq(Id \X {"alive", "fail"})
         /\ Len(Append(rs, <<i, outcome>>)) = Len(rs) + 1
         /\ Append(rs, <<i, outcome>>)[Len(rs) + 1] = <<i, outcome>>
         /\ \A k \in 1..Len(rs) : Append(rs, <<i, outcome>>)[k] = rs[k]
OBVIOUS

LEMMA DialIsTold ==
  ASSUME NEW q, NEW ts, NEW u, NEW rs, NEW outcome \in {"alive", "fail"}, Sound("dial", q, ts, u, rs)
  PROVE  /\ u.id \in Id
         /\ AllTold(q, ts, u, Append(rs, <<u.id, outcome>>))
         /\ Append(rs, <<u.id, outcome>>) \in Seq(Id \X {"alive", "fail"})
         /\ outcome = "fail" => FailuresTold(ts, Append(rs, <<u.id, outcome>>))
<1>1. /\ ts \in Seq(Id) /\ rs \in Seq(Id \X {"alive", "fail"}) /\ u \in Row /\ u.id = ts[Len(ts)]
      /\ Len(rs) = Len(ts) - 1 /\ FailuresTold(ts, rs) /\ ts # <<>>
  BY DEF Sound
<1>2. u.id \in Id
  BY <1>1, StoreAssumption
<1> DEFINE new == Append(rs, <<u.id, outcome>>)
<1>3. /\ new \in Seq(Id \X {"alive", "fail"}) /\ Len(new) = Len(ts)
      /\ new[Len(ts)] = <<u.id, outcome>> /\ \A k \in 1..Len(rs) : new[k] = rs[k]
  BY <1>1, <1>2, TellsOne
<1> HIDE DEF new
<1>4. Len(rs) \in Nat /\ Len(ts) = Len(rs) + 1
  BY <1>1
<1>5. \A k \in 1..Len(new) : /\ new[k][1] = ts[k]
                             /\ k < Len(new) => new[k] = <<ts[k], "fail">>
                             /\ k = Len(new) => new[k] = <<ts[k], outcome>>
  <2> SUFFICES ASSUME NEW k \in 1..Len(new)
               PROVE  /\ new[k][1] = ts[k]
                      /\ k < Len(new) => new[k] = <<ts[k], "fail">>
                      /\ k = Len(new) => new[k] = <<ts[k], outcome>>
    OBVIOUS
  <2>1. CASE k = Len(new)
    BY <1>1, <1>3, <1>4, <2>1
  <2>2. CASE k < Len(new)
    <3>1. k \in 1..Len(rs)
      BY <1>3, <1>4, <2>2
    <3>2. new[k] = <<ts[k], "fail">>
      BY <1>1, <1>3, <3>1 DEF FailuresTold
    <3>3. QED
      BY <2>2, <3>2
  <2>3. QED
    BY <1>3, <1>4, <2>1, <2>2
<1>6. AllTold(q, ts, u, new)
  BY <1>1, <1>3, <1>5 DEF AllTold
<1>7. outcome = "fail" => FailuresTold(ts, new)
  BY <1>3, <1>4, <1>5 DEF FailuresTold
<1>8. QED
  BY <1>2, <1>3, <1>6, <1>7 DEF new

(* One more upstream is tried. *)
LEMMA OneMoreIsSound ==
  ASSUME NEW q, NEW ts, NEW u, NEW rs, Sound("select", q, ts, u, rs),
         NEW r \in Row, r.id \notin Range(ts)
  PROVE  Sound("dial", q, Append(ts, r.id), r, rs)
<1>1. /\ ts \in Seq(Id) /\ Len(ts) \in {0, 1} /\ rs \in Seq(Id \X {"alive", "fail"})
      /\ Len(rs) = Len(ts) /\ FailuresTold(ts, rs) /\ r.id \in Id
  BY StoreAssumption DEF Sound
<1> DEFINE new == Append(ts, r.id)
<1>2. /\ new \in Seq(Id) /\ Len(new) = Len(ts) + 1
      /\ new[Len(ts) + 1] = r.id /\ \A k \in 1..Len(ts) : new[k] = ts[k]
  BY <1>1
<1>3. Len(ts) = 1 => ts[1] # r.id
  BY <1>1 DEF Range
<1> HIDE DEF new
<1>a. Len(ts) \in Nat /\ Len(<<>>) = 0
  BY <1>1
<1>b. new # <<>>
  BY <1>2, <1>a
<1>4. FailuresTold(new, rs)
  BY <1>1, <1>2 DEF FailuresTold
<1>5. Len(new) <= 2 /\ Len(rs) = Len(new) - 1 /\ new[Len(new)] = r.id /\ (Len(new) = 2 => new[1] # new[2])
  <2>1. CASE Len(ts) = 0
    BY <1>1, <1>2, <2>1
  <2>2. CASE Len(ts) = 1
    BY <1>1, <1>2, <1>3, <2>2
  <2>3. QED
    BY <1>1, <2>1, <2>2
<1>6. Sound("dial", q, new, r, rs)
  BY <1>1, <1>2, <1>b, <1>4, <1>5 DEF Sound, Blank
<1>7. QED
  BY <1>6 DEF new

(* What was told is what was tried, and only the last of it can have worked. *)
InOrder(q, ts, u, rs) ==
    /\ [i \in DOMAIN rs |-> rs[i][1]] = IF q = "plain" /\ ts = <<>> /\ u # None THEN <<u.id>> ELSE ts
    /\ \A i \in DOMAIN rs : rs[i][2] = "alive" => i = Len(rs)

LEMMA TriesInOrder ==
  ASSUME NEW q, NEW ts \in Seq(Id), NEW u \in Row \cup {None}, NEW rs \in Seq(Id \X {"alive", "fail"}),
         AllTold(q, ts, u, rs)
  PROVE  InOrder(q, ts, u, rs)
<1>1. DOMAIN rs = 1..Len(rs) /\ Len(rs) \in Nat
  OBVIOUS
<1>2. CASE q = "plain" /\ ts = <<>> /\ u \in Row /\ Len(rs) = 1 /\ rs[1][1] = u.id
  <2>1. [i \in DOMAIN rs |-> rs[i][1]] = <<u.id>>
    BY <1>1, <1>2
  <2>2. u # None
    BY <1>2, StoreAssumption
  <2>3. QED
    BY <1>1, <1>2, <2>1, <2>2 DEF InOrder
<1>3. CASE /\ ts = <<>> => u = None
           /\ Len(rs) = Len(ts)
           /\ \A i \in 1..Len(rs) : rs[i][1] = ts[i] /\ (i < Len(rs) => rs[i][2] = "fail")
  <2>1. ts = [i \in 1..Len(ts) |-> ts[i]]
    OBVIOUS
  <2>2. [i \in DOMAIN rs |-> rs[i][1]] = [i \in 1..Len(ts) |-> ts[i]]
    BY <1>1, <1>3
  <2>3. ASSUME NEW i \in DOMAIN rs, rs[i][2] = "alive"
        PROVE  i = Len(rs)
    <3>1. i \in 1..Len(rs)
      BY <1>1
    <3>2. ~(i < Len(rs))
      BY <1>3, <2>3, <3>1
    <3>3. QED
      BY <1>1, <3>1, <3>2
  <2>4. QED
    BY <1>3, <2>1, <2>2, <2>3 DEF InOrder
<1>4. QED
  BY <1>2, <1>3 DEF AllTold

(* A step of one connection, when it leaves that one sound. *)
LEMMA OthersStaySound ==
  ASSUME NEW c \in Conn, \A e \in Conn : ConnectionSound(e),
         \A e \in Conn \ {c} : /\ at'[e] = at[e] /\ ask'[e] = ask[e] /\ tried'[e] = tried[e]
                               /\ up'[e] = up[e] /\ told'[e] = told[e],
         Sound(at'[c], ask'[c], tried'[c], up'[c], told'[c])
  PROVE  \A e \in Conn : ConnectionSound(e)'
BY DEF ConnectionSound

LEMMA TriesAreSound == Spec => []TryInv
<1>1. Init => TryInv
  <2> SUFFICES ASSUME Init PROVE TryInv
    OBVIOUS
  <2>1. StoreSound
    BY DEF Init, StoreInit, StoreSound, StoreTypeOK
  <2>2. RestTyped
    BY DEF Init, RestTyped, Reply
  <2>3. ASSUME NEW c \in Conn
        PROVE  ConnectionSound(c)
    <3>1. at[c] = "new" /\ tried[c] = <<>> /\ up[c] = None /\ told[c] = <<>>
      BY DEF Init
    <3>2. QED
      BY <3>1 DEF ConnectionSound, Sound
  <2>4. QED
    BY <2>1, <2>2, <2>3 DEF TryInv
<1>2. IInv /\ TryInv /\ [Next]_vars => TryInv'
  <2> SUFFICES ASSUME IInv, TryInv, [Next]_vars
               PROVE  TryInv'
    OBVIOUS
  <2>a. /\ at \in [Conn -> Blank \cup Busy] /\ ask \in [Conn -> Ask] /\ DOMAIN tried = Conn
        /\ up \in [Conn -> Row \cup {None}]
        /\ open \in [Conn -> SUBSET {"client", "upstream"}] /\ reply \in [Conn -> Reply] /\ DOMAIN told = Conn
        /\ protocol \in Listener /\ serving \in {"open", "stopping", "draining", "broken", "over"}
    BY DEF IInv, Shape, TryInv, RestTyped
  <2>b. \A c \in Conn : ConnectionSound(c)
    BY DEF TryInv
  <2>c. StoreSound /\ StoreTypeOK
    BY DEF TryInv, StoreSound
  <2>d. ASSUME UNCHANGED storeVars
        PROVE  StoreSound'
    BY <2>c, <2>d DEF storeVars, StoreSound, StoreTypeOK, OneRowEach
  <2>1. ASSUME NEW c \in Conn, Accept(c) \/ Dispatch(c) \/ (Goes(c, "handshake", "reading") /\ Handshake(c))
        PROVE  TryInv'
    <3>1. /\ UNCHANGED <<storeVars, protocol, serving, ask, tried, up, reply, told>>
          /\ at[c] \in Blank /\ (at' = [at EXCEPT ![c] = at'[c]]) /\ at'[c] \in Blank
          /\ open' \in [Conn -> SUBSET {"client", "upstream"}]
      BY <2>1, <2>a DEF Accept, Dispatch, Handshake, Goes, Blank
    <3>2. Sound(at'[c], ask'[c], tried'[c], up'[c], told'[c])
      BY <2>b, <3>1 DEF ConnectionSound, Sound, Blank
    <3>3. \A e \in Conn : ConnectionSound(e)'
      BY <2>a, <2>b, <3>1, <3>2, OthersStaySound
    <3>4. QED
      BY <2>a, <2>d, <3>1, <3>3 DEF TryInv, RestTyped
  <2>2. CASE Shutdown \/ AcceptRaises \/ Leave
    <3>1. UNCHANGED <<storeVars, protocol, connVars>> /\ serving' \in {"stopping", "broken", "over"}
      BY <2>2 DEF Shutdown, AcceptRaises, Leave
    <3>2. QED
      BY <2>a, <2>b, <2>d, <3>1 DEF connVars, TryInv, RestTyped, ConnectionSound
  <2>3. CASE Drain
    <3>1. /\ UNCHANGED <<storeVars, protocol, ask, tried, up, open, reply, told>> /\ serving' = "draining"
          /\ at' = [e \in Conn |-> IF at[e] = "queued" THEN "cancelled" ELSE at[e]]
      BY <2>3 DEF Drain
    <3>2. ASSUME NEW e \in Conn
          PROVE  ConnectionSound(e)'
      <4>1. CASE at[e] = "queued"
        BY <2>b, <3>1, <4>1 DEF ConnectionSound, Sound, Blank
      <4>2. CASE at[e] # "queued"
        BY <2>b, <3>1, <4>2 DEF ConnectionSound
      <4>3. QED
        BY <4>1, <4>2
    <3>3. QED
      BY <2>a, <2>d, <3>1, <3>2 DEF TryInv, RestTyped
  <2>4. ASSUME NEW c \in Conn, at[c] \in Busy, at' = [at EXCEPT ![c] = "done"],
               open' = [open EXCEPT ![c] = {}], Ends(c)
        PROVE  TryInv'
    <3>1. /\ ask' = [ask EXCEPT ![c] = "none"] /\ tried' = [tried EXCEPT ![c] = <<>>]
          /\ up' = [up EXCEPT ![c] = None] /\ told' = [told EXCEPT ![c] = <<>>]
          /\ reply' = [reply EXCEPT ![c] = "none"] /\ UNCHANGED <<storeVars, protocol, serving>>
      BY <2>4 DEF Ends
    <3>2. Sound("done", "none", <<>>, None, <<>>)
      BY DEF Sound
    <3>3. \A e \in Conn : ConnectionSound(e)'
      BY <2>4, <2>a, <2>b, <3>1, <3>2, OthersStaySound
    <3>4. open' \in [Conn -> SUBSET {"client", "upstream"}] /\ reply' \in [Conn -> Reply]
      BY <2>4, <2>a, <3>1 DEF Reply
    <3>5. QED
      BY <2>a, <2>d, <3>1, <3>3, <3>4 DEF TryInv, RestTyped
  <2>5. ASSUME NEW c \in Conn, Handshake(c) \/ Closes(c)
        PROVE  TryInv'
    BY <2>1, <2>4, <2>5 DEF Handshake, Closes, Goes, Busy
  <2>6. ASSUME NEW c \in Conn, Reads(c)
        PROVE  TryInv'
    <3>1. PICK q \in Asks :
             /\ ask' = [ask EXCEPT ![c] = q]
             /\ CASE q = "tunnel" -> Goes(c, "reading", "select") /\ reply' = reply
                  [] q = "plain" -> Goes(c, "reading", "plain") /\ reply' = reply
                  [] OTHER -> Goes(c, "reading", "closing") /\ Replies(c, Answer(q))
             /\ UNCHANGED <<storeVars, protocol, serving, permits, tried, up, open, told>>
      BY <2>6 DEF Reads
    <3>2. PICK there \in {"select", "plain", "closing"} :
             /\ Goes(c, "reading", there) /\ (there = "plain" => q = "plain")
             /\ reply' = reply \/ (q \notin {"tunnel", "plain"} /\ Replies(c, Answer(q)))
      BY <3>1
    <3>3. q \in {"bad", "unauthorised", "unsupported", "tunnel", "plain"}
      BY DEF Asks
    <3>4. reply' \in [Conn -> Reply]
      <4>1. q \notin {"tunnel", "plain"} => Answer(q) \in Reply
        BY <3>3 DEF Answer, Reply
      <4>2. QED
        BY <2>a, <3>2, <4>1 DEF Replies
    <3>5. at[c] = "reading" /\ tried[c] = <<>> /\ up[c] = None /\ told[c] = <<>>
      BY <2>b, <3>2 DEF Goes, ConnectionSound, Sound, Blank
    <3>6. Sound(there, q, <<>>, None, <<>>)
      BY <3>2, <3>3 DEF Sound, AllTold, FailuresTold, Blank
    <3>7. \A e \in Conn : ConnectionSound(e)'
      BY <2>a, <2>b, <3>1, <3>2, <3>5, <3>6, OthersStaySound DEF Goes
    <3>8. QED
      BY <2>a, <2>d, <3>1, <3>4, <3>7 DEF TryInv, RestTyped
  <2>7. ASSUME NEW c \in Conn, ClientFails(c) \/ Grants(c) \/ ForwardEnds(c)
        PROVE  TryInv'
    <3>1. /\ UNCHANGED <<storeVars, protocol, serving, ask, tried, up, told>>
          /\ at[c] \in {"reading", "answer", "forwarding"} /\ (at' = [at EXCEPT ![c] = at'[c]])
          /\ at'[c] \in {"forwarding", "closing"} /\ (at[c] = "reading" => at'[c] = "closing")
          /\ open' \in [Conn -> SUBSET {"client", "upstream"}] /\ reply' \in [Conn -> Reply]
      BY <2>7, <2>a DEF ClientFails, Grants, ForwardEnds, Goes, Replies, Reply
    <3>2. Sound(at'[c], ask'[c], tried'[c], up'[c], told'[c])
      <4>1. Sound(at[c], ask[c], tried[c], up[c], told[c])
        BY <2>b DEF ConnectionSound
      <4>2. CASE at[c] = "reading"
        BY <3>1, <4>1, <4>2 DEF Sound, AllTold, Blank
      <4>3. CASE at[c] # "reading"
        BY <3>1, <4>1, <4>3 DEF Sound, Blank
      <4>4. QED
        BY <4>2, <4>3
    <3>3. \A e \in Conn : ConnectionSound(e)'
      BY <2>a, <2>b, <3>1, <3>2, OthersStaySound
    <3>4. QED
      BY <2>a, <2>d, <3>1, <3>3 DEF TryInv, RestTyped
  <2>8. ASSUME NEW c \in Conn, ChoosesForPlain(c)
        PROVE  TryInv'
    <3>1. PICK r \in Row \cup {None} :
             /\ Select(from[c], FALSE, {}, r)
             /\ CASE r = None -> Goes(c, "plain", "closing") /\ Replies(c, "refused") /\ up' = up
                  [] r # None /\ r.place \in Socks -> Goes(c, "plain", "select") /\ UNCHANGED <<reply, up>>
                  [] OTHER -> Goes(c, "plain", "send") /\ up' = [up EXCEPT ![c] = r] /\ reply' = reply
             /\ UNCHANGED <<rows, dbUp, mode, protocol, serving, permits, ask, tried, open, told>>
      BY <2>8 DEF ChoosesForPlain
    <3>2. StoreSound'
      <4>1. StoreTypeOK' /\ cache' = Loaded(FALSE)
        BY <2>c, <3>1, GatewayAssumption, SelectIsTyped
      <4>2. QED
        BY <2>c, <4>1 DEF StoreSound, StoreTypeOK, Loaded, OneRowEach
    <3>3. \/ Goes(c, "plain", "closing") /\ Replies(c, "refused") /\ up' = up
          \/ Goes(c, "plain", "select") /\ UNCHANGED <<reply, up>>
          \/ r # None /\ Goes(c, "plain", "send") /\ up' = [up EXCEPT ![c] = r] /\ reply' = reply
      <4>1. CASE r = None
        BY <3>1, <4>1
      <4>2. CASE r # None /\ r.place \in Socks
        BY <3>1, <4>2
      <4>3. CASE r # None /\ r.place \notin Socks
        BY <3>1, <4>3
      <4>4. QED
        BY <4>1, <4>2, <4>3
    <3>4. at[c] = "plain" /\ ask[c] = "plain" /\ tried[c] = <<>> /\ up[c] = None /\ told[c] = <<>>
      BY <2>b, <3>3 DEF Goes, ConnectionSound, Sound
    <3>5. /\ Sound("closing", "plain", <<>>, None, <<>>) /\ Sound("select", "plain", <<>>, None, <<>>)
          /\ r # None => Sound("send", "plain", <<>>, r, <<>>)
      BY DEF Sound, AllTold, FailuresTold, Blank
    <3>6. \A e \in Conn \ {c} : /\ at'[e] = at[e] /\ ask'[e] = ask[e] /\ tried'[e] = tried[e]
                                /\ up'[e] = up[e] /\ told'[e] = told[e]
      BY <2>a, <3>1, <3>3 DEF Goes
    <3>7. Sound(at'[c], ask'[c], tried'[c], up'[c], told'[c])
      BY <2>a, <3>1, <3>3, <3>4, <3>5 DEF Goes
    <3>8. \A e \in Conn : ConnectionSound(e)'
      BY <2>b, <3>6, <3>7, OthersStaySound
    <3>9. RestTyped'
      BY <2>a, <3>1, <3>3 DEF RestTyped, Replies, Reply
    <3>10. QED
      BY <3>2, <3>8, <3>9 DEF TryInv
  <2>9. ASSUME NEW c \in Conn, Chooses(c)
        PROVE  TryInv'
    <3>1. PICK r \in Row \cup {None} :
             /\ Select(from[c], tried[c] # <<>>, Range(tried[c]), r)
             /\ IF r = None THEN Goes(c, "select", "closing") /\ Replies(c, "refused") /\ UNCHANGED <<tried, up>>
                ELSE /\ Goes(c, "select", "dial") /\ reply' = reply
                     /\ up' = [up EXCEPT ![c] = r] /\ tried' = [tried EXCEPT ![c] = Append(@, r.id)]
             /\ UNCHANGED <<rows, dbUp, mode, protocol, serving, permits, ask, open, told>>
      BY <2>9 DEF Chooses
    <3>2. StoreSound' /\ (r # None => r.id \notin Range(tried[c]))
      <4>1. StoreTypeOK' /\ cache' = Loaded(tried[c] # <<>>) /\ (r # None => r.id \notin Range(tried[c]))
        BY <2>c, <3>1, GatewayAssumption, SelectIsTyped
      <4>2. QED
        BY <2>c, <4>1 DEF StoreSound, StoreTypeOK, Loaded, OneRowEach
    <3>3. Sound("select", ask[c], tried[c], up[c], told[c]) /\ at[c] = "select"
      BY <2>b, <3>1 DEF Goes, ConnectionSound
    <3>4. CASE r = None
      <4>1. Sound("closing", ask[c], tried[c], up[c], told[c])
        BY <3>3 DEF Sound, AllTold, FailuresTold, Blank
      <4>2. \A e \in Conn : ConnectionSound(e)'
        BY <2>a, <2>b, <3>1, <3>4, <4>1, OthersStaySound DEF Goes
      <4>3. RestTyped'
        BY <2>a, <3>1, <3>4 DEF RestTyped, Replies, Reply
      <4>4. QED
        BY <3>2, <4>2, <4>3 DEF TryInv
    <3>5. CASE r # None
      <4>1. r \in Row /\ r.id \in Id
        BY <3>5, StoreAssumption
      <4>2. Sound("dial", ask[c], Append(tried[c], r.id), r, told[c])
        BY <3>2, <3>3, <3>5, <4>1, OneMoreIsSound
      <4>3. \A e \in Conn : ConnectionSound(e)'
        BY <2>a, <2>b, <3>1, <3>5, <4>2, OthersStaySound DEF Goes
      <4>4. RestTyped'
        BY <2>a, <3>1, <3>5 DEF RestTyped
      <4>5. QED
        BY <3>2, <4>3, <4>4 DEF TryInv
    <3>6. QED
      BY <3>4, <3>5
  <2>10. ASSUME NEW c \in Conn, SendWorks(c) \/ SendFails(c)
         PROVE  TryInv'
    <3>1. PICK outcome \in {"alive", "fail"}, there \in {"forwarding", "closing"} :
             /\ Goes(c, "send", there) /\ Tells(c, up[c].id, outcome)
             /\ UNCHANGED <<storeVars, protocol, serving, ask, tried, up>>
      BY <2>10 DEF SendWorks, SendFails
    <3>2. open' \in [Conn -> SUBSET {"client", "upstream"}] /\ reply' \in [Conn -> Reply]
      BY <2>10, <2>a DEF SendWorks, SendFails, Replies, Reply
    <3>3. /\ ask[c] = "plain" /\ tried[c] = <<>> /\ told[c] = <<>> /\ up[c] \in Row /\ at[c] = "send"
      BY <2>b, <3>1 DEF Goes, ConnectionSound, Sound
    <3>4. up[c].id \in Id
      BY <3>3, StoreAssumption
    <3>5. told'[c] = <<<<up[c].id, outcome>>>>
      BY <2>a, <3>1, <3>3 DEF Tells
    <3>6. Sound(there, "plain", <<>>, up[c], <<<<up[c].id, outcome>>>>)
      BY <3>3, <3>4 DEF Sound, AllTold, Blank
    <3>7. \A e \in Conn : ConnectionSound(e)'
      BY <2>a, <2>b, <3>1, <3>3, <3>5, <3>6, OthersStaySound DEF Goes, Tells
    <3>8. DOMAIN told' = Conn
      BY <2>a, <3>1 DEF Tells
    <3>9. QED
      BY <2>a, <2>d, <3>1, <3>2, <3>7, <3>8 DEF TryInv, RestTyped
  <2>11. ASSUME NEW c \in Conn, DialWorks(c) \/ DialFails(c)
         PROVE  TryInv'
    <3>1. PICK outcome \in {"alive", "fail"}, there \in {"answer", "select", "closing"} :
             /\ Goes(c, "dial", there) /\ Tells(c, up[c].id, outcome)
             /\ there = "select" => outcome = "fail" /\ Len(tried[c]) < 2
             /\ UNCHANGED <<storeVars, protocol, serving, ask, tried, up>>
      BY <2>11 DEF DialWorks, DialFails
    <3>2. open' \in [Conn -> SUBSET {"client", "upstream"}] /\ reply' \in [Conn -> Reply]
      BY <2>11, <2>a DEF DialWorks, DialFails, Replies, Reply
    <3>3. Sound("dial", ask[c], tried[c], up[c], told[c])
      BY <2>b, <3>1 DEF Goes, ConnectionSound
    <3> DEFINE new == Append(told[c], <<up[c].id, outcome>>)
    <3>4. /\ AllTold(ask[c], tried[c], up[c], new) /\ new \in Seq(Id \X {"alive", "fail"})
          /\ outcome = "fail" => FailuresTold(tried[c], new)
      BY <3>3, DialIsTold
    <3>5. Len(new) = Len(tried[c]) /\ Len(tried[c]) \in Nat /\ tried[c] # <<>>
      BY <3>3 DEF Sound
    <3>6. told' = [told EXCEPT ![c] = new]
      BY <3>1 DEF Tells
    <3> HIDE DEF new
    <3>7. Sound(there, ask[c], tried[c], up[c], new)
      BY <3>1, <3>3, <3>4, <3>5 DEF Sound, Blank
    <3>8. \A e \in Conn : ConnectionSound(e)'
      BY <2>a, <2>b, <3>1, <3>6, <3>7, OthersStaySound DEF Goes
    <3>9. DOMAIN told' = Conn
      BY <2>a, <3>6
    <3>10. QED
      BY <2>a, <2>d, <3>1, <3>2, <3>8, <3>9 DEF TryInv, RestTyped
  <2>12. CASE (Rewrites \/ DatabaseFails \/ DatabaseReturns \/ Ages) /\ Outside
    <3>1. StoreSound'
      <4>1. CASE Rewrites
        <5>1. rows' \subseteq Row /\ OneRowEach(rows') /\ UNCHANGED <<dbUp, mode, cache, young, pinned>>
          BY <2>c, <4>1 DEF Rewrites, StoreTypeOK, OneRowEach
        <5>2. QED
          BY <2>c, <5>1 DEF StoreSound, StoreTypeOK, OneRowEach
      <4>2. CASE DatabaseFails \/ DatabaseReturns \/ Ages
        BY <2>c, <4>2 DEF DatabaseFails, DatabaseReturns, Ages, StoreSound, StoreTypeOK, OneRowEach
      <4>3. QED
        BY <2>12, <4>1, <4>2
    <3>2. QED
      BY <2>12, <2>a, <2>b, <3>1 DEF Outside, connVars, TryInv, RestTyped, ConnectionSound
  <2>13. CASE UNCHANGED vars
    BY <2>13, <2>a, <2>b, <2>d DEF vars, connVars, TryInv, RestTyped, ConnectionSound
  <2>14. QED
    BY <2>1, <2>2, <2>3, <2>5, <2>6, <2>7, <2>8, <2>9, <2>10, <2>11, <2>12, <2>13 DEF Next, Step, Bounded
<1>3. QED
  BY <1>1, <1>2, ConnectionsAreKept, PTL DEF Spec

(* The two attempts of a connection go to different records, the first of them *)
(* told to the store as failed; and whatever was tried is told, once and in    *)
(* order, before the connection ends.                                          *)
THEOREM TriesAlwaysTold == Spec => []TriesAreTold
<1>1. IInv /\ TryInv => TriesAreTold
  <2> SUFFICES ASSUME IInv, TryInv PROVE TriesAreTold
    OBVIOUS
  <2>1. ASSUME NEW c \in Conn
        PROVE  /\ tried[c] \in Seq(Id) /\ Len(tried[c]) <= 2 /\ told[c] \in Seq(Id \X {"alive", "fail"})
               /\ up[c] \in Row \cup {None} /\ Sound(at[c], ask[c], tried[c], up[c], told[c])
    BY DEF TryInv, ConnectionSound, Sound
  <2>2. TypeOK
    <3>1. permits \in 0..Capacity
      BY HoldingIsFinite DEF IInv, Shape, PermitsHeld
    <3>2. at \in [Conn -> {"new", "turned_away", "queued", "cancelled", "handshake", "reading", "plain",
                         "select", "dial", "send", "answer", "forwarding", "closing", "done"}]
      BY DEF IInv, Shape, Blank, Busy
    <3>3. \A c \in Conn : Len(tried[c]) <= 2 /\ Range(tried[c]) \subseteq Id
      BY <2>1 DEF Range
    <3>4. \A c \in Conn : Range(told[c]) \subseteq Id \X {"alive", "fail"}
      BY <2>1 DEF Range
    <3>5. QED
      BY <3>1, <3>2, <3>3, <3>4 DEF TypeOK, TryInv, StoreSound, RestTyped, IInv, Shape
  <2>3. RetryGoesElsewhere
    <3> SUFFICES ASSUME NEW c \in Conn, Len(tried[c]) = 2
                 PROVE  tried[c][1] # tried[c][2] /\ <<tried[c][1], "fail">> \in Range(told[c])
      BY DEF RetryGoesElsewhere
    <3>1. tried[c] # <<>> /\ at[c] \in {"dial", "answer", "forwarding", "closing"}
      BY <2>1 DEF Sound, IInv, Shape, Blank, Busy
    <3>2. 1 \in 1..Len(told[c]) /\ told[c][1] = <<tried[c][1], "fail">>
      <4>1. CASE at[c] = "dial"
        BY <2>1, <4>1 DEF Sound, FailuresTold
      <4>2. CASE at[c] # "dial"
        <5>1. Len(told[c]) = 2 /\ told[c][1][1] = tried[c][1] /\ told[c][1][2] = "fail"
          BY <2>1, <3>1, <4>2 DEF Sound, AllTold
        <5>2. told[c][1] \in Id \X {"alive", "fail"}
          BY <2>1, <5>1
        <5>3. QED
          BY <5>1, <5>2
      <4>3. QED
        BY <4>1, <4>2
    <3>3. tried[c][1] # tried[c][2]
      BY <2>1 DEF Sound
    <3>4. DOMAIN told[c] = 1..Len(told[c])
      BY <2>1
    <3>5. QED
      BY <3>2, <3>3, <3>4 DEF Range
  <2>4. EveryTryIsTold
    <3> SUFFICES ASSUME NEW c \in Conn, at[c] = "closing"
                 PROVE  InOrder(ask[c], tried[c], up[c], told[c])
      BY DEF EveryTryIsTold, InOrder
    <3>1. AllTold(ask[c], tried[c], up[c], told[c])
      BY <2>1 DEF Sound
    <3>2. QED
      BY <2>1, <3>1, TriesInOrder
  <2>5. QED
    BY <2>2, <2>3, <2>4 DEF TriesAreTold
<1>2. QED
  BY <1>1, ConnectionsAreKept, TriesAreSound, PTL

-----------------------------------------------------------------------------
(* Nothing but a choice moves what the store stays with, or takes a connection *)
(* to another upstream.                                                        *)
LEMMA OnlyChoicesMove ==
  ASSUME IInv, TryInv, [Next]_vars
  PROVE  \/ pinned' = pinned /\ \A c \in Conn : up'[c] \in {None, up[c]}
         \/ \E c \in Conn, r \in Row \cup {None} :
               /\ Select(from[c], tried[c] # <<>>, Range(tried[c]), r)
               /\ UNCHANGED <<rows, dbUp, mode>>
               /\ tried[c] # <<>> /\ r # None => tried'[c] # tried[c]
               /\ \A e \in Conn : up'[e] \in {None, up[e]} \/ (e = c /\ up'[e] = r)
<1>a. up \in [Conn -> Row \cup {None}] /\ DOMAIN tried = Conn
  BY DEF TryInv, RestTyped, IInv, Shape
<1>b. \A c \in Conn : Sound(at[c], ask[c], tried[c], up[c], told[c])
  BY DEF TryInv, ConnectionSound
<1>1. ASSUME NEW c \in Conn, Ends(c), UNCHANGED storeVars
      PROVE  pinned' = pinned /\ \A e \in Conn : up'[e] \in {None, up[e]}
  BY <1>a, <1>1 DEF Ends, storeVars
<1>2. ASSUME NEW c \in Conn, Chooses(c)
      PROVE  \E r \in Row \cup {None} :
                /\ Select(from[c], tried[c] # <<>>, Range(tried[c]), r)
                /\ UNCHANGED <<rows, dbUp, mode>>
                /\ tried[c] # <<>> /\ r # None => tried'[c] # tried[c]
                /\ \A e \in Conn : up'[e] \in {None, up[e]} \/ (e = c /\ up'[e] = r)
  <2>1. PICK r \in Row \cup {None} :
           /\ Select(from[c], tried[c] # <<>>, Range(tried[c]), r)
           /\ IF r = None THEN UNCHANGED <<tried, up>>
              ELSE up' = [up EXCEPT ![c] = r] /\ tried' = [tried EXCEPT ![c] = Append(@, r.id)]
           /\ UNCHANGED <<rows, dbUp, mode>>
    BY <1>2 DEF Chooses
  <2>2. r # None => tried'[c] # tried[c]
    <3> SUFFICES ASSUME r # None PROVE tried'[c] # tried[c]
      OBVIOUS
    <3>1. tried[c] \in Seq(Id) /\ r.id \in Id /\ tried'[c] = Append(tried[c], r.id)
      BY <1>a, <1>b, <2>1, StoreAssumption DEF Sound
    <3>2. Len(tried'[c]) = Len(tried[c]) + 1 /\ Len(tried[c]) \in Nat
      BY <3>1
    <3>3. QED
      BY <3>2
  <2>3. \A e \in Conn : up'[e] \in {None, up[e]} \/ (e = c /\ up'[e] = r)
    BY <1>a, <2>1
  <2>4. QED
    BY <2>1, <2>2, <2>3
<1>3. ASSUME NEW c \in Conn, ChoosesForPlain(c)
      PROVE  \E r \in Row \cup {None} :
                /\ Select(from[c], tried[c] # <<>>, Range(tried[c]), r)
                /\ UNCHANGED <<rows, dbUp, mode>>
                /\ tried[c] # <<>> /\ r # None => tried'[c] # tried[c]
                /\ \A e \in Conn : up'[e] \in {None, up[e]} \/ (e = c /\ up'[e] = r)
  <2>1. PICK r \in Row \cup {None} :
           /\ Select(from[c], FALSE, {}, r)
           /\ CASE r = None -> Goes(c, "plain", "closing") /\ up' = up
                [] r # None /\ r.place \in Socks -> Goes(c, "plain", "select") /\ up' = up
                [] OTHER -> Goes(c, "plain", "send") /\ up' = [up EXCEPT ![c] = r]
           /\ UNCHANGED <<rows, dbUp, mode, tried>>
    BY <1>3 DEF ChoosesForPlain
  <2>2. at[c] = "plain" /\ (up' = up \/ up' = [up EXCEPT ![c] = r])
    <3>1. CASE r = None
      BY <2>1, <3>1 DEF Goes
    <3>2. CASE r # None /\ r.place \in Socks
      BY <2>1, <3>2 DEF Goes
    <3>3. CASE r # None /\ r.place \notin Socks
      BY <2>1, <3>3 DEF Goes
    <3>4. QED
      BY <3>1, <3>2, <3>3
  <2>3. tried[c] = <<>>
    BY <1>b, <2>2 DEF Sound
  <2>4. Range(tried[c]) = {} /\ (tried[c] # <<>>) = FALSE
    BY <2>3 DEF Range
  <2>5. Select(from[c], tried[c] # <<>>, Range(tried[c]), r)
    BY <2>1, <2>4
  <2>6. \A e \in Conn : up'[e] \in {None, up[e]} \/ (e = c /\ up'[e] = r)
    BY <1>a, <2>2
  <2>7. QED
    BY <2>1, <2>3, <2>5, <2>6
<1>4. ASSUME NEW c \in Conn, Step(c), ~Chooses(c), ~ChoosesForPlain(c)
      PROVE  pinned' = pinned /\ \A e \in Conn : up'[e] \in {None, up[e]}
  BY <1>1, <1>4 DEF Step, Bounded, Accept, Dispatch, Handshake, Reads, ClientFails, SendFails, DialFails,
     Closes, SendWorks, DialWorks, Grants, ForwardEnds, Ends, storeVars
<1>5. CASE Shutdown \/ Drain \/ AcceptRaises \/ Leave \/ UNCHANGED vars
           \/ ((Rewrites \/ DatabaseFails \/ DatabaseReturns \/ Ages) /\ Outside)
  BY <1>5 DEF Shutdown, Drain, AcceptRaises, Leave, Rewrites, DatabaseFails, DatabaseReturns, Ages, Outside,
     connVars, storeVars, vars
<1>6. QED
  BY <1>2, <1>3, <1>4, <1>5 DEF Next

(* A connection goes to a row of the present load, and where a load was due to *)
(* a record that passes the filters now.                                       *)
THEOREM ChoicesAreCurrent == Spec => ChoiceIsCurrent
<1>1. ASSUME IInv, TryInv, [Next]_vars
      PROVE  \A c \in Conn : up'[c] \notin {None, up[c]} =>
                /\ up'[c] \in cache'
                /\ dbUp /\ (~young \/ tried[c] # <<>>) => up'[c] \in rows
  <2> SUFFICES ASSUME NEW c \in Conn, up'[c] \notin {None, up[c]}
               PROVE  /\ up'[c] \in cache'
                      /\ dbUp /\ (~young \/ tried[c] # <<>>) => up'[c] \in rows
    OBVIOUS
  <2>1. PICK r \in Row \cup {None} :
           /\ Select(from[c], tried[c] # <<>>, Range(tried[c]), r)
           /\ UNCHANGED <<rows, dbUp, mode>> /\ up'[c] = r
    BY <1>1, OnlyChoicesMove
  <2>2. cache' = Loaded(tried[c] # <<>>) /\ r \in cache'
    BY <1>1, <2>1, SelectIsTyped, GatewayAssumption DEF TryInv, StoreSound
  <2>3. QED
    BY <2>1, <2>2 DEF Loaded, LoadIsDue
<1>2. QED
  BY <1>1, ConnectionsAreKept, TriesAreSound, PTL DEF Spec, ChoiceIsCurrent

(* Why a choice leaves the proxy the store stays with, when the mode does  *)
(* not rotate: no row of the load is that proxy, or it was excluded, or    *)
(* another one is cheaper, or as cheap when the choice is a second one.    *)
LEMMA MovesForCause ==
  ASSUME TryInv, NEW cl \in Client, NEW force \in BOOLEAN, NEW excluded,
         NEW r \in Row \cup {None}, Select(cl, force, excluded, r),
         pinned # None, pinned' # None, ~Same(pinned, pinned'), mode # "time"
  PROVE  \/ \A s \in cache' : ~Same(s, pinned)
         \/ pinned.id \in excluded /\ r # None
         \/ mode = "better_cost" /\ \A s \in cache' : Same(s, pinned) =>
               \/ pinned'.cost < s.cost
               \/ pinned'.cost = s.cost /\ force /\ r # None
<1> DEFINE S == {s \in Loaded(force) : s.id \notin excluded}
           held == StillAvailable(S)
<1> SUFFICES ASSUME NEW t \in cache', Same(t, pinned), pinned.id \notin excluded \/ r = None
             PROVE  mode = "better_cost" /\ \A s \in cache' : Same(s, pinned) =>
                      \/ pinned'.cost < s.cost
                      \/ pinned'.cost = s.cost /\ force /\ r # None
  OBVIOUS
<1>1. cache' = Loaded(force) /\ cache' \subseteq Row /\ OneRowEach(cache')
      /\ pinned \in Row /\ mode \in Mode
  BY DEF TryInv, StoreSound, StoreTypeOK, Select, Loaded, LoadIsDue, OneRowEach
<1>2. /\ S = {} => pinned' = pinned
      /\ S # {} => r \in Offers(cl, S, held, force) /\ pinned' = IF Stays THEN r ELSE held
  BY DEF Select
<1>3. S # {}
  BY <1>2, <1>1 DEF Same
<1>4. held # None => held \in S /\ Same(held, pinned)
  BY HeldIsThere
<1>5. Stays /\ r = pinned' /\ r # None
  BY <1>2, <1>3, <1>4 DEF Same
<1>6. t \in S
  BY <1>1, <1>5 DEF Same
<1>7. held = t
  <2>1. held # None
    BY <1>6, <1>1, StoreAssumption DEF StillAvailable
  <2>2. QED
    BY <1>1, <1>4, <2>1 DEF OneRowEach, Same
<1>8. \A s \in cache' : Same(s, pinned) => s = t
  BY <1>1 DEF OneRowEach, Same
<1>9. t # None /\ t \in Row /\ t.cost \in Nat
  BY <1>1, StoreAssumption
<1> HIDE DEF S, held
<1>10. CASE mode = "fixed"
  <2>1. r = t
    BY <1>2, <1>3, <1>7, <1>9, <1>10 DEF Offers
  <2>2. QED
    BY <2>1, <1>5 DEF Same
<1>11. CASE mode = "better_cost"
  <2>1. r \in Row /\ r.cost \in Nat
    BY <1>5, StoreAssumption
  <2>2. r \in IF force \/ \A s \in Cheapest(S) : s.cost < t.cost THEN Cheapest(S) ELSE {t}
    BY <1>2, <1>3, <1>7, <1>9, <1>11 DEF Offers
  <2>3. r # t
    BY <1>5 DEF Same
  <2>4. r \in Cheapest(S) /\ (force \/ r.cost < t.cost)
    BY <2>2, <2>3
  <2>5. r.cost <= t.cost
    BY <2>4, <1>6 DEF Cheapest
  <2>6. r.cost < t.cost \/ (r.cost = t.cost /\ force)
    BY <2>1, <2>4, <2>5, <1>9
  <2>7. QED
    BY <2>6, <1>5, <1>8, <1>11
<1>12. QED
  BY <1>5, <1>10, <1>11 DEF Stays

(* PinMovesForCause: the proxy that "fixed", "better_cost" and "time" stay *)
(* with changes only where connect_selected_upstream has a reason to leave *)
(* it, whatever the records, the costs and the order of the connections.   *)
THEOREM PinMovesWithReason == Spec => PinMovesForCause
<1>1. ASSUME IInv, TryInv, [Next]_vars
      PROVE  pinned # None /\ pinned' # None /\ ~Same(pinned, pinned') =>
                \/ mode = "time"
                \/ \A r \in cache' : ~Same(r, pinned)
                \/ mode = "better_cost" /\ \A r \in cache' : Same(r, pinned) =>
                      \/ pinned'.cost < r.cost
                      \/ pinned'.cost = r.cost /\ \E c \in Conn : tried[c] # <<>> /\ tried'[c] # tried[c]
                \/ \E c \in Conn : tried'[c] # tried[c] /\ pinned.id \in Range(tried[c])
  <2> SUFFICES ASSUME pinned # None, pinned' # None, ~Same(pinned, pinned')
               PROVE  \/ mode = "time"
                      \/ \A r \in cache' : ~Same(r, pinned)
                      \/ mode = "better_cost" /\ \A r \in cache' : Same(r, pinned) =>
                            \/ pinned'.cost < r.cost
                            \/ pinned'.cost = r.cost /\ \E c \in Conn : tried[c] # <<>> /\ tried'[c] # tried[c]
                      \/ \E c \in Conn : tried'[c] # tried[c] /\ pinned.id \in Range(tried[c])
    OBVIOUS
  <2>1. PICK c \in Conn, r \in Row \cup {None} :
           /\ Select(from[c], tried[c] # <<>>, Range(tried[c]), r)
           /\ tried[c] # <<>> /\ r # None => tried'[c] # tried[c]
    BY <1>1, OnlyChoicesMove DEF Same
  <2>2. from[c] \in Client /\ (tried[c] # <<>>) \in BOOLEAN
    BY GatewayAssumption
  <2>3. CASE mode # "time"
    <3>1. \/ \A s \in cache' : ~Same(s, pinned)
          \/ pinned.id \in Range(tried[c]) /\ r # None
          \/ mode = "better_cost" /\ \A s \in cache' : Same(s, pinned) =>
                \/ pinned'.cost < s.cost
                \/ pinned'.cost = s.cost /\ tried[c] # <<>> /\ r # None
      BY <1>1, <2>1, <2>2, <2>3, MovesForCause
    <3>2. pinned.id \in Range(tried[c]) => tried[c] # <<>>
      BY DEF Range
    <3>3. QED
      BY <2>1, <3>1, <3>2
  <2>4. QED
    BY <2>3
<1>2. QED
  BY <1>1, ConnectionsAreKept, TriesAreSound, PTL DEF Spec, PinMovesForCause

=============================================================================
