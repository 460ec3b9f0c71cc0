-------------------------------- MODULE MCGateway --------------------------------
(* Choices: three records, two connections.  Listener: one record, three connections. *)
EXTENDS Gateway, TLC

CONSTANTS a, b, d, c1, c2

MCRow == {[id |-> a, place |-> "http", cost |-> 2], [id |-> a, place |-> "socks", cost |-> 2],
          [id |-> b, place |-> "socks", cost |-> 1], [id |-> d, place |-> "socks", cost |-> 1]}
MCOneRow == {[id |-> a, place |-> "http", cost |-> 1]}
MCFrom == [c \in Conn |-> IF c = c2 THEN "far" ELSE "near"]
MCScore(c, i, place) == IF (c = "near") = (i = a) THEN 2 ELSE 1

(* The bound of the instance with two connections: c1 has asked, and for a      *)
(* tunnel, before c2 comes; from there on they run in any order.               *)
Early == {"new", "queued", "handshake", "reading"}
FirstTunnels == ask[c1] # "plain" /\ (at[c1] \in Early => at[c2] = "new")

(* Three records at once only where two as cheap as each other matter. *)
ThirdRecord == (\E r \in rows : r.id = d) => mode = "better_cost" /\ dbUp /\ Cardinality(rows) = 3

(* Only a choice reads the store: what comes after the answer is over at once, *)
(* and the world changes while somebody is about to choose.                    *)
Late == {c \in Conn : at[c] \in {"forwarding", "closing"}}
EndsAtOnce == Late # {} => \E c \in Late : at'[c] # at[c]
ChangesMatter == UNCHANGED connVars => \E c \in Conn : at[c] = "select"
=================================================================================
