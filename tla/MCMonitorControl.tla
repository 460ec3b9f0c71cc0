--------------------------- MODULE MCMonitorControl ---------------------------
(* Two starts, two stop or pause requests or a delete, a poll and a process *)
(* started by hand, three of them in a behaviour.                           *)
EXTENDS MonitorControl, Naturals, TLC

CONSTANTS s1, s2, m, n1, n2, r1, r2, d1, q1

Symmetry == Permutations(Pid) \cup Permutations(Start) \cup Permutations(Stopper)

(* Any three of those that act, two at most of which launch or poll: what these *)
(* do to each other is MonitorClaim's (MCMonitorClaim).                         *)
FewActors ==
    LET launches == {s \in Start : prep[s] # "new" \/ pc[s] # "idle"}
                    \cup {p \in Manual : proc[p] # "none"}
        polls == {q \in Poller : poll[q].at # "new"}
        asks == {r \in Request : ask[r].at # "new"}
    IN  /\ Cardinality(launches) + Cardinality(polls) <= 2
        /\ Cardinality(launches) + Cardinality(polls) + Cardinality(asks) <= 3
=============================================================================
