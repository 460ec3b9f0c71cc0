--------------------------- MODULE MonitorOwnership ---------------------------
(***************************************************************************)
(* What the claim file of a monitor promises, with no file in it: the      *)
(* processes launched for one monitor id run one at a time, and a process  *)
(* that has stopped running never runs again.                              *)
(***************************************************************************)
CONSTANT Process

VARIABLES
    running,    \* the processes that run the monitor now
    past        \* the processes that ran it and stopped

Init == running = {} /\ past = {}

Begin(p) ==
    /\ running = {}
    /\ p \notin past
    /\ running' = {p}
    /\ past' = past

End(p) ==
    /\ p \in running
    /\ running' = running \ {p}
    /\ past' = past \cup {p}

Next == \E p \in Process : Begin(p) \/ End(p)

Spec == Init /\ [][Next]_<<running, past>>
=============================================================================
