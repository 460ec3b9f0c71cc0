----------------------------- MODULE MCMonitorRun -----------------------------
(* Small instances of MonitorRun.  Two threads and three proxies are enough  *)
(* for a result to be queued behind another, for a pause to fall between the *)
(* transactions of one of them, and for a row to be added or deleted.        *)
EXTENDS MonitorRun, TLC

CONSTANTS p1, p2, p3, w1, w2

(* Only a selection reads what the filters let through, so that a row need not *)
(* come or change its status earlier than just before one.                     *)
ChangesMatter ==
    \A p \in Proxy :
        row'[p] = "present" /\ (row[p] = "absent" \/ (p \in matched) # (p \in matched'))
        => main = "select"

Symmetry == Permutations(Worker)
=============================================================================
