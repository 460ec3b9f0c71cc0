----------------------------- MODULE MCServerClaim -----------------------------
(* Two starts or a start and a process launched by hand, with a stop. *)
EXTENDS ServerClaim

CONSTANTS s1, s2, m, r1, n1, n2

(* The starts are alike: s1 is the first of them; and so are the numbers: the *)
(* first process gets n1.                                                      *)
MCNext ==
    /\ Next
    /\ at'[s2] # "idle" => at[s1] # "idle" /\ proc'[m] = "none"
    /\ (\A p \in Process : proc[p] = "none") => \A p \in Process : pid'[p] # n2

MCSpec == Init /\ [][MCNext]_vars /\ Fairness
=============================================================================
