---------------------------- MODULE MCAdministration ----------------------------
(* Three parts of the administration, one at a time: the users, the database *)
(* file, the server profiles.                                                *)
EXTENDS Access, Restore, Registry, TLC

CONSTANT s1

VARIABLE scene      \* which of them moves in this behaviour

MCInit ==
    /\ scene \in {"users", "database", "profiles"}
    /\ AccessInit /\ RestoreInit /\ RegistryInit
    /\ scene # "users" => ask = [a \in Actor |-> Silent] /\ users[1].secret = s1
    /\ scene # "profiles" => said = {}

MCNext ==
    \/ scene = "users" /\ AccessNext /\ UNCHANGED <<restoreVars, registryVars>> /\ scene' = scene
    \/ scene = "database" /\ RestoreNext /\ UNCHANGED <<accessVars, registryVars>> /\ scene' = scene
    \/ scene = "profiles" /\ RegistryNext /\ UNCHANGED <<accessVars, restoreVars>> /\ scene' = scene

MCSpec == MCInit /\ [][MCNext]_<<accessVars, restoreVars, registryVars, scene>>

(* The bound: where two saved over each other, or two processes run because one *)
(* overtook a look, nothing more is said.                                       *)
Telling == ~mixed /\ crossed # Port /\ \A m \in gap : owners[m] < 2

Symmetry == Permutations(Actor) \cup Permutations(Door) \cup Permutations(Caller)
=============================================================================
