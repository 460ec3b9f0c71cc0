------------------------------ MODULE MCInventory ------------------------------
(* Imports and the writers of the proxies table, on a small table. *)
EXTENDS Imports, TLC

CONSTANTS k1, k2

(* An HTTPS proxy k1 that also answers as the HTTP proxy k2. *)
MCFallback == [k \in Key |-> k2]

(* The bound of the instance: either the writers come or the imports. *)
WritersOnly == job = [m \in Importer |-> Gone] /\ Saved = {}
ImportsOnly == op = [o \in Writer |-> Away] /\ Saved # {}

(* Requests do what they do whoever makes them. *)
Symmetry == {f @@ g : f \in Permutations(Writer), g \in Permutations(Importer)}

MCInit == Init /\ (WritersOnly \/ ImportsOnly)

MCSpec == MCInit /\ [][ImportNext]_vars
=============================================================================
