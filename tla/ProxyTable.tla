------------------------------- MODULE ProxyTable -------------------------------
(***************************************************************************)
(* The records of the proxies table and those who change them: the result  *)
(* processor of a monitor (proxy_monitor/monitor/runner.py), the marks of  *)
(* a proxy server (proxy_server/server/proxy_store.py), the test, edit and *)
(* delete requests of the dashboard (dashboard/routes/proxies.py) and of   *)
(* the command line (secproxy_core/proxy_service.py).                      *)
(* Each of them reads a record, waits (for a probe, a geo lookup, another  *)
(* thread) and writes back: the ORM writes the columns that differ from    *)
(* what it read, whatever the record has become.                           *)
(***************************************************************************)
EXTENDS Integers, FiniteSets

CONSTANTS
    Id,         \* record numbers
    Key,        \* protocol, address and credentials: what the unique index covers
    Fallback,   \* the identity of an HTTPS proxy once it is taken for an HTTP one
    Writer,     \* requests and threads; each changes one record
    Kind,       \* what writers do in the instance
    Scopes,     \* what users of the dashboard may see: sets of identities
    None

ASSUME TableAssumption ==
    /\ Id \subseteq Nat /\ IsFiniteSet(Id) /\ IsFiniteSet(Writer)
    /\ Fallback \in [Key -> Key]
    /\ Kind \subseteq {"monitor", "mark", "test", "core_edit", "dashboard_edit"}
    /\ Scopes \subseteq SUBSET Key
    /\ None \notin Key

VARIABLES
    table,      \* the record of each number, or None
    op,         \* each writer
    torn,       \* observation: numbers written while another writer was at work on them
    renamed     \* observation: numbers the dashboard gave another identity

tableVars == <<table, op, torn, renamed>>

(* "verdict" stands for status, capabilities, exit address and what else a    *)
(* probe finds out: the identity that was probed for it, None if untested.    *)
(* "counted" are the identities whose checks the counters count, "measured"   *)
(* those whose speeds are in the speed history and so in cost, scores and     *)
(* previous cost (the place of a proxy comes with them); "moved" observes     *)
(* that update_proxy has given the record another identity.                   *)
Record == [key : Key, verdict : Key \cup {None}, alive : Nat, fail : Nat, total : Nat,
           counted : SUBSET Key, measured : SUBSET Key, moved : BOOLEAN]
Untested(k) == [key |-> k, verdict |-> None, alive |-> 0, fail |-> 0, total |-> 0,
                counted |-> {}, measured |-> {}, moved |-> FALSE]

NoOp == [at |-> "idle", kind |-> "mark", id |-> 0, probed |-> None, to |-> None, seen |-> None]

(* A writer that has done its work, or never comes. *)
Away == [NoOp EXCEPT !.at = "done"]

Present == {i \in Id : table[i] # None}
Keys == {table[i].key : i \in Present}
Open(o) == op[o].at \in {"begun", "read"}

(* Counters stop at the number of writers: each writes once. *)
Count == 0..Cardinality(Writer)

TableTypeOK ==
    /\ \A i \in Present : table[i] \in Record /\ {table[i].alive, table[i].fail, table[i].total} \subseteq Count
    /\ \A i, j \in Present : table[i].key = table[j].key => i = j
    /\ \A o \in Writer : op[o].at \in {"idle", "begun", "read", "done", "failed"}
    /\ torn \subseteq Id /\ renamed \subseteq Id

TableInit ==
    /\ \E k \in Key : table = [i \in Id |-> IF i = 1 THEN Untested(k) ELSE None]
    /\ op \in [Writer -> {NoOp, Away}]
    /\ torn = {} /\ renamed = {}

-----------------------------------------------------------------------------
(* A record number is one that no present record reaches: SQLite gives the   *)
(* number of a deleted last record again.                                    *)
NextIds == {i \in Id : \A j \in Present : j < i}

(* Numbers that are given while a writer is at work on a former record of it. *)
Overtaken(S) == {i \in S : \E o \in Writer : Open(o) /\ op[o].id = i}

(* The unique index refuses a second record of an identity, whether or not the *)
(* request looked for one.                                                     *)
Inserts(k) ==
    /\ k \notin Keys
    /\ \E i \in NextIds :
          /\ table' = [table EXCEPT ![i] = Untested(k)]
          /\ torn' = (torn \ {i}) \cup Overtaken({i})
          /\ renamed' = renamed \ {i}
    /\ op' = op

(* add_proxy of the command line, and insert_proxy of the old importer, look for *)
(* the identity first; the request of the dashboard leaves it to the index.      *)
CoreAdds(k) == k \notin Keys /\ Inserts(k)
RowImported(k) == k \notin Keys /\ Inserts(k)
DashboardAdds(k) == Inserts(k)

Removes(S) ==
    /\ S # {}
    /\ table' = [i \in Id |-> IF i \in S THEN None ELSE table[i]]
    /\ UNCHANGED <<op, torn, renamed>>

(* What a user of the dashboard may see: the records of some protocols. *)
Scoped(scope) == {i \in Present : table[i].key \in scope}

Tested(tested) == {i \in Present : (table[i].verdict # None) = tested}

(* One record by number, those of a list, those of a filter: the condition is *)
(* evaluated again when the records are deleted.                              *)
CoreDeletes(i) == Removes(Present \cap {i})
DashboardDeletes(i, scope) == Removes(Scoped(scope) \cap {i})
SelectionDeleted(S, scope) == Removes(Scoped(scope) \cap S)
BulkDeletes(tested, scope) == Removes(Scoped(scope) \cap Tested(tested))

(* The safety limit of a purge. *)
Purges(tested, limit) == Cardinality(Tested(tested)) <= limit /\ Removes(Tested(tested))

-----------------------------------------------------------------------------
(* A monitor takes a copy of a record and probes it; a server has a copy in its *)
(* candidate cache.  Both read the record again when they have something to say. *)
TakesCopy(o, kind, i) ==
    /\ op[o].at = "idle" /\ kind \in {"monitor", "mark"} \cap Kind /\ i \in Present
    /\ op' = [op EXCEPT ![o] = [NoOp EXCEPT !.at = "begun", !.kind = kind, !.id = i,
                                            !.probed = table[i].key]]
    /\ UNCHANGED <<table, torn, renamed>>

Reads(o) ==
    /\ op[o].at = "begun"
    /\ op' = [op EXCEPT ![o] = IF op[o].id \in Present
                               THEN [@ EXCEPT !.at = "read", !.seen = table[op[o].id]]
                               ELSE [NoOp EXCEPT !.at = "done"]]
    /\ UNCHANGED <<table, torn, renamed>>

(* A test of the dashboard reads the record and probes it; an edit reads it and *)
(* looks for another record of the new identity.                                *)
TakesRecord(o, kind, i, k) ==
    /\ op[o].at = "idle" /\ kind \in {"test", "core_edit", "dashboard_edit"} \cap Kind /\ i \in Present
    /\ kind = "test" => k = table[i].key
    /\ kind = "core_edit" => \A j \in Present \ {i} : table[j].key # k
    /\ op' = [op EXCEPT ![o] = [at |-> "read", kind |-> kind, id |-> i, probed |-> table[i].key,
                                to |-> k, seen |-> table[i]]]
    /\ UNCHANGED <<table, torn, renamed>>

(* What a writer makes of the record r it read. *)

(* The result of a monitor's probe; an HTTPS proxy may turn out an HTTP one. *)
Probed(r, k) ==
    {[r EXCEPT !.alive = @ + 1, !.total = r.alive + 1 + r.fail, !.verdict = k, !.key = new,
               !.counted = @ \cup {k}, !.measured = @ \cup {k}] : new \in {r.key, Fallback[r.key]}}
      \cup {[r EXCEPT !.fail = @ + 1, !.total = r.alive + r.fail + 1, !.verdict = k,
                      !.counted = @ \cup {k}]}

(* Seeded fault: a server does not count what it marks as a check. *)
MarkedOnly(r, k) == {[r EXCEPT !.alive = @ + 1], [r EXCEPT !.fail = @ + 1]}

(* mark_alive and mark_fail *)
Marked(r, k) ==
    {[r EXCEPT !.alive = @ + 1, !.total = @ + 1, !.counted = @ \cup {k}],
     [r EXCEPT !.fail = @ + 1, !.total = @ + 1, !.counted = @ \cup {k}]}

TestedNow(r, k) == {[r EXCEPT !.verdict = k]}

(* Seeded fault: an edit resets the verdict and forgets the counters. *)
CountersKept(r, k) == {IF k = r.key THEN r ELSE [r EXCEPT !.key = k, !.verdict = None, !.moved = TRUE]}

(* update_proxy: another identity has never been tested; the speed history,  *)
(* cost, scores and place of the old one stay.                               *)
CoreEdited(r, k) ==
    {IF k = r.key THEN r ELSE [Untested(k) EXCEPT !.measured = r.measured, !.moved = TRUE]}

(* The edit of the dashboard changes the identity and nothing else. *)
DashboardEdited(r, k) == {[r EXCEPT !.key = k]}

Results(o) ==
    CASE op[o].kind = "monitor" -> Probed(op[o].seen, op[o].probed)
      [] op[o].kind = "mark" -> Marked(op[o].seen, op[o].probed)
      [] op[o].kind = "test" -> TestedNow(op[o].seen, op[o].probed)
      [] op[o].kind = "core_edit" -> CoreEdited(op[o].seen, op[o].to)
      [] op[o].kind = "dashboard_edit" -> DashboardEdited(op[o].seen, op[o].to)

(* The columns that differ from what was read; a verdict always does. *)
Written(o, now, new) ==
    [f \in DOMAIN now |-> IF new[f] # op[o].seen[f] \/ (f = "verdict" /\ op[o].kind \in {"monitor", "test"})
                          THEN new[f] ELSE now[f]]

Ends(o, how) == op' = [op EXCEPT ![o] = [NoOp EXCEPT !.at = how]]

(* The commit.  It fails when the record is gone, or has become the second of *)
(* its identity: the result of a monitor is then lost and its run failed.     *)
Writes(o) ==
    /\ op[o].at = "read"
    /\ LET i == op[o].id IN
       \E new \in Results(o) :
          IF i \in Present /\ \A j \in Present \ {i} : table[j].key # Written(o, table[i], new).key
          THEN /\ table' = [table EXCEPT ![i] = Written(o, @, new)]
               /\ torn' = torn \cup {j \in {i} : \E p \in Writer \ {o} : Open(p) /\ op[p].id = i}
               /\ renamed' = IF \/ op[o].kind = "dashboard_edit" /\ op[o].to # op[o].seen.key
                                \/ op[o].kind = "monitor" /\ new.key # op[o].seen.key
                             THEN renamed \cup {i} ELSE renamed
               /\ Ends(o, "done")
          ELSE Ends(o, "failed") /\ UNCHANGED <<table, torn, renamed>>

(* A probe that raises, a request that is refused, a process that is killed. *)
GivesUp(o) ==
    /\ Open(o)
    /\ Ends(o, "failed")
    /\ UNCHANGED <<table, torn, renamed>>

TableNext ==
    \/ \E k \in Key : CoreAdds(k) \/ RowImported(k) \/ DashboardAdds(k)
    \/ \E i \in Id : CoreDeletes(i)
    \/ \E scope \in Scopes :
          \/ \E i \in Id : DashboardDeletes(i, scope)
          \/ \E S \in {{i, j} : i, j \in Id} : SelectionDeleted(S, scope)
          \/ \E tested \in BOOLEAN : BulkDeletes(tested, scope)
    \/ \E tested \in BOOLEAN : Purges(tested, 1)
    \/ \E o \in Writer :
          \/ \E kind \in Kind, i \in Id : TakesCopy(o, kind, i) \/ \E k \in Key : TakesRecord(o, kind, i, k)
          \/ Reads(o) \/ Writes(o) \/ GivesUp(o)

TableSpec == TableInit /\ [][TableNext]_tableVars

-----------------------------------------------------------------------------
(* What a record says was found out about the identity it has: its verdict, *)
(* the checks it counts and, unless update_proxy moved it, its measurements. *)
SpeaksOfItself(r) ==
    /\ r.verdict \in {None, r.key}
    /\ r.counted \subseteq {r.key}
    /\ r.measured \subseteq {r.key} \/ r.moved

(* A record speaks of its own identity, whoever tested, marked, edited or    *)
(* replaced it and in what order; unless a request of the dashboard or a     *)
(* fallback changed the identity, or two writers were at work on the record  *)
(* at once.                                                                  *)
VerdictIsOwn == \A i \in Present \ (torn \cup renamed) : SpeaksOfItself(table[i])

(* The checks of a record are its successes and failures, unless two writers *)
(* were at work on it at once: servers and monitors count in different ways. *)
ChecksAddUp == \A i \in Present \ torn : table[i].total = table[i].alive + table[i].fail
=============================================================================
