-------------------------------- MODULE Imports --------------------------------
(***************************************************************************)
(* Imports into the proxies table and the saved import sources             *)
(* (dashboard/imports.py, dashboard/routes/import_export.py,               *)
(* secproxy_cli/services/source_service.py).  An import fetches addresses, *)
(* looks which of them the table has, and adds the others in one           *)
(* transaction; the run of a saved source is recorded with its outcome,    *)
(* and the source shows the outcome of its last run.                       *)
(***************************************************************************)
EXTENDS ProxyTable, Sequences

CONSTANTS
    Source,     \* numbers of saved sources
    Name,       \* what sources are called
    Importer    \* requests to import, to save or to delete

ASSUME ImportAssumption ==
    /\ Source \subseteq Nat \ {0} /\ IsFiniteSet(Source)
    /\ IsFiniteSet(Name) /\ Name # {} /\ IsFiniteSet(Importer) /\ IsFiniteSet(Key)

VARIABLES
    sources,    \* the record of each saved source, or None
    job,        \* each request
    history,    \* the recorded runs
    gave,       \* observation: the keys each request has added
    mixed,      \* observation: sources written while another request held them
    since,      \* observation: the runs recorded before each source was saved
    alike       \* observation: names saved while another request was saving

importVars == <<sources, job, history, gave, mixed, since, alike>>

Manual == 0
Shown == [status : {"none", "completed", "partial", "failed"}, added : Nat]
Never == [status |-> "none", added |-> 0]

NoJob == [at |-> "idle", source |-> Manual, shown |-> Never,
          keys |-> {}, known |-> {}, fetched |-> "none", name |-> None]

(* A request that is over, or never comes. *)
Gone == [NoJob EXCEPT !.at = "done"]

Saved == {s \in Source : sources[s] # None}
Runs(m, s) == job[m].at \in {"read", "looked", "refused"} /\ job[m].source = s

ImportTypeOK ==
    /\ \A s \in Saved : /\ DOMAIN sources[s] = {"name", "active", "shown"}
                        /\ sources[s].name \in Name /\ sources[s].shown \in Shown
    /\ \A m \in Importer : /\ job[m].at \in {"idle", "read", "looked", "refused", "checked", "done"}
                           /\ job[m].source \in Source \cup {Manual} /\ job[m].known \subseteq job[m].keys
                           /\ gave[m] \subseteq Key
    /\ mixed \subseteq Source /\ alike \subseteq Name
    /\ \A i \in 1..Len(history) : history[i].by \in Importer

ImportInit ==
    /\ \E n \in Name \cup {None} :
          sources = [s \in Source |-> IF s = 1 /\ n # None THEN [name |-> n, active |-> TRUE, shown |-> Never]
                                                          ELSE None]
    /\ job \in [Importer -> {NoJob, Gone}]
    /\ history = <<>> /\ gave = [m \in Importer |-> {}] /\ mixed = {}
    /\ since = [s \in Source |-> 0] /\ alike = {}

-----------------------------------------------------------------------------
(* The request of an import: of pasted text or of a saved source in use. *)
Begins(m, s) ==
    /\ job[m].at = "idle"
    /\ s = Manual \/ (s \in Saved /\ sources[s].active)
    /\ job' = [job EXCEPT ![m] = [NoJob EXCEPT !.at = "read", !.source = s,
                                     !.shown = IF s = Manual THEN Never ELSE sources[s].shown]]
    /\ UNCHANGED <<sources, history, gave, mixed, since, alike>>

(* A request to run a source comes from the dashboard or the command line, as *)
(* does one to import what is pasted or fetched once.                         *)
DashboardRuns(m, s) == s # Manual /\ Begins(m, s)
CoreRuns(m, s) == s # Manual /\ Begins(m, s)
DashboardImports(m) == Begins(m, Manual)
CoreImports(m) == Begins(m, Manual)

(* What is left of a request once its changes are undone: the outcome of a    *)
(* source's run is recorded next, unless the source is gone; nothing is kept  *)
(* of another import.                                                         *)
Undone(j) ==
    IF j.source \in Saved THEN [j EXCEPT !.at = "refused", !.shown = sources[j.source].shown]
                          ELSE Gone

(* What a fetch comes to: all of the source's addresses, those of some of its *)
(* URLs, or none.                                                             *)
Fetched == [keys : SUBSET Key, how : {"completed", "partial"}] \cup {[keys |-> {}, how |-> "failed"]}

(* collect_import and _existing_proxy_keys: the fetch succeeds, in part or not *)
(* at all, and the table is looked at afterwards.  A preview ends here.        *)
Looks(m, fetched) ==
    /\ job[m].at = "read"
    /\ job' = [job EXCEPT ![m] = IF fetched.how = "failed" THEN Undone(@)
                                 ELSE [@ EXCEPT !.at = "looked", !.fetched = fetched.how, !.keys = fetched.keys,
                                               !.known = fetched.keys \cap Keys]]
    /\ UNCHANGED <<sources, history, gave, mixed, since, alike>>

(* New records take the numbers that follow those in use. *)
Numbers(n) == LET S == {i \in Id : \A j \in Present : j < i} IN
              {i \in S : Cardinality({j \in S : j < i}) < n}

Placed(K) == {f \in [Numbers(Cardinality(K)) -> K] : \A k \in K : \E i \in DOMAIN f : f[i] = k}

New(j) == j.keys \ j.known

(* The columns of a source that the outcome of a run changes: those that differ *)
(* from what the request read.                                                  *)
WrittenShown(j, now, new) ==
    [f \in DOMAIN now |-> IF new[f] # j.shown[f] THEN new[f] ELSE now[f]]

Outcome(j) == [status |-> j.fetched, added |-> Cardinality(New(j))]

(* Seeded fault: the source goes on showing its last success. *)
ShowsSuccess(m, s, outcome) ==
    /\ sources' = IF outcome.status = "failed" THEN sources ELSE [sources EXCEPT ![s].shown = outcome]
    /\ mixed' = mixed \cup {t \in {s} : \E o \in Importer \ {m} : Runs(o, t)}

ShowsOutcome(m, s, outcome) ==
    /\ sources' = [sources EXCEPT ![s].shown = WrittenShown(job[m], @, outcome)]
    /\ mixed' = mixed \cup {t \in {s} : \E o \in Importer \ {m} : Runs(o, t)}

Recorded(m, s, outcome) ==
    [by |-> m, source |-> s, status |-> outcome.status, added |-> outcome.added]

(* One transaction: the new records, the run and the outcome.  A record that *)
(* came since the look, or a source that is gone, undoes all of it.          *)
Commits(m) ==
    /\ job[m].at = "looked"
    /\ LET j == job[m]
           K == New(j)
       IN IF K \cap Keys # {} \/ j.source \notin Saved \cup {Manual}
          THEN /\ job' = [job EXCEPT ![m] = Undone(@)]
               /\ UNCHANGED <<tableVars, sources, history, gave, mixed, since, alike>>
          ELSE \E f \in Placed(K) :
               /\ table' = [i \in Id |-> IF i \in DOMAIN f THEN Untested(f[i]) ELSE table[i]]
               /\ torn' = (torn \ DOMAIN f) \cup Overtaken(DOMAIN f)
               /\ renamed' = renamed \ DOMAIN f
               /\ op' = op
               /\ gave' = [gave EXCEPT ![m] = K]
               /\ history' = Append(history, Recorded(m, j.source, Outcome(j)))
               /\ IF j.source = Manual THEN UNCHANGED <<sources, mixed>>
                                       ELSE ShowsOutcome(m, j.source, Outcome(j))
               /\ job' = [job EXCEPT ![m] = Gone]
               /\ UNCHANGED <<since, alike>>

(* _failed_run and _record_failed_run; a source deleted meanwhile has none. *)
RecordsFailure(m) ==
    /\ job[m].at = "refused"
    /\ LET j == job[m]
           outcome == [status |-> "failed", added |-> 0]
       IN IF j.source \in Saved
          THEN /\ history' = Append(history, Recorded(m, j.source, outcome))
               /\ ShowsOutcome(m, j.source, outcome)
          ELSE UNCHANGED <<history, sources, mixed>>
    /\ job' = [job EXCEPT ![m] = Gone]
    /\ UNCHANGED <<gave, since, alike>>

-----------------------------------------------------------------------------
(* The requests on saved sources.  A name is looked for before it is given;   *)
(* the table of sources has no unique index on it.                            *)
NamesBut(s) == {sources[t].name : t \in Saved \ {s}}

ChecksName(m, s, n) ==
    /\ job[m].at = "idle" /\ s \in Saved \cup {Manual}
    /\ n \notin NamesBut(s)
    /\ job' = [job EXCEPT ![m] = [NoJob EXCEPT !.at = "checked", !.source = s, !.name = n]]
    /\ UNCHANGED <<sources, history, gave, mixed, since, alike>>

NextSource == {s \in Source : \A t \in Saved : t < s}

Saves(m) ==
    /\ job[m].at = "checked"
    /\ LET j == job[m] IN
       \/ /\ j.source \in Saved
          /\ \E active \in BOOLEAN :
                sources' = [sources EXCEPT ![j.source].name = j.name, ![j.source].active = active]
          /\ UNCHANGED <<mixed, since>>
       \/ /\ j.source = Manual
          /\ \E s \in NextSource :
                /\ \A t \in NextSource : s <= t
                /\ sources' = [sources EXCEPT ![s] = [name |-> j.name, active |-> TRUE, shown |-> Never]]
                /\ since' = [since EXCEPT ![s] = Len(history)]
                /\ mixed' = (mixed \ {s}) \cup {t \in {s} : \E o \in Importer \ {m} : Runs(o, t)}
       \/ /\ j.source \notin Saved
          /\ j.source = Manual => NextSource = {}
          /\ UNCHANGED <<sources, mixed, since>>
    /\ alike' = alike \cup {n \in {job[m].name} : \E o \in Importer \ {m} : job[o].at = "checked" /\ job[o].name = n}
    /\ job' = [job EXCEPT ![m] = Gone]
    /\ UNCHANGED <<history, gave>>

(* The command line only turns a source on or off. *)
SetsActive(s, active) ==
    /\ s \in Saved
    /\ sources' = [sources EXCEPT ![s].active = active]
    /\ UNCHANGED <<job, history, gave, mixed, since, alike>>

(* The runs of a source stay when it is deleted, under a number that may be *)
(* given again.                                                             *)
DeletesSource(s) ==
    /\ s \in Saved
    /\ sources' = [sources EXCEPT ![s] = None]
    /\ UNCHANGED <<job, history, gave, mixed, since, alike>>

DashboardAddsSource(m, n) == ChecksName(m, Manual, n)
CoreAddsSource(m, n) == ChecksName(m, Manual, n)
EditsSource(m, s, n) == s # Manual /\ ChecksName(m, s, n)

ImportNext ==
    \/ \E m \in Importer :
          \/ Commits(m)
          \/ /\ UNCHANGED tableVars
             /\ \/ \E s \in Source : DashboardRuns(m, s) \/ CoreRuns(m, s)
                \/ DashboardImports(m) \/ CoreImports(m)
                \/ \E fetched \in Fetched : Looks(m, fetched)
                \/ RecordsFailure(m)
                \/ \E n \in Name : DashboardAddsSource(m, n) \/ CoreAddsSource(m, n)
                \/ \E s \in Source, n \in Name : EditsSource(m, s, n)
                \/ Saves(m)
    \/ /\ UNCHANGED tableVars
       /\ \E s \in Source : DeletesSource(s) \/ \E active \in BOOLEAN : SetsActive(s, active)
    \/ TableNext /\ UNCHANGED importVars

Init == TableInit /\ ImportInit
vars == <<tableVars, importVars>>
Spec == Init /\ [][ImportNext]_vars

-----------------------------------------------------------------------------
TypeOK == TableTypeOK /\ ImportTypeOK

(* The history tells what imports did: a run that failed added nothing, any *)
(* other added what it says, and what a saved source gave is on record.     *)
RunsTellTruth ==
    /\ \A i \in 1..Len(history) :
          history[i].added = IF history[i].status = "failed" THEN 0 ELSE Cardinality(gave[history[i].by])
    /\ \A i \in 1..Len(history) : history[i].status = "failed" => gave[history[i].by] = {}
    /\ \A m \in Importer : gave[m] # {} => \E i \in 1..Len(history) : history[i].by = m

(* A source shows the outcome of its last run, unless two of its runs were *)
(* under way at once: then one may leave a column as the other wrote it.   *)
ShowsLastRun ==
    \A s \in Saved \ mixed :
        LET own == {i \in since[s] + 1..Len(history) : history[i].source = s} IN
        sources[s].shown = IF own = {} THEN Never
                           ELSE LET r == history[CHOOSE i \in own : \A j \in own : j <= i]
                                IN [status |-> r.status, added |-> r.added]

(* Two sources have the same name only when both were saved at once. *)
NamesDiffer ==
    \A s, t \in Saved : sources[s].name = sources[t].name => s = t \/ sources[s].name \in alike

(* What is on record about imports and sources is what happened. *)
ImportsTellTruth == TypeOK /\ RunsTellTruth /\ ShowsLastRun /\ NamesDiffer
=============================================================================
