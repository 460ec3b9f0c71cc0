-------------------------------- MODULE Restore --------------------------------
(***************************************************************************)
(* The database file while it is backed up, replaced and filled            *)
(* (backup_utils.py, scripts/sqlite_backup.py, migrate.py, the backup,     *)
(* import and cleanup routes of dashboard/routes/settings.py, and          *)
(* secproxy_cli/services/backup_service.py and cleanup_service.py), and    *)
(* the monitors that run meanwhile.  A file is replaced by renaming        *)
(* another over its path: who has it open keeps the old one.  The rollback *)
(* journal of a transaction is a file of its own, and belongs to the path. *)
(***************************************************************************)
EXTENDS Integers, FiniteSets

CONSTANTS
    Fact,       \* what a process stores, all of a transaction
    Monitor,    \* monitors, or servers: processes with a claim in .runtime
    Dashboard,  \* the dashboard, which has none
    Door,       \* requests to back up, restore, migrate or clean
    MaxFile,    \* bound: files ever made
    Nothing

ASSUME RestoreAssumption ==
    /\ Dashboard \notin Monitor /\ Nothing \notin Fact
    /\ IsFiniteSet(Fact) /\ IsFiniteSet(Monitor) /\ IsFiniteSet(Door) /\ MaxFile \in Nat \ {0}

VARIABLES
    files,      \* each file ever made: [facts, form]
    made,       \* how many
    path,       \* the file at SQLITE_DB_PATH
    temp,       \* the file at <path>.restore.tmp, or 0
    saved,      \* the backups that are kept
    journal,    \* the file whose transaction wrote <path>-journal, or 0
    open,       \* the file each process has open, or 0
    txn,        \* the fact each process has begun to store, or Nothing
    owners,     \* how many processes run each monitor
    claimed,    \* the monitors with a claim in .runtime
    door,       \* each request
    acked,      \* observation: facts whose commit was reported
    spent,      \* observation: facts nobody promised to keep
    gap,        \* observation: monitors started after a request had looked for
                \* them, or overlooked because its look failed
    shared,     \* observation: "copy": two restores wrote <path>.restore.tmp at once;
                \* "undo": a restore backed up what another was to take back;
                \* "journal": the journal of one file was used for another
    restored    \* observation: a restore ended with another file in place

diskVars == <<files, made, path, temp, saved, journal>>
procVars == <<open, txn, owners, claimed>>
seenVars == <<acked, spent, gap, shared, restored>>
restoreVars == <<diskVars, procVars, door, seenVars>>

Proc == Monitor \cup {Dashboard}
Content == [facts : SUBSET Fact, form : {"ours", "other", "torn"}]  \* "other": sqlite, without our tables
Empty(form) == [facts |-> {}, form |-> form]

(* What may be handed to a restore beside a kept backup. *)
Foreign == {Empty("ours"), Empty("other"), Empty("torn")}

NotCome == [at |-> "idle", kind |-> "none", pick |-> Empty("torn"), mine |-> 0, before |-> {}, list |-> {}]
Over == [NotCome EXCEPT !.at = "ended"]    \* the bound: each Door comes once

Kinds == {"cli", "dashboard", "script", "migrate", "sweep", "tidy"}

RestoreTypeOK ==
    /\ \A n \in 1..made : files[n] \in Content
    /\ made \in 1..MaxFile /\ path \in 1..made /\ temp \in 0..made /\ saved \subseteq Content
    /\ journal \in 0..made
    /\ \A p \in Proc : open[p] \in 0..made /\ txn[p] \in Fact \cup {Nothing}
    /\ \A m \in Monitor : owners[m] \in 0..2
    /\ claimed \subseteq Monitor /\ gap \subseteq Monitor
    /\ {acked, spent} \subseteq SUBSET Fact /\ shared \subseteq {"copy", "undo", "journal"} /\ restored \in BOOLEAN
    /\ \A d \in Door : door[d].mine \in 0..made /\ door[d].before \subseteq Fact

RestoreInit ==
    /\ files = [n \in 1..MaxFile |-> Empty("ours")] /\ made = 1 /\ path = 1 /\ temp = 0
    /\ saved = {} /\ journal = 0 /\ open = [p \in Proc |-> 0] /\ txn = [p \in Proc |-> Nothing]
    /\ owners = [m \in Monitor |-> 0] /\ claimed = {}
    /\ door = [d \in Door |-> NotCome]
    /\ acked = {} /\ spent = {} /\ gap = {} /\ shared = {} /\ restored = FALSE

-----------------------------------------------------------------------------
(* Processes.  SQLite refuses to begin writing a file that is no longer at  *)
(* its path, and commits what was begun before, into the file that is open. *)
Running == {m \in Monitor : owners[m] > 0}

(* A restore took its backup and has not reported yet. *)
Between == \E d \in Door : door[d].at \in {"saved", "copying", "staged", "replaced", "failing"}

(* One transaction at a time writes the file at the path; a journal without   *)
(* one is hot: whoever reads the database next plays it back first, without a *)
(* look at which file it was written for.                                     *)
Locked == \E p \in Proc : txn[p] # Nothing /\ open[p] = path
Hot == journal # 0 /\ ~Locked
Readable == ~Hot
Writable == ~Hot /\ ~Locked

PlaysJournal ==
    /\ Hot
    /\ journal' = 0
    /\ IF journal = path THEN UNCHANGED <<files, shared>>
       ELSE /\ files' \in {files, [files EXCEPT ![path] = Empty("torn")]}
            /\ shared' = shared \cup {"journal"}
    /\ UNCHANGED <<made, path, temp, saved, procVars, door, acked, spent, gap, restored>>

Connects(p) ==
    /\ p \in Running \cup {Dashboard} /\ txn[p] = Nothing /\ open[p] # path
    /\ open' = [open EXCEPT ![p] = path]
    /\ UNCHANGED <<diskVars, txn, owners, claimed, door, seenVars>>

Begins(p, f) ==
    /\ txn[p] = Nothing /\ open[p] = path /\ files[path].form = "ours" /\ f \notin acked
    /\ Writable
    /\ txn' = [txn EXCEPT ![p] = f]
    /\ journal' = path
    /\ UNCHANGED <<files, made, path, temp, saved, open, owners, claimed, door, seenVars>>

(* It deletes the journal by name, be it its own or not. *)
Commits(p) ==
    /\ txn[p] # Nothing
    /\ files' = [files EXCEPT ![open[p]].facts = @ \cup {txn[p]}]
    /\ txn' = [txn EXCEPT ![p] = Nothing] /\ journal' = 0
    /\ acked' = acked \cup {txn[p]}
    /\ spent' = IF Between \/ open[p] # path THEN spent \cup {txn[p]} ELSE spent
    /\ UNCHANGED <<made, path, temp, saved, open, owners, claimed, door, gap, shared, restored>>

(* A monitor starts under a claim of its own, or one whose owner is gone. *)
LookedFor == {"cli", "sweep", "tidy"}
Starts(m) ==
    /\ owners[m] < 2 /\ (m \notin claimed \/ owners[m] = 0)
    /\ owners' = [owners EXCEPT ![m] = @ + 1] /\ claimed' = claimed \cup {m}
    /\ gap' = IF \E d \in Door : door[d].kind \in LookedFor THEN gap \cup {m} ELSE gap
    /\ UNCHANGED <<diskVars, open, txn, door, acked, spent, shared, restored>>

(* It leaves in order, taking back what it has begun, or is killed: then its  *)
(* claim stays, and its journal too; without the journal, which another may   *)
(* have deleted, a half-written file stays as it is.                          *)
Leaves(m, inOrder) ==
    /\ owners[m] > 0
    /\ owners' = [owners EXCEPT ![m] = @ - 1]
    /\ claimed' = IF inOrder THEN claimed \ {m} ELSE claimed
    /\ IF owners[m] = 1
       THEN open' = [open EXCEPT ![m] = 0] /\ txn' = [txn EXCEPT ![m] = Nothing]
       ELSE UNCHANGED <<open, txn>>
    /\ IF owners[m] > 1 \/ txn[m] = Nothing THEN UNCHANGED <<files, journal, shared>>
       ELSE IF inOrder THEN journal' = 0 /\ UNCHANGED <<files, shared>>
       ELSE IF journal = open[m] THEN UNCHANGED <<files, journal, shared>>
       ELSE /\ files' \in {files, [files EXCEPT ![open[m]] = Empty("torn")]}
            /\ shared' = shared \cup {"journal"} /\ journal' = journal
    /\ UNCHANGED <<made, path, temp, saved, door, acked, spent, gap, restored>>

-----------------------------------------------------------------------------
NewFile(content) ==
    /\ made < MaxFile /\ made' = made + 1
    /\ files' = [files EXCEPT ![made + 1] = content]

(* Seeded fault: nobody asks who runs. *)
AsksNobody == gap' = gap

(* _active_runtime and _inspect_runtime_processes list who has a process.  A    *)
(* look that fails passes for one that found nobody: the command line drops any *)
(* error, the dashboard takes a state file it cannot read for an empty one.     *)
FindsNobody ==
    \/ Running = {} /\ gap' = gap
    \/ gap' = gap \cup Running

At(d, at) == door' = [door EXCEPT ![d].at = at]

(* verify_path wants a sound SQLite file, validate_sqlite_database the proxies *)
(* table in it too.                                                            *)
Accepts(kind, pick) == IF kind = "cli" THEN pick.form # "torn" ELSE pick.form = "ours"

(* The command line refuses to restore while it finds a monitor or a server; *)
(* the others ask nobody.                                                     *)
LooksToRestore(d, kind, pick) ==
    /\ door[d].at = "idle" /\ Accepts(kind, pick)
    /\ IF kind = "cli" THEN FindsNobody ELSE gap' = gap
    /\ door' = [door EXCEPT ![d] = [NotCome EXCEPT !.at = "looked", !.kind = kind, !.pick = pick]]
    /\ UNCHANGED <<diskVars, procVars, acked, spent, shared, restored>>

(* secproxy backup restore, the import route and scripts/sqlite_backup.py. *)
CommandLooks(d, pick) == LooksToRestore(d, "cli", pick)
ImportLooks(d, pick) == LooksToRestore(d, "dashboard", pick)
ScriptLooks(d, pick) == LooksToRestore(d, "script", pick)

(* Seeded fault: a restore without a backup. *)
SavesNothing == saved

(* What the backup of a restore adds: what is committed in the file at the path. *)
Backup == saved \cup {files[path]}

(* The file a restore of the dashboard has put in place may yet be taken back. *)
InPlace == {d \in Door : door[d].at \in {"replaced", "failing"}}

(* create_sqlite_backup wants a sound copy of our tables; create_backup does *)
(* not look at the verdict of its own verification.  Neither plays a journal *)
(* on the way: the one has to first, the other cannot and fails.             *)
SavesFirst(d) ==
    /\ Readable /\ door[d].at = "looked" /\ door[d].kind \in {"cli", "dashboard", "script"}
    /\ door[d].kind # "cli" => files[path].form = "ours"
    /\ saved' = Backup
    /\ door' = [door EXCEPT ![d].at = "saved", ![d].before = files[path].facts]
    /\ shared' = IF InPlace # {} THEN shared \cup {"undo"} ELSE shared
    /\ UNCHANGED <<files, made, path, temp, journal, procVars, acked, spent, gap, restored>>

(* Backups alone: api_settings_backup, command_backup, secproxy backup create. *)
BacksUp ==
    /\ Readable /\ files[path].form = "ours"
    /\ saved' = saved \cup {files[path]}
    /\ UNCHANGED <<files, made, path, temp, journal, procVars, door, seenVars>>

(* A step fails, or the process dies: a half-made backup of the command line *)
(* stays among the others; its <path>.restore.tmp stays too.  After the file *)
(* was replaced nothing puts it back but the rollback.                       *)
GivesUp(d) ==
    /\ door[d].at \in {"looked", "saved", "copying", "staged", "replaced", "failing"}
    /\ restored' = (restored \/ door[d].at \in {"replaced", "failing"})
    /\ saved' = IF door[d].at = "looked" /\ door[d].kind = "cli" THEN saved \cup {Empty("torn")} ELSE saved
    /\ door' = [door EXCEPT ![d] = Over]
    /\ UNCHANGED <<files, made, path, temp, journal, procVars, acked, spent, gap, shared>>

(* The user deletes a backup. *)
DeletesBackup(b) ==
    /\ saved' = saved \ {b} /\ spent' = spent \cup b.facts
    /\ UNCHANGED <<files, made, path, temp, journal, procVars, door, acked, gap, shared, restored>>

Available(pick) == pick \in saved \cup Foreign

-----------------------------------------------------------------------------
(* The command line copies to a name all its restores share, then renames. *)
CopyBegins(d) ==
    /\ door[d].at = "saved" /\ door[d].kind = "cli" /\ Available(door[d].pick)
    /\ IF temp = 0
       THEN NewFile(Empty("torn")) /\ temp' = made + 1
       ELSE files' = [files EXCEPT ![temp] = Empty("torn")] /\ UNCHANGED <<made, temp>>
    /\ door' = [door EXCEPT ![d].at = "copying", ![d].mine = temp']
    /\ shared' = IF \E e \in Door \ {d} : temp # 0 /\ door[e].mine = temp THEN shared \cup {"copy"} ELSE shared
    /\ UNCHANGED <<path, saved, journal, procVars, acked, spent, gap, restored>>

CopyEnds(d) ==
    /\ door[d].at = "copying"
    /\ files' = [files EXCEPT ![door[d].mine] = door[d].pick]
    /\ At(d, "staged")
    /\ UNCHANGED <<made, path, temp, saved, journal, procVars, seenVars>>

(* The other way: a private file of its own, checked again. *)
Stages(d) ==
    /\ door[d].at = "saved" /\ door[d].kind \in {"dashboard", "script"} /\ Available(door[d].pick)
    /\ NewFile(door[d].pick)
    /\ door' = [door EXCEPT ![d].at = "staged", ![d].mine = made + 1]
    /\ UNCHANGED <<path, temp, saved, journal, procVars, seenVars>>

(* db.engine.dispose() of the dashboard: connections in use stay open, and *)
(* new ones may come before the file is replaced.                          *)
Disposes(d) ==
    /\ door[d].at = "staged" /\ door[d].kind = "dashboard"
    /\ txn[Dashboard] = Nothing /\ open[Dashboard] # 0
    /\ open' = [open EXCEPT ![Dashboard] = 0]
    /\ UNCHANGED <<diskVars, txn, owners, claimed, door, seenVars>>

(* os.replace of <path>.restore.tmp: with the file gone, the restore fails.  *)
(* Of what belongs to the path -wal and -shm are removed, a journal is not.  *)
RenamesShared(d) ==
    /\ door[d].at = "staged" /\ door[d].kind = "cli"
    /\ IF temp = 0
       THEN UNCHANGED <<path, temp, restored>>
       ELSE path' = temp /\ temp' = 0 /\ restored' = TRUE
    /\ door' = [door EXCEPT ![d] = Over]
    /\ UNCHANGED <<files, made, saved, journal, procVars, acked, spent, gap, shared>>

Renames(d) ==
    /\ door[d].at = "staged" /\ door[d].kind \in {"dashboard", "script"}
    /\ path' = door[d].mine
    /\ IF door[d].kind = "script"
       THEN door' = [door EXCEPT ![d] = Over] /\ restored' = TRUE
       ELSE At(d, "replaced") /\ restored' = restored
    /\ UNCHANGED <<files, made, temp, saved, journal, procVars, acked, spent, gap, shared>>

(* ensure_db_schema of the dashboard, on the file it has just put there. *)
SchemaEnsured(d) ==
    /\ Readable /\ door[d].at = "replaced"
    /\ door' = [door EXCEPT ![d] = Over] /\ restored' = TRUE
    /\ UNCHANGED <<diskVars, procVars, acked, spent, gap, shared>>

SchemaFails(d) ==
    /\ door[d].at = "replaced" /\ At(d, "failing")
    /\ UNCHANGED <<diskVars, procVars, seenVars>>

(* The backup is staged and renamed over the path. *)
RollsBack(d) ==
    /\ door[d].at = "failing" /\ \E b \in saved : b.facts = door[d].before
    /\ NewFile([facts |-> door[d].before, form |-> "ours"]) /\ path' = made + 1
    /\ door' = [door EXCEPT ![d] = Over]
    /\ UNCHANGED <<temp, saved, journal, procVars, seenVars>>

-----------------------------------------------------------------------------
(* Migration into the database at the path: with --replace its rows go first, *)
(* then each batch is a transaction.                                          *)
MigrationBegins(d, replaces) ==
    /\ Writable /\ door[d].at = "idle" /\ files[path].form = "ours"
    /\ files' = IF replaces THEN [files EXCEPT ![path].facts = {}] ELSE files
    /\ spent' = IF replaces THEN spent \cup files[path].facts ELSE spent
    /\ door' = [door EXCEPT ![d] = [NotCome EXCEPT !.at = "migrating", !.kind = "migrate"]]
    /\ UNCHANGED <<made, path, temp, saved, journal, procVars, acked, gap, shared, restored>>

MigratesBatch(d, batch) ==
    /\ Writable /\ door[d].at = "migrating" /\ files[path].form = "ours"
    /\ files' = [files EXCEPT ![path].facts = @ \cup batch]
    /\ acked' = acked \cup batch
    /\ spent' = IF Between THEN spent \cup batch ELSE spent
    /\ door' = [door EXCEPT ![d] = Over]
    /\ UNCHANGED <<made, path, temp, saved, journal, procVars, gap, shared, restored>>

-----------------------------------------------------------------------------
(* Cleaning .runtime, each after a look that finds nobody running: the dashboard *)
(* removes all of it, the command line the files it listed as old.               *)
LooksToClean(d, kind, list) ==
    /\ door[d].at = "idle" /\ FindsNobody
    /\ door' = [door EXCEPT ![d] = [NotCome EXCEPT !.at = "cleaning", !.kind = kind, !.list = list]]
    /\ UNCHANGED <<diskVars, procVars, acked, spent, shared, restored>>

SweepLooks(d) == LooksToClean(d, "sweep", Monitor)
TidyLooks(d, old) == old \subseteq claimed /\ LooksToClean(d, "tidy", old)

Removes(d) ==
    /\ door[d].at = "cleaning"
    /\ claimed' = claimed \ door[d].list
    /\ door' = [door EXCEPT ![d] = Over]
    /\ UNCHANGED <<diskVars, open, txn, owners, seenVars>>

Sweeps(d) == door[d].kind = "sweep" /\ Removes(d)
Tidies(d) == door[d].kind = "tidy" /\ Removes(d)

RestoreNext ==
    \/ \E p \in Proc : Connects(p) \/ Commits(p) \/ \E f \in Fact : Begins(p, f)
    \/ PlaysJournal
    \/ \E m \in Monitor : Starts(m) \/ \E inOrder \in BOOLEAN : Leaves(m, inOrder)
    \/ BacksUp \/ \E b \in saved : DeletesBackup(b)
    \/ \E d \in Door :
          \/ \E pick \in saved \cup Foreign : CommandLooks(d, pick) \/ ImportLooks(d, pick) \/ ScriptLooks(d, pick)
          \/ SavesFirst(d) \/ GivesUp(d)
          \/ CopyBegins(d) \/ CopyEnds(d) \/ RenamesShared(d)
          \/ Stages(d) \/ Disposes(d) \/ Renames(d)
          \/ SchemaEnsured(d) \/ SchemaFails(d) \/ RollsBack(d)
          \/ \E replaces \in BOOLEAN : MigrationBegins(d, replaces)
          \/ \E batch \in SUBSET Fact : MigratesBatch(d, batch)
          \/ SweepLooks(d) \/ Sweeps(d) \/ Tidies(d) \/ \E old \in SUBSET Monitor : TidyLooks(d, old)

RestoreSpec == RestoreInit /\ [][RestoreNext]_restoreVars

-----------------------------------------------------------------------------
(* What a process was told is stored is in the database or in a backup that   *)
(* is kept, unless its transaction ended after a restore had taken its backup *)
(* or in a file that was replaced meanwhile, or the user gave it up, or the   *)
(* journal of one file was played into another.                               *)
NothingLost ==
    acked \subseteq files[path].facts \cup (UNION {b.facts : b \in saved}) \cup spent \/ "journal" \in shared

(* The database is never a half-written file, wherever a writer, a copy or a  *)
(* backup is cut off, unless two restores of the command line wrote the file  *)
(* they share, or a transaction was open when the file was replaced, so that  *)
(* the journal of one was used for the other.                                 *)
DatabaseWhole == files[path].form # "torn" \/ {"copy", "journal"} \cap shared # {}

(* Only a restore takes anything out of the database: one that reports a      *)
(* failure, or is given up before it has replaced the file, leaves there all  *)
(* that was stored before it, unless it began while another was in place that *)
(* would fail in its turn.  One that dies later has put its file in place,    *)
(* and counts as restored.                                                    *)
FailedRestoreUndone ==
    acked \subseteq files[path].facts \cup spent \/ restored \/ InPlace # {} \/ {"undo", "journal"} \cap shared # {}

(* The command line replaces the database under no process with a claim that  *)
(* it could have seen: those it works under started after it had looked, or   *)
(* its look failed.                                                           *)
RestoredAlone ==
    [][\A d \in Door : door[d].kind = "cli" /\ door[d].at = "staged" /\ path' # path => Running \subseteq gap]_restoreVars

(* A monitor has one process, unless it started while .runtime was being      *)
(* cleaned, or the look before the cleaning failed to see it.                 *)
OneProcess == \A m \in Monitor : owners[m] <= 1 \/ m \in gap

(* Whatever backups, restores, migrations and writers do to each other and *)
(* wherever they are cut off, the database is whole and nothing is lost.   *)
DatabaseSound == RestoreTypeOK /\ NothingLost /\ DatabaseWhole /\ FailedRestoreUndone
=============================================================================
