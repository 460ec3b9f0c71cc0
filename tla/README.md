# SecPath ProxyPool: specifications

SecPath ProxyPool keeps a table of proxies, tests them with *monitors*, and
serves some of them through *proxy servers*. A Flask dashboard and a command
line start, stop and edit both. Every monitor and every proxy server is a
process of its own; they and the dashboard share a database, JSON files, lock
files and signals. That sharing is what these modules are about: who owns a
monitor or a server, what a run leaves in the database when it is paused, killed
or resumed, how a server chooses and retries its upstreams, and what requests
that overlap do to records, profiles, users and the database file.

Paths below are relative to the repository.

## Inventory

| Component | State | Operations | Hard behaviour | Correct when | Module |
|---|---|---|---|---|---|
| Monitor claims (`proxy_monitor/lifecycle.py`, `secproxy_core/monitor.py`) | claim file, lock file, child processes | `reserve_start`, `activate_claim`, `adopt_claim`, `abandon_start`, `release_claim`, `_wait_for_claim` | launchers, children, units and polls in any order; crashes; process numbers given again; a wait that times out | one owner, named by the file; a start reports truthfully; nothing locks a profile for ever | `MonitorClaim` |
| Monitor run (`monitor/runner.py`, `workers/`, `app.py`) | session row, tested rows, proxy rows, job and result queues, STOP flag, control file | select, probe, apply a result, stop, pause, resume, finalise | worker threads beside one processor; three transactions for a result; kills between them; rows added, deleted and moved in and out of the filters meanwhile | no result dropped or counted twice; a completed session is complete; stop ends | `MonitorRun` |
| Monitor requests (`monitor_service.py`, `secproxy_core/monitor.py`, `dashboard/routes/monitor.py`) | `.monitors.json`, session row, control file | create, edit, rename, start, resume, stop, pause, delete, status poll | every request checks first and acts later, in several files | an answered pause can be resumed; a deleted profile stays deleted; requests are answered | `MonitorControl`, `MonitorProfile` |
| Server lifecycle (`proxy_server/lifecycle.py`, `app.py`, `server_service.py`) | claim file, runtime profile | `reserve_start`, `claim`, `release`, `terminate`, start, stop, update, delete | a claim released without naming a process; children that boot after the start gave up | the claim names the server that runs; starts report truthfully | `ServerClaim` |
| Server profiles (`config_store.py`, `dashboard/config.py`, `secproxy_core/server.py`) | `.servers.json` | create, update, start, stop, delete, status | load and save hold the lock, what lies between does not; two sets of rules for one profile | no profile is lost, a server serves what its profile says, what is saved can be started | `Registry`, `ServerProfile` |
| Listener and handlers (`proxy_server/server/listener.py`, `handlers/`) | permits, thread pool, stop event, sockets | accept, dispatch, handshake, authorise, dial, relay, shutdown | permits taken by one thread and given back by another; shutdown with queued tasks; failures at every stage | no permit and no socket is kept; handlers end | `Gateway` |
| Proxy store (`server/proxy_store.py`, `handlers/common.py`) | candidate cache, pinned proxy | select, exclude, mark failed or alive | a 30 s cache, records that change, a retry, a database that fails | each rotation mode keeps its rule; the store hears of each try | `ProxyStore`, `Gateway` |
| Proxy records (`database.py`, `proxy_service.py`, `routes/proxies.py`, `runner.py`) | proxies table | add, edit, delete, purge, test, apply results | results for a record that was edited or whose number was given again; lost counter updates | a verdict is about the identity it stands beside; checks add up | `ProxyTable` |
| Imports and sources (`dashboard/imports.py`, `routes/import_export.py`, `source_service.py`) | proxies table, sources, run records | preview, execute, run a source, add, edit, delete | two imports of one address, two runs of one source | history and sources tell what was done | `Imports` |
| Users (`routes/users.py`, `decorators.py`, `user_service.py`, `scripts/create_admin.py`) | users, tokens | add, edit, delete, password, login, logout | two requests that each remove the other administrator; a login over a changing password | an administrator remains; a token speaks for a user who may still come in | `Access` |
| Backup, restore, migration, cleanup (`backup_utils.py`, `backup_service.py`, `cleanup_service.py`, `migrate.py`, `routes/settings.py`) | database file, backups, `.runtime` | create, restore, roll back, migrate, sweep | a file replaced under writers and their journals, two restores at once, a failure after the replacement, a look for processes that fails | the file is whole, nothing acknowledged is lost, a failed restore is undone | `Restore` |
| Public feed (`public_monitor/`) | work directory, site | fetch, merge, select, probe, rank, build | threads that finish in any order, limits, ties | the best of what was found is listed | `PublicFeed` |
| Progress files, probes and scores, statistics, exports, pages, packaging | none that decides | read, measure, print | none | | not modelled |

How they meet: the dashboard and the CLI call the service modules; the service
modules reserve a claim, launch a process and wait for the claim to be taken;
the process takes the claim under the same file lock, writes its session and
registry record, and reads the control file when it is signalled; a status poll
of the page compares all of these and repairs what it finds. A server process
has a claim and a profile file only. Both kinds write the proxies table, as do
imports and edits; a server reads it every 30 seconds. Restores replace the
database under all of them.

`PROJECT.json` lists every part, what covers it, and the hazards with the
properties that cover them.

## Modules

| Module | What it is |
|---|---|
| `MonitorOwnership` | abstract: processes of one monitor run one at a time and never twice |
| `MonitorClaim` | the claim file, launchers and processes of one monitor id; implements `MonitorOwnership` |
| `MonitorRun` | one process at a time and what it leaves in the database |
| `MonitorControl` | extends `MonitorClaim` with registry, session row, control file, requests and polls |
| `MonitorProfile` | the profiles of monitors, their rules, command lines and units |
| `ServerClaim` | the claim of one proxy server profile and the requests around it |
| `Registry` | the file of server profiles under overlapping requests |
| `ServerProfile` | the rules of a server profile and the records it selects |
| `Profiles` | extends `ServerProfile` and `MonitorProfile` with what both kinds promise |
| `ProxyStore` | the choice of an upstream |
| `Gateway` | extends `ProxyStore` with the listener, its workers and the handlers |
| `ProxyTable` | the records of the proxies table and who writes them |
| `Imports` | extends `ProxyTable` with imports and saved sources |
| `Access` | users, tokens and those who change them |
| `Restore` | the database file while it is replaced |
| `PublicFeed` | the public monitor job |
| `..._proofs` | theorems about the module of that name; `MonitorControl_proofs` and `Imports_proofs` have those of `MonitorClaim` and `ProxyTable`, which these modules extend, `Administration_proofs` those of `Access` and `Registry`, and `Profiles_proofs` those of `ServerProfile`, `MonitorProfile` and `PublicFeed` |
| `MC...` | model values, bounds and symmetry for the instances |

`Gateway` over `ProxyStore`, `Imports` over `ProxyTable` and `MonitorControl` over
`MonitorClaim` are compositions whose parts share state. `MCAdministration` and
`MCProfiles` check modules that share none, one *scene* at a time.

### MonitorClaim

`claim` is the JSON claim file. A start request is its own token, and the child
it launches has its name, so `Starting(s)` is the reservation of `s` and
`Running(p)` the claim activated by `p`. `born` stands for the process creation
time that `process_matches` compares: a claim of a dead process is not taken for
the process that has its number now. `fresh` is the age test of
`START_RESERVATION_TTL`; `Expire` is the clock. Each body under `monitor_lock`
is one step; between them launchers crash, children die and polls adopt.

A launcher's `pc` follows `_spawn_monitor`: reserve, launch, wait, and on a
time-out abandon the reservation (if the claim is still its own) and kill the
child. A service start (`Service`) hands the launch to systemd and has no child
to kill; processes started by hand or restarted by systemd are `Manual`.

### MonitorRun

The main thread, the workers and the processor of one process, each of its
database transactions a step: mark as tested, change the proxy, persist the
counters. `Kill` ends the process between any two. The operator's pause and
stop write the control file and signal; `Resume` starts over from what is in the
database. `hist` only observes. `Recurring` separates run mode `once` from the
others, which reset a session when it has completed.

A monitor may be for some protocols and statuses only (`Filtered`). Each process
applies these filters when it selects (`Rows`), a resume again, and a result or an
edit may move a record in or out of them (`Refiles`): `matched` has those the
filters let through, `hist.dropped` those of the session that the last resume did
not find any more.

What a probe measures is a choice of `Outcome`, the counter to which the new
status goes. The scores are not here; what a verdict does to a record that
changes meanwhile is in `ProxyTable`.

### MonitorControl

Every file write and every transaction is a step here, which splits what
`MonitorClaim` need not tell apart: start checks the claim, then clears the
progress, the control file and the session, then reserves; stop reads the
runtime status, writes the control file, signals, waits, and writes the session;
delete does the same and then removes the session, the files and the record; the
poll reads the registry and session first and judges later.

Simplifications: profiles with no systemd unit; `remove_runtime_files` is one
step and the removal of the lock file in it is not modelled; the registry and the
claim are read in one step except by the poll. Renames, edits and units are in
`MonitorProfile`.

### ServerClaim

Like the claim of a monitor, with the differences the code has. A reservation
counts for `claim` whatever its age, and without one anybody may claim;
`terminate` and the failure branch of a start release the claim without naming a
process (`BlindRelease`); a process that cannot read its profile file does not
start. A start that has seen the claim of its child still has to save the profiles
and to look the server up (`saving`, `Succeeds`); if that fails (`Raises`), it cleans up as
after a time-out, under a child that serves. `wiped` observes the owners whose claim others released. A `Stopper` is a
stop, an update (terminates only what runs) or a delete (refused while the server
runs). SIGTERM is graceful only when the listener has its handler installed,
before that it ends the process.

A stop whose process survives SIGKILL for three seconds is not modelled.

### ProxyStore and Gateway

A row is what the choice can tell apart: its id, where it leads, its cost.
`Select` is the body of `select` under the lock of the store: it loads when the
cache is old or the caller forces it, keeps the old rows when the load fails,
and looks for the pinned proxy among those not excluded. `Offers` is the rule of
each rotation mode. The hash of the sticky mode is a constant.

`Gateway` is the process around it. `at[c]` follows a connection through accept,
queue, handshake, request, choice, dial, answer, relay and close, one step for
each place where its thread may wait; `permits` is the semaphore, `open` the
sockets a handler holds, `told` what the store was told of each try. HTTP tunnels
and SOCKS requests go through `connect_selected_upstream` with its one retry,
plain HTTP requests make one try. A client may be refused at each check, leave at each
read, and a dial may fail or the answer not arrive. `Shutdown` is the signal;
`AcceptRaises` an accept that fails, which ends the loop while the workers go on
with the queue. Bytes a client sends ahead of the answer to its
CONNECT, and the frames themselves, are left out.

### ProxyTable and Imports

A record has an identity (protocol, address, port, user: one `key`), three
counters, and the identities that were probed for what else it says: for its status
(`verdict`), for its counts (`counted`) and for its cost, speeds, scores and place
(`measured`). An edit of the command line takes back the first two and keeps the
measurements (`moved`). Every writer reads a record, waits, and writes the columns that differ
from what it read (`Written`), as the ORM does, onto whatever the record has
become by then: numbers are given again after a delete. `Fallback` is the
result of an HTTPS proxy that only answers as an HTTP proxy. `torn` observes
records two writers were at work on at once, `renamed` those that changed
identity with their verdict.

`Imports` adds the look for known addresses and the one transaction that adds
the others, the records of runs, the outcome a source shows, and the names of
sources. Lists and their parsing are a choice of keys and of
how the fetch ended.

### Access

A request of the dashboard looks at the users and writes later; `raced` observes
that another had looked meanwhile. `who` tells the users apart that had the same
number. A login verifies and makes its token in two transactions. The command
line and `scripts/create_admin.py` change users without either check
(`unchecked`). Permissions are roles. A request with a bearer token has no session
actor in the code; the model gives every request one.

### Restore

A file is replaced by renaming another over its path, so files are numbered and
`path` is the one at `SQLITE_DB_PATH`; a process that has the old one open keeps
it. The rollback journal goes by the name of the path: `journal` is the file for which
it was written, and without a transaction at the path it is hot (`Hot`), so that the
next reader plays it into whatever file is there (`PlaysJournal`). What it plays into
another file may do nothing or tear it. A fact is all of one transaction. Three restores (command line, dashboard,
script), the migration and two cleanings are requests with a stage `at`; each may
be given up between any two steps. Those that look who runs find nobody when nobody
runs, or when the look fails (`FindsNobody`): the command line drops every error, the
dashboard takes a state file it cannot read for an empty one, and `list_monitors` does
not tell the command line of a monitor that is starting. Restores of the command line share
`<path>.restore.tmp` (`temp`); those of the dashboard stage a private file, and
roll back when the schema step fails. `spent` observes what nobody promised to
keep: commits after a restore took its backup, commits into a replaced file,
rows replaced by a migration, and backups the user deleted. MySQL is not modelled.

### Registry, ServerProfile, MonitorProfile and Profiles

`Registry` has the whole file loaded and saved by requests that hold its lock only
for the load and for the save; `copy` is what a request has loaded.
`ServerProfile` and `MonitorProfile` are about what a profile says: the rules
before it is saved, those of the process that reads it (two programs, written
apart), the records the preview of a server counts and those the server then uses,
what an empty field keeps, and who may save over whom. A number with a range stands
for all of them, a flag for all flags. Of texts, empty ones and ones of spaces (`Space`)
are told apart, since the rules strip them (`Stripped`) at one place and compare them
as they came at another (`Credential`). A preview is made for a user, who may see some
statuses and protocols (`Scopes`); the command line sees `Everything`. What a monitor is
told is its command line (`BuildArgs`), and in a unit what systemd makes of it
(`Handed`, `UnitReads`): `_write_service` quotes words as for a shell, systemd has rules of
its own for a %, a $ and a backslash. A schedule without a time needs no guard:
`proxy_monitor/app.py:139` runs it at midnight. `MonitorProfile` assumes the program
runs as root, which units require.

### PublicFeed

Fetching and probing end in any order (`Collects`, `Probed`); merging, choosing
what is tested, ranking and spreading the exit addresses are operators over the
results. The loop of `choose_top` takes the healthy candidates in an order (`Comes`)
that depends on all of them, since an exit address is repeated or not by those sorted
before; `Top` puts each at the place that the number of those ahead of it says
(`Ahead`). `Raises` is an exception or the end of the job's time.

## Runs

| Run | Question | Instance |
|---|---|---|
| `claim_ownership` | Is ownership exclusive and the owner named, do starts report truthfully, is a profile never locked; is all this `MonitorOwnership`? | a direct and a service start, a manual process, 2 numbers |
| `run_once` | Does any schedule of threads, pauses and a kill drop or repeat a result? | 2 proxies and one that may be added, 2 threads, 1 kill |
| `run_recurring` | Are completed and failed reported for a reason, with failing transactions and filters that a resume applies again; does a process told to stop end by itself? | 1 proxy and one that may be added, 2 threads, filters, 1 kill, 1 fault |
| `control_requests` | Do overlapping starts, stops, pauses, polls and processes started by hand keep the ownership exclusive, does a run tally its own row, does a pause hold? | any three of 2 starts, 2 stops or pauses, a manual process and a poll, two at most of which launch or poll (`FewActors`); 2 numbers |
| `control_delete` | Does a deleted profile stay deleted, is the delete answered? | 1 start, 1 delete, 1 poll |
| `control_two_owners` | violated: "reject concurrent launches", by a delete | 2 starts, 1 delete |
| `server_claims` | Does the claim name the server that runs, do starts report truthfully, is a profile never locked, do terminations end? | 2 starts, or a start and a manual process, and 1 stop/update/delete; 2 numbers |
| `gateway_choice` | Does each rotation mode keep its rule, is a retry made elsewhere and told, under a cache, changing records and a failing database? | 2 records with 3 versions and a third one in `better_cost`, 2 connections, all 7 modes (`FirstTunnels`, `ThirdRecord`) |
| `gateway_listener` | Are permits, sockets and threads given back on each path, do handlers end? | 3 connections, 1 thread (2 permits), each protocol, every request, a signal, a failing accept |
| `inventory` | Is a verdict about the record's own identity, do counters agree, do imports and sources tell what happened? | 2 identities, 3 numbers; 2 writers of 5 kinds, or 2 imports or edits of 2 sources |
| `administration` | Do the last administrator, tokens, the database file, its backups and the saved profiles survive two administrators at once? | scenes: 2 users and 2 requests; 2 requests on the file, 1 monitor, 1 fact; 2 ports and 2 requests |
| `profiles` | Does a saved profile start, as saved; does a server draw from what a user was shown; are profiles kept apart; is the best of a feed listed? | scenes: 1 server profile and 3 scopes; 1 monitor profile; 2 monitors and 2 requests; 2 sources and a feed |

### Bounds

The protocols have pairwise conflicts: two launchers, or a launcher and a process
it did not launch, with one that interferes. Two starts and one other actor
contain each pair in each order, and every actor runs through its whole life, so
later sets of actors repeat what these do. Numbers are fewer than processes, so
that they are given again. Two worker threads let a result queue behind another
and a stop fall between the transactions of one of them. One kill and one fault
reach each place where a session can be cut; the bounds `MaxKills` and `MaxFaults`
are per session, and properties that depend on deaths count them. `AppliedOnce`
says no more than "once, plus the deaths and faults", as the order of the three
transactions promises no more.

What the constants and constraints leave out:

- `FewActors` of `MCMonitorControl`: any three of those that act, two at most of
  which launch or poll, so that a poll meets a start and a pause, and a pause a start
  and another pause. What launches and polls do to each other is the
  claim's: `MCMonitorClaim` has a start, a start by the service, a process by hand
  and polls at any time, and the theorems have any number of each.
  `ChangesMatter` of `MCMonitorRun`: a record is added, or moved in or out of the
  filters, just before a selection, as nothing else looks at that. `MCServerClaim`: the two starts are alike,
  so `s1` comes first, so are the numbers, of which the first process gets `n1`,
  and a manual process comes only without the second start.
- `FirstTunnels` of `MCGateway`: of two connections `c1` has asked for a tunnel
  before the other comes, which may ask for either; the order of what comes
  before is the same to the store. `EndsAtOnce` and `ChangesMatter`: only a
  choice reads the store, so that what follows an answer may be over at once, and
  the world change just before a choice. The records change without end, so
  every load differs from the last in every way two records can. `ThirdRecord`
  lets a third record, as cheap as the second, appear where it can matter: a
  connection of `better_cost` that tries again and leaves the first of two equals.
- `MCInventory`: either the writers come or the imports. Each writer writes once,
  which reaches two writes to one record in each order; counters cannot exceed
  the writers. Imports and writers meet only in the unique index, which
  each of them meets as the index.
- `MCAdministration`: `MaxBorn = 3` lets a number be given again once; `MaxHeld = 1`
  one token at a time, as tokens do not act on each other; one change from
  outside, after which nothing is promised but tokens; a request changes one
  column. `MaxFile = 5` is no bound for two requests: more files give the same
  states. `Telling` stops a scene where two saved over each other, or where two
  processes of a monitor run because one overtook a look; nothing more is promised
  of them then.
- `MCProfiles`: one monitor with any two fields unusual, and two monitors whose
  names and units alone differ; the feed has two sources with lists that repeat,
  disagree and name a private address, groups smaller and larger than the limit,
  and outcomes with each number of exits. Requests are picked to reach each rule.

Deadlock is not checked where the instances have finitely many requests and really
come to rest.

Symmetry is used for process numbers, starts, worker threads, writers, importers,
callers and requests in runs without liveness; no property names one of them.

### What the properties say

- *Ownership and starts*: `OneOwner`, `ClaimSound` (the file names the owner),
  `OwnershipSpec`, `SuccessIsOwn`, `FailureIsClean`, `NoLockout`. Who launches, adopts,
  abandons or dies in what order: one owner, named by the file, and reports
  that are true of the process they are about.
- *A run*: `NothingDropped`, `CountsFollowMarks`, `AppliedOnce`, `StatusTold`,
  `StopEnds`. What is left in the database by threads, transactions and kills.
- *Requests*: `ControlSound` (a run tallies its own row, an answered pause can be
  resumed), `NotResurrected`, `Answered`.
- *Serving*: `TriesAreTold` (a retry goes elsewhere and each try is told once),
  `ChoiceIsCurrent` and `PinMovesForCause` (a choice is from the present load, and
  a proxy the store stays with is left for a reason only), `PermitsCounted`,
  `HandlersClean`, `HandlersEnd`.
- *Records*: `VerdictIsOwn`, `ChecksAddUp`, `ImportsTellTruth`.
- *Administration*: `AdministratorRemains`, `TokensSound`, `DatabaseSound` (the file is
  whole, nothing acknowledged is lost, a failed restore is undone), `OneProcess`,
  `RestoredAlone`, `ProfilesKept`.
- *Profiles and lists*: `LaunchesAsSaved`, `ServesWhatWasShown`, `StaysProtected`,
  `NoneOverwritten`, `BestAreListed`.

Where the code promises less than a property would like, the property excepts the
case by an observation variable (`wiped`, `torn`, `renamed`, `moved`, `dropped`, `raced`,
`unchecked`, `loose`, `gap`, `shared`, `cleared`, `mixed`, `crossed`, `alike`) or, in `PauseHolds`,
`StartsAsSaved` and `ServesWhatWasShown`, by name. The cases are listed below. A property
says nothing about the hazards that are such a case: in `PROJECT.json` they have a note
and no property. An exception may also cover more than the case: `torn` is true of two
writers that overlapped without harm, `shared` of a journal that was played without
harm, `gap` of a monitor that started after a look and keeps its claim.

### Fairness

- `MonitorClaim`: the clock (`Expire`), the end of a process that has released
  its claim (nothing blocks in it), and the bounded wait of a launcher
  (`time.monotonic` against a deadline). Nothing obliges a process to claim,
  release or survive.
- `MonitorRun`: the threads of a process are scheduled by the operating system,
  all waits of the code have time-outs, and a request that was begun is carried
  through. Kills and faults are never fair.
- `MonitorControl`: requests and starts are carried through, nothing is assumed
  of the monitor processes; `Answered` rests on the SIGKILL after the grace
  period.
- `ServerClaim`: the clock, starts that have a reservation (they write, launch,
  wait three seconds, clean up, or crash), and terminations.
- `Gateway`: the main thread (`Drain`, `Leave`) and what a worker does by itself or
  when a time limit of its sockets is over (`Bounded`): choosing, a dial or a send
  that fails, a client that is silent. A handshake, a tunnel in use and the wait
  for a free worker have no limit in the code and none here, which is why
  `HandlersEnd` ends at a tunnel and begins after the handshake.

### Disagreements with the documents

`control_two_owners` must be violated: delete removes the claim of a monitor that
is starting, and the next start runs beside it, where
`proxy_monitor/lifecycle.py:8` promises to "reject concurrent launches". This is why
`control_requests`, which checks `OwnershipSpec`, has no delete requests.

The models contain these behaviours too. No run states them:

- A late stop rewrites a completed session (`secproxy_core/monitor.py:492` and `:537`
  set the status unconditionally); a pause writes its state over the session that
  a newer process has opened (`docs/MONITOR_LIFECYCLE.md:12`), and `PauseHolds` speaks
  of the session of the process that was paused.
- Start deletes the session row before it holds the reservation
  (`monitor_service.py:255`), and the process that runs goes on without one
  (`docs/MONITOR_LIFECYCLE.md:51`).
- A poll that has read the row of a running process marks it interrupted when the
  process is gone by then, over the pause that was answered meanwhile; a stop that
  overlaps with a pause makes it stopped. `PauseHolds` names both.
- A resume applies the filters of the monitor again (`monitor/runner.py:189`). A record
  whose status or protocol changed during the pause is never tested: the session
  ends completed without it, or failed since the counts do not add up. `CompletedCovers`
  and `FailureHasCause` name these records (`dropped`).
- A session resumed with no rows left is completed whatever it has counted
  (`docs/MONITOR_LIFECYCLE.md:51`), which is why `CompletedCovers` excepts deleted
  rows. Deleting a proxy under its session makes the session fail though nothing
  failed (`docs/MONITOR_LIFECYCLE.md:15`); `FailureHasCause` names that cause.
- A status poll that overlaps with the end of a run marks it interrupted
  (`docs/MONITOR_LIFECYCLE.md:16`). A stop of a monitor that is starting signals
  nobody and is forgotten on activation (`:37`).
- A rename keeps the name of the service, so that a later monitor of the old name
  shares a unit with the renamed one (`docs/MONITOR_LIFECYCLE.md:70`). A monitor whose
  name begins with a dash never starts: the command line takes it for an option.
- A stop of a starting server looks before the child claims, signals nobody,
  releases the claim the child has made and answers stopped
  (`proxy_server/lifecycle.py:182`, `docs/PROXY_SERVER_CORE.md:43`). A server child whose
  start was given up claims with no reservation, and a second start is accepted
  beside a serving process whose claim was released blindly (`:35`); `OwnerNamed`
  of `ServerClaim` excepts the owners in `wiped`. A start that fails after its child
  has claimed, because the profiles cannot be saved, releases the claim of a server
  that serves, and removes its profile file (`server_service.py:223` to `:228`).
- The TLS handshake of an https listener runs on a worker without a time limit
  (`listener.py:61`).
- The dashboard's edit of a proxy keeps the verdict of the identity it had
  (`routes/proxies.py:332`), which the command line resets on purpose
  (`proxy_service.py:300`); a fallback from https to http keeps it too
  (`renamed`). The command line resets status, counters and times, and keeps cost, speed
  history, scores, previous cost and geo of the old identity
  (`proxy_service.py:301` to `:321`, `moved`). Monitors and servers that write one record at once lose each
  other's counts (`torn`).
- Two runs of one source, or two sources saved at once, leave a column of one
  beside a column of the other, or one name twice (`mixed` and `alike` of `Imports`).
- Two requests that each see another administrator remove both (`raced`); the
  command line withdraws no token (`loose`) and looks for no other administrator
  in `set-role` and `disable` (`unchecked`).
- Two restores of the command line write one `.restore.tmp` (`shared`). Two imports of
  the dashboard that overlap take no lock (`routes/settings.py:422` to `:454`): the
  second may back up the database the first has just put in place, and go back to
  it after the first has taken it back (`shared`). A restore removes `-wal` and `-shm` of
  the old file and not its rollback journal (`backup_service.py:207`): a transaction that
  was open at the replacement leaves one, and the next reader plays it into the
  restored file, or a rollback finds none (`shared`). An import of the dashboard that dies
  after the replacement leaves the new file in place. `create_backup` does not look at
  its own verification.
- The look for processes before a restore or a cleaning is once, and takes an error for
  an answer of nobody (`backup_service.py:173` to `:189`, `cleanup_service.py:13` to `:29`): a
  monitor that runs unseen may lose its claim, and its database (`gap`).
- `.servers.json` is saved as it was loaded: two overlapping requests lose one of the
  changes (`mixed` of `Registry`).
- A user name of spaces is not empty for the test that keeps the saved credentials
  (`server.py:190`), and was stripped to nothing before (`:146`): an update with it removes the
  authentication of a listener without `clear_credentials` (`cleared`).
- The preview of the dashboard is limited to the statuses and protocols its user may see
  (`routes/server.py:138`, `proxy_scope.py:40`), the server draws from all records that fit its
  profile: such a user is shown less than will be used (`ServesWhatWasShown` compares
  within the scope).
- A name or check URL with a %, a $ or a backslash reaches a monitor in a unit as systemd
  reads it, not as it was saved (`secproxy_core/monitor.py:359`); `StartsAsSaved` leaves these
  apart (`ReadAsWritten`).
- A record with a password and no user name passes the preview and not the
  selection of a server with a credentials filter, or the other way round
  (`ServesWhatWasShown` leaves it apart).
- The feed counts a candidate twice that one list names twice
  (`docs/PUBLIC_PROXY_EXPORT.md:21`), and lists one address under http and under https
  (`:20`).

## Proofs

TLAPS proves these for every value of the constants; the runs named above check
the same formulas on small instances. `PROJECT.json` lists the theorems.

| Module | Theorems | From |
|---|---|---|
| `MonitorControl_proofs` | of `MonitorClaim`: `TypeCorrect`, `ExclusiveOwner`, `OwnerStaysNamed`, `ClaimImplementsOwnership`, `SuccessIsTrue`, `FailureLeavesNobody` | `ClaimAssumption` |
| `MonitorControl_proofs` | of `MonitorControl`: `ControlTypeCorrect`, `DeletedStaysDeleted`, `ControlImplementsOwnership`, `AdoptedHasRun`, `AnsweredPauseHolds` | `ControlAssumption`, and what the theorem assumes of the requests |
| `MonitorRun_proofs` | `TypeCorrect`, `StatusIsTold`, `NothingIsDropped`, `CountsAreMarks`, `ResultsAppliedOnce` | `RunAssumption` |
| `ServerClaim_proofs` | `ServersAreNamed`, `SuccessIsTrue` | `ServerAssumption` |
| `Gateway_proofs` | `PermitsAreCounted`, `HandlersAreClean`, `TriesAlwaysTold`, `ChoicesAreCurrent`, `PinMovesWithReason` | `StoreAssumption`, `GatewayAssumption` |
| `Imports_proofs` | `VerdictsStayOwn`, `ChecksStayCounted`, `ImportsStayTrue` | `TableAssumption`, `ImportAssumption` |
| `Administration_proofs` | `AdministratorsRemain`, `TokensAreSound`, `ProfilesAreKept` | `AccessAssumption`, `RegistryAssumption` |
| `Profiles_proofs` | `ProfilesLaunch`, `PreviewsAreTrue`, `ProtectionStays`, `ProfilesRemain` | `ProfileAssumption`, `MonitorAssumption` |
| `Profiles_proofs` | of `PublicFeed`: `BestIsListed` | `FeedAssumption` |
| `Restore_proofs` | `OneProcessEach`, `CommandRestoresAlone`, `DatabaseIsSound` | `RestoreAssumption` |

The assumptions say what the code has: sets of records, rows, identities, writers
and sources that are finite (there is a table, and columns of a given width), costs
that are numbers, markers for "nothing" (`None`, `Blank`, `Empty`) that are not values,
lists of texts without empty items (both programs drop them) and records of proxies
with one of the four protocols (whatever adds or edits a record checks it). Of the
public feed: protocols and addresses are finite sets, the sort key tells candidates
apart, and each protocol is in at most one group (`PUBLIC_GROUPS`).

`ClaimInv` is `TypeOK`, `PidsDistinct` and `OwnerNamed`. `OneOwner` is not
inductive, nor is `OwnerNamed`: a process compares the number in the file with
numbers, and `PidsDistinct` (live processes have different numbers) is what makes
that a comparison of processes. `OwnerIsSeen` then says that a live owner is seen
through the file, and `OwnerExcludes` that activation refuses everybody else. The
refinement maps the owners to `running` of `MonitorOwnership`, and every step to
a step of it or a stutter.

`LaunchInv` adds what a launcher may conclude. Its token travels with its child
alone (`TokensCarried`), and until that child has run the claim is its reservation
(`ReservationsHold`); so the running claim that its launcher finds, which
`_wait_for_claim` does not compare with the child, was made after the child had
run.

`IInv` of `MonitorRun_proofs` follows a proxy from the selection to the record. It is
in one place at a time (`OnePlace`: job queue, worker, result queue, processor), was
selected, and is not marked before it leaves the last of them; the end mark of the
result queue is behind all results (`Threads`). `Counts` has the marks one ahead of
the counters between the two transactions of a result, and further only by deaths
and faults; with `Covering` (what was selected waits, is marked or is deleted while
nobody stops the run) the shortfall that makes a cycle `failed` has a cause.
`Statuses` says of each status, from the step that decides on it, what it stands for.
At least one worker is assumed, which `run_monitor` sees to with `max(1, ...)`: without
one, the jobs would stay and the session fail for no cause.

`MonitorControl` adds requests and polls to the claim. `DeletedStaysDeleted` needs no
invariant: each action that writes the profile is either `Create` or writes it only
where it is. `ControlImplementsOwnership` and the theorems after it assume no delete: a
delete removes the claim of a starting monitor (`control_two_owners`), and two processes
then own it. They assume nothing else of who acts. `ControlInv` joins `ClaimInv` with the
types and `HaltsAreAsked` (a run halts by a signal only); every step of a request then is a
step of `MonitorClaim` or leaves its variables alone, which is by the way the actions are
written, and what follows from it is what the theorem states: the owners, seen from
outside, change as `MonitorOwnership` allows. `AnsweredPauseHolds` rests on `PauseInv`: the
row a run still has to tally is its own, or none (`RowIsOwn`), a signal is sent for a
request that remembers its target (`SignalsAreMeant`), and a request is answered when
that target is gone (`TargetsEnd`). Any number of starts, stops, pauses, polls and
processes is covered; that a poll or another stop may have overtaken the pause is in the
property.

`IInv` of `ServerClaim_proofs` has the parts of `ClaimInv`, with `OwnerNamed` for owners
that are not in `wiped` (a release that names nobody may take a claim from its
owner), and `BornClaimed`: the process of a running claim has claimed and has only
left since. `wait_until_claimed` compares numbers, and this is what makes the
number that a start finds the number of its own child.

`IInv` of `Gateway_proofs` counts: the permits and the connections that hold one
are always `Capacity` together (`PermitsHeld`), through `SameHolding` for steps
between two such stages. `QueueEnds` is what a shutdown needs (nobody comes out of a
queue that was cancelled) and `RequestKnown` what the sockets need (a request
that was refused never dialled). `TriesAlwaysTold` adds what a connection has tried and
told at each stage (`ConnectionSound`). `ChoicesAreCurrent` and `PinMovesWithReason` are
about single steps, from the same invariant and `StoreSound` (the load that is kept has
each record once). The proof of the second refuted an earlier form of
`PinMovesForCause`: in `better_cost` a connection that tries again leaves the pinned
proxy for another of the same cost, which takes three records to see.

`Imports_proofs` has three layers. `ImportInv`: a request is on record only when it
is over, and once (`HistoryInv`); until a second run of its source ends, what a run
read of it is still there (`ShownInv`), so that writing the changed columns writes the
outcome; a name that was looked for is free, or saved by another that looked too
(`NamesInv`). `RecordInv`: a copy that no second writer has overtaken is what the table
holds (`CopiesAreCurrent`), from which `VerdictIsOwn` and `ChecksAddUp` follow write by
write, although the ORM writes single columns. `TableInv`: no identity twice, and
counters that add up to no more than the writers done, some with a success and
others with a failure (`CountInv`). That an import gives each key one number is a
matter of counting: it places `n` keys on the `n` numbers after the highest in use
(`NumbersAreNew`, `PlacedOnce`).

`IInv` of `Administration_proofs` says of each request that has looked and will take an
administrator away that another is still there (`Covered`), until one of two
observations says that somebody wrote in between. `TokensInv` treats a login that
has verified a password and not yet made its token as one who holds the token
already: what both hold is still true of the user (`IsCurrent`), or the user is
among the `loose`.

`KeptInv` there says what a request knows of its port at each stage
(`Holds`), that the copies requests have loaded say what the file says, but for the
numbers of processes (`Fresh`), and that a port with no request about it has the
profile its server serves (`AtRest`). It holds until two requests save over each
other (`mixed`), and for the ports that no two requests were about (`crossed`).

`Profiles_proofs` is about pure rules under two small state machines. `ProfileInv`: a
saved server profile is under all rules at once, its texts stripped (`Ruled`), from which
it follows that reading it again changes nothing and that the server, whose rules are
written apart, accepts it. Neither `LaunchesAsSaved` nor `ServesWhatWasShown` is inductive:
the next request is merged with the profile, so that the rules have to hold of every
field, those that no property looks at included. `MonitorInv` says of each record that it
is a profile where its name says, and of each profile a request still carries that it is
one; `CommandLineSays` is the lemma that writing a profile as a command line and parsing
it gives it back, `HandedAsWritten` that a unit of harmless words does not change it.
`ProfilesRemain` counts: a rename takes one id away and adds one that was free at the
moment of the write (`Kept`), wherever its look was overtaken.

`BestIsListed` is about `PublicFeed`, in the same module. Its core is a lemma about
orders (`Places`): in a finite set with a strict total order the numbers of those below
an element are all different, and are 0 to the size less one. With it the rows of a list
are the first in the order `Comes` (`TopRows`, `ListedComeFirst`), and the first `Floor`
of a ranking by corroboration are `Floor` candidates (`FirstAreTested`).
`TopSpreads` is the argument for exits: of the candidates with one exit the one that is
sorted first does not repeat it (`FirstOfExit`), so it comes before every repetition
among those as reliable. `FeedInv` is needed because results of later groups are added
after a list was written: what was selected of a group stays what its rule allows,
all of it is tested, and nothing of a later group is selected (`PickedOf`), so each
workbook says what would be said now (`TopsInv`). The groups have no protocol in common,
as in `PUBLIC_GROUPS`; without that it would be false.

`LookInv` of `Restore_proofs` says that whoever runs after a look has started since or was
not seen by it (`LooksHold`) and that a process of which neither is true has its claim
to itself (`ClaimsHold`).

`DatabaseIsSound` goes in three layers, each with the one before as a
hypothesis. `Types` is the shape. `WholeInv` keeps files whole: files that are being
written are nobody's database (`Places`), what a restore picked was whole when it
was made (`Picks`), and a staged copy is the picked one unless two restores
shared the staging file or a journal was played into it (`Copies`). `FactsInv` follows the acknowledged facts:
each is in the file at the path, in what a restore put aside for going back, or
is one that nobody promised to keep (`KeptInv`); and a failed restore of the
dashboard has the old file to go back to (`UndoneInv`).

Every invariant of a passing run and every action property is stated by a theorem.
Only model-checked are the liveness properties (`NoLockout`, `StopEnds`, `Answered`,
`HandlersEnd`): liveness under fairness needs `ENABLED`, which is beyond the provers, as
is what a definition by induction over data computes. No module has a `RECURSIVE`
operator, so each of them can be proved about.

## Plan

The modules of the plan are written, and each safety property they state is proved.

## Not modelled

- The progress files, log tails and their locks: nothing reads them to decide.
- What a probe measures, scores and geographic lookups: numbers from a network,
  and arithmetic on them that orders nothing but the list of candidates, of which
  the models have the order.
- The bytes of HTTP and SOCKS, relaying, certificates, bytes sent ahead of a
  CONNECT: the handlers are modelled by where they wait, fail and give back.
- Statistics, insights and exports, which only read; pages and their scripts.
- The schema, MySQL (its locks and its backup paths), packaging and the
  installers.
- Settings that are numbers, and the deletion of old rows by age; settings read
  from the environment; parsing and printing of the command line, behind which
  stand the same service calls.
- The size of a purge: which records it takes is a choice.
- The removal of a lock file while somebody waits for it, and processes that
  survive SIGKILL for longer than the code waits.
