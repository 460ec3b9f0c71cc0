---------------------------- MODULE MonitorControl ----------------------------
(***************************************************************************)
(* The requests of the dashboard and the command line around MonitorClaim: *)
(* secproxy_core/monitor_service.py and secproxy_core/monitor.py start,    *)
(* stop, pause, delete and poll one monitor while its processes            *)
(* (proxy_monitor/app.py) write the registry, the session row and the      *)
(* control file.  Every file write and every transaction is a step.        *)
(* Profiles without a systemd unit.                                        *)
(***************************************************************************)
EXTENDS MonitorClaim

CONSTANTS
    Stopper,    \* stop and pause requests
    Deleter,    \* delete requests; those of a running monitor stop it first
    Poller,     \* status requests of the monitor page
    None

Request == Stopper \cup Deleter
Action == {"pause", "stop"}
Status == {"running", "paused", "stopped", "completed", "failed", "interrupted"}

ASSUME ControlAssumption ==
    /\ Service = {}
    /\ Stopper \cap Deleter = {}
    /\ None \notin Action \cup [by : Process, status : Status]

VARIABLES
    registry,   \* the record in .monitors.json: is it there, and its pid
    session,    \* the monitor_sessions row, or None
    control,    \* the control file
    flag,       \* the STOP flag of each process
    phase,      \* how far each process is in main
    prep,       \* how far each start request is outside _spawn_monitor
    ask,        \* each stop, pause or delete request
    poll        \* each status request and what it read

ownVars == <<registry, session, control, flag, phase, prep, ask, poll>>
allVars == <<vars, ownVars>>

ControlTypeOK ==
    /\ registry \in [exists : BOOLEAN, pid : Process \cup {NoProcess}]
    /\ session \in [by : Process, status : Status] \cup {None}
    /\ control \in Action \cup {None}
    /\ flag \in [Process -> BOOLEAN]
    /\ phase \in [Process -> {"new", "claimed", "registered", "running", "completed",
                              "failed", "halted", "marked", "unregistered", "cleared"}]
    /\ prep \in [Start -> {"new", "checked", "cleared", "ready", "registered", "refused"}]
    /\ ask \in [Request -> [at : {"new", "stopping", "asked", "waiting", "finishing", "wiping",
                                  "removing", "unrecording", "done", "refused"},
                            action : Action, target : Process \cup {NoProcess}]]
    /\ poll \in [Poller -> [at : {"new", "read", "done"},
                            pid : Process \cup {NoProcess}, status : Status \cup {None}]]

ControlInit ==
    /\ Init
    /\ registry = [exists |-> TRUE, pid |-> NoProcess]
    /\ session = None
    /\ control = None
    /\ flag = [p \in Process |-> FALSE]
    /\ phase = [p \in Process |-> "new"]
    /\ prep = [s \in Start |-> "new"]
    /\ ask = [r \in Request |-> [at |-> "new", action |-> "stop", target |-> NoProcess]]
    /\ poll = [q \in Poller |-> [at |-> "new", pid |-> NoProcess, status |-> None]]

(* Seeded fault: a record that is gone is written again. *)
SetPidAlways(p) == registry' = [exists |-> TRUE, pid |-> p]

(* update_monitor_registry does nothing when the record is gone. *)
SetPid(p) == registry' = IF registry.exists THEN [registry EXCEPT !.pid = p] ELSE registry

SetStatus(status) ==
    session' = IF session = None THEN None ELSE [session EXCEPT !.status = status]

(* _runtime_status: the process of the claim or, without one, the live process *)
(* of the registry, which then gets the claim if it may have it.               *)
Sees(p) == ClaimRuns \/ p \in Alive
Adopts(p) == ~ClaimRuns /\ p \in Alive /\ Accepts(p, NoToken)

LooksAt(p) == IF Adopts(p) THEN Adopt(p) /\ control' = None ELSE UNCHANGED <<vars, control>>

-----------------------------------------------------------------------------
(* Start and resume requests. *)

(* A resume goes straight to the reservation. *)
Check(s) ==
    /\ prep[s] = "new" /\ registry.exists
    /\ LooksAt(registry.pid)
    /\ \/ Sees(registry.pid) /\ prep' = [prep EXCEPT ![s] = "refused"]
       \/ ~Sees(registry.pid) /\ prep' = [prep EXCEPT ![s] = "checked"]
       \/ /\ ~Sees(registry.pid) /\ session # None /\ session.status = "paused"
          /\ prep' = [prep EXCEPT ![s] = "ready"]
    /\ UNCHANGED <<registry, session, flag, phase, ask, poll>>

(* start_monitor clears the last run before it holds the reservation. *)
Clears(s) ==
    /\ prep[s] = "checked"
    /\ control' = None
    /\ prep' = [prep EXCEPT ![s] = "cleared"]
    /\ UNCHANGED <<vars, registry, session, flag, phase, ask, poll>>

Wipes(s) ==
    /\ prep[s] = "cleared"
    /\ session' = None
    /\ prep' = [prep EXCEPT ![s] = "ready"]
    /\ UNCHANGED <<vars, registry, control, flag, phase, ask, poll>>

ReadyReserve(s) ==
    /\ prep[s] = "ready"
    /\ Reserve(s)
    /\ UNCHANGED ownVars

InSpawn(s) ==
    /\ Spawn(s) \/ ClaimSeen(s) \/ Abandon(s) \/ KillChild(s) \/ LauncherCrash(s)
    /\ UNCHANGED ownVars

(* The launcher writes the number of its own child. *)
Register(s) ==
    /\ pc[s] = "started" /\ prep[s] = "ready"
    /\ SetPid(s)
    /\ prep' = [prep EXCEPT ![s] = "registered"]
    /\ UNCHANGED <<vars, session, control, flag, phase, ask, poll>>

-----------------------------------------------------------------------------
(* Monitor processes: main, with run_monitor as two steps (MonitorRun). *)

Move(p, from, to) == proc[p] = "owner" /\ phase[p] = from /\ phase' = [phase EXCEPT ![p] = to]

Claims(p) ==
    /\ Activate(p)
    /\ IF proc'[p] = "owner"
       THEN control' = None /\ phase' = [phase EXCEPT ![p] = "claimed"]
       ELSE UNCHANGED <<control, phase>>
    /\ UNCHANGED <<registry, session, flag, prep, ask, poll>>

Registers(p) ==
    /\ Move(p, "claimed", "registered")
    /\ SetPid(p)
    /\ UNCHANGED <<vars, session, control, flag, prep, ask, poll>>

OpensSession(p) ==
    /\ Move(p, "registered", "running")
    /\ session' = [by |-> p, status |-> "running"]
    /\ UNCHANGED <<vars, registry, control, flag, prep, ask, poll>>

(* _persist_session after each result. *)
Tallies(p) ==
    /\ proc[p] = "owner" /\ phase[p] = "running"
    /\ SetStatus("running")
    /\ UNCHANGED <<vars, registry, control, flag, phase, prep, ask, poll>>

Stopped == IF control = "pause" THEN "paused" ELSE "stopped"

EndsRun(p) ==
    /\ IF flag[p]
       THEN Move(p, "running", "halted") /\ SetStatus(Stopped)
       ELSE \E v \in {"completed", "failed"} : Move(p, "running", v) /\ SetStatus(v)
    /\ UNCHANGED <<vars, registry, control, flag, prep, ask, poll>>

(* An exception before the run, or a stop before it. *)
SkipsRun(p) ==
    /\ Move(p, "registered", IF flag[p] THEN "halted" ELSE "failed")
    /\ UNCHANGED <<vars, registry, session, control, flag, prep, ask, poll>>

Marks(p, final) ==
    /\ \E from \in {"completed", "failed", "halted"} : Move(p, from, "marked")
    /\ IF session # None /\ (session.status = "running" \/ final # "completed")
       THEN SetStatus(final) ELSE session' = session
    /\ UNCHANGED <<vars, registry, control, flag, prep, ask, poll>>

(* main reads STOP and the action, then _mark_session_exit. *)
MarksExit(p) == Marks(p, IF flag[p] THEN Stopped ELSE phase[p])

Unregisters(p) ==
    /\ Move(p, "marked", "unregistered")
    /\ SetPid(NoProcess)
    /\ UNCHANGED <<vars, session, control, flag, prep, ask, poll>>

Releases(p) ==
    /\ phase[p] = "unregistered"
    /\ Release(p)
    /\ UNCHANGED ownVars

(* clear_action comes after release_claim. *)
ClearsAction(p) ==
    /\ proc[p] = "released" /\ phase[p] = "unregistered"
    /\ control' = None
    /\ phase' = [phase EXCEPT ![p] = "cleared"]
    /\ UNCHANGED <<vars, registry, session, flag, prep, ask, poll>>

Exits(p) ==
    /\ proc[p] = "released" => phase[p] = "cleared"
    /\ Exit(p)
    /\ UNCHANGED ownVars

Crashes(p) == Die(p) /\ UNCHANGED ownVars

-----------------------------------------------------------------------------
(* Stop, pause and delete requests. *)

AskAt(r, at) == ask' = [ask EXCEPT ![r].at = at]

(* Pause wants a running monitor, stop a running or starting one, delete       *)
(* stops a running one first.                                                  *)
Looks(r) ==
    LET there(a) == Sees(registry.pid) \/ (a = "stop" /\ claim.state = "starting")
    IN  /\ registry.exists
        /\ LooksAt(registry.pid)
        /\ \/ /\ ask[r].at = "new" /\ r \in Stopper
              /\ \E a \in Action :
                    ask' = [ask EXCEPT ![r].at = IF there(a) THEN "asked" ELSE "refused",
                                       ![r].action = a]
           \/ /\ ask[r].at = "new" /\ r \in Deleter
              /\ AskAt(r, IF Sees(registry.pid) THEN "stopping" ELSE "wiping")
           \/ /\ ask[r].at = "stopping"
              /\ AskAt(r, IF there("stop") THEN "asked" ELSE "wiping")
        /\ UNCHANGED <<registry, session, flag, phase, prep, poll>>

(* request_action in _stop_monitor. *)
Asks(r) ==
    /\ ask[r].at = "asked" /\ control # ask[r].action
    /\ control' = ask[r].action
    /\ UNCHANGED <<vars, registry, session, flag, phase, prep, ask, poll>>

(* terminate_process: the action again, then SIGTERM to the claimed process.   *)
Signals(r) ==
    /\ ask[r].at = "asked"
    /\ control' = ask[r].action
    /\ IF ClaimRuns
       THEN /\ flag' = [flag EXCEPT ![claim.born] = TRUE]
            /\ ask' = [ask EXCEPT ![r].at = "waiting", ![r].target = claim.born]
       ELSE flag' = flag /\ AskAt(r, "finishing")
    /\ UNCHANGED <<vars, registry, session, phase, prep, poll>>

Gone(r) ==
    /\ ask[r].at = "waiting" /\ ask[r].target \notin Alive
    /\ AskAt(r, "finishing")
    /\ UNCHANGED <<vars, registry, session, control, flag, phase, prep, poll>>

(* Seeded fault: there is no kill fallback. *)
KillsNever(r) == FALSE

Kills(r) ==
    /\ ask[r].at = "waiting" /\ ask[r].target \in Alive
    /\ Die(ask[r].target)
    /\ UNCHANGED ownVars

(* Seeded fault: whatever was asked for is written as a stop. *)
FinishesStopped(r) ==
    /\ ask[r].at = "finishing"
    /\ SetPid(NoProcess)
    /\ SetStatus("stopped")
    /\ AskAt(r, IF r \in Deleter THEN "wiping" ELSE "done")
    /\ UNCHANGED <<vars, control, flag, phase, prep, poll>>

(* Seeded fault: the claim is removed whoever has it by now. *)
FinishesReleasing(r) ==
    /\ ask[r].at = "finishing"
    /\ SetPid(NoProcess)
    /\ SetStatus(IF ask[r].action = "pause" THEN "paused" ELSE "stopped")
    /\ AskAt(r, IF r \in Deleter THEN "wiping" ELSE "done")
    /\ claim' = NoClaim
    /\ UNCHANGED <<pc, proc, pid, carried, control, flag, phase, prep, poll>>

(* _stop_monitor writes what it was asked for. *)
Finishes(r) ==
    /\ ask[r].at = "finishing"
    /\ SetPid(NoProcess)
    /\ SetStatus(IF ask[r].action = "pause" THEN "paused" ELSE "stopped")
    /\ AskAt(r, IF r \in Deleter THEN "wiping" ELSE "done")
    /\ UNCHANGED <<vars, control, flag, phase, prep, poll>>

WipesSession(r) ==
    /\ ask[r].at = "wiping"
    /\ session' = None
    /\ AskAt(r, "removing")
    /\ UNCHANGED <<vars, registry, control, flag, phase, prep, poll>>

(* remove_runtime_files takes no lock and looks at no claim; one step for all *)
(* its files.                                                                 *)
RemovesFiles(r) ==
    /\ ask[r].at = "removing"
    /\ claim' = NoClaim
    /\ control' = None
    /\ AskAt(r, "unrecording")
    /\ UNCHANGED <<pc, proc, pid, carried, registry, session, flag, phase, prep, poll>>

Unrecords(r) ==
    /\ ask[r].at = "unrecording"
    /\ registry' = [exists |-> FALSE, pid |-> NoProcess]
    /\ AskAt(r, "done")
    /\ UNCHANGED <<vars, session, control, flag, phase, prep, poll>>

(* create_monitor under the same name. *)
Create ==
    /\ ~registry.exists
    /\ registry' = [exists |-> TRUE, pid |-> NoProcess]
    /\ UNCHANGED <<vars, session, control, flag, phase, prep, ask, poll>>

-----------------------------------------------------------------------------
(* Status requests: the registry and the session rows are read first, the      *)
(* claim file later, and what was read is written back.                        *)

Reads(q) ==
    /\ poll[q].at = "new" /\ registry.exists
    /\ poll' = [poll EXCEPT ![q] =
                   [at |-> "read", pid |-> registry.pid,
                    status |-> IF session = None THEN None ELSE session.status]]
    /\ UNCHANGED <<vars, registry, session, control, flag, phase, prep, ask>>

PollDone(q) == poll' = [poll EXCEPT ![q].at = "done"]

(* Then _runtime_status, and _mark_interrupted. *)
Judges(q) ==
    /\ poll[q].at = "read"
    /\ poll' = [poll EXCEPT ![q].at = "done"]
    /\ LooksAt(poll[q].pid)
    /\ IF Sees(poll[q].pid) \/ claim.state = "starting" \/ poll[q].pid = NoProcess
       THEN UNCHANGED <<registry, session>>
       ELSE /\ SetPid(NoProcess)
            /\ IF poll[q].status = "running" THEN SetStatus("interrupted")
                                             ELSE session' = session
    /\ UNCHANGED <<flag, phase, prep, ask>>

-----------------------------------------------------------------------------
StartRequest(s) == Check(s) \/ Clears(s) \/ Wipes(s) \/ ReadyReserve(s) \/ InSpawn(s) \/ Register(s)

MonitorProcess(p) ==
    \/ Claims(p) \/ Registers(p) \/ OpensSession(p) \/ Tallies(p) \/ EndsRun(p)
    \/ SkipsRun(p) \/ MarksExit(p) \/ Unregisters(p) \/ Releases(p) \/ ClearsAction(p) \/ Exits(p)

StopRequest(r) ==
    \/ Looks(r) \/ Asks(r) \/ Signals(r) \/ Gone(r) \/ Kills(r) \/ Finishes(r)
    \/ WipesSession(r) \/ RemovesFiles(r) \/ Unrecords(r)

Ticks == Expire /\ UNCHANGED ownVars
Launches(m) == LaunchManual(m) /\ UNCHANGED ownVars

ControlNext ==
    \/ \E s \in Start : StartRequest(s)
    \/ \E m \in Manual : Launches(m)
    \/ \E p \in Process : MonitorProcess(p) \/ Crashes(p)
    \/ \E r \in Request : StopRequest(r)
    \/ \E q \in Poller : Reads(q) \/ Judges(q)
    \/ Create \/ Ticks

ControlSpec == ControlInit /\ [][ControlNext]_allVars

(* Requests are carried through; nothing is assumed of the processes. *)
FairControlSpec ==
    /\ ControlSpec
    /\ \A r \in Request : WF_allVars(StopRequest(r))
    /\ \A s \in Start : WF_allVars(StartRequest(s))

-----------------------------------------------------------------------------
(* A process writes the status of the run it is in to its own session row, or  *)
(* to none: whoever launches, resumes or is adopted meanwhile, no other row     *)
(* takes its tallies (_persist_session looks for the id only).                  *)
RowIsOwn ==
    \A p \in Owners : phase[p] \in {"running", "completed"} => session = None \/ session.by = p

(* When a pause request has been answered, the session its process ran can be  *)
(* resumed, whatever starts overlap with it and whichever process clears the   *)
(* control file first: it is paused, or a resume has failed before its run.    *)
(* Only a status poll that had read the row while it ran, and another stop or  *)
(* pause, may take that back.                                                  *)
PauseHolds ==
    \A r \in Stopper :
        /\ ask[r].at = "done" /\ ask[r].action = "pause"
        /\ session # None /\ session.by = ask[r].target
        => \/ session.status \in {"paused", "failed"}
           \/ /\ session.status = "interrupted"
              /\ \E q \in Poller : poll[q].at = "done" /\ poll[q].status = "running"
           \/ /\ session.status = "stopped"
              /\ \E q \in Stopper \ {r} : ask[q].at \notin {"new", "refused"}

(* A run tallies its own row, a pause holds, no file or row says what no writer *)
(* means.                                                                       *)
ControlSound == ControlTypeOK /\ RowIsOwn /\ PauseHolds

(* Neither a leaving process nor a late request brings a deleted profile back: *)
(* a record appears only when one is created (update_monitor_registry).        *)
NotResurrected ==
    [][~registry.exists /\ registry'.exists => registry'.pid = NoProcess /\ ask' = ask
                                               /\ phase' = phase /\ prep' = prep]_allVars

(* A stop, pause or delete request that was taken up is answered, whether or   *)
(* not the process reacts to the signal (terminate_process).                   *)
Answered ==
    \A r \in Request : ask[r].at = "asked" ~> ask[r].at = "done"

(* proxy_monitor/lifecycle.py: "start reservations to reject concurrent        *)
(* launches".                                                                  *)
LaunchesRejected == OneOwner
=============================================================================
