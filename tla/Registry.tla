-------------------------------- MODULE Registry --------------------------------
(***************************************************************************)
(* The server profiles of .servers.json (secproxy_core/config_store.py,    *)
(* dashboard/config.py, secproxy_core/server_service.py and                *)
(* dashboard/routes/server.py).  Each load and each save of the file holds *)
(* its lock, what lies between them does not.  How one process owns a port *)
(* is the matter of ServerClaim; here a server runs or it does not.        *)
(***************************************************************************)
EXTENDS FiniteSets

CONSTANTS
    Port,
    Config,     \* what a profile says, after _normalize_server_config
    Caller,     \* requests of the dashboard and commands
    Missing

Profile == [pid : BOOLEAN, config : Config]

ASSUME RegistryAssumption == Missing \notin Port \cup Config \cup Profile

VARIABLES
    file,       \* the profile of each port, or Missing
    runs,       \* the configuration the server of each port was started with, or Missing
    reserved,   \* ports with a reservation to start
    call,       \* each request
    said,       \* observation: ports whose profile was the last thing promised
    mixed,      \* observation: one saved while another had loaded and not saved
    crossed     \* observation: ports two requests were about at once, or one was given up

registryVars == <<file, runs, reserved, call, said, mixed, crossed>>

File == [Port -> Profile \cup {Missing}]
Whats == {"create", "update", "start", "stop", "delete", "poll"}
NoCall == [at |-> "idle", what |-> "poll", port |-> Missing, config |-> Missing, copy |-> Missing]

RegistryTypeOK ==
    /\ file \in File /\ runs \in [Port -> Config \cup {Missing}]
    /\ reserved \subseteq Port /\ said \subseteq Port /\ crossed \subseteq Port /\ mixed \in BOOLEAN
    /\ \A c \in Caller :
          /\ call[c].at \in {"idle", "stop", "reserve", "spawn", "reload", "judge", "write"}
          /\ call[c].at \in {"judge", "write"} => call[c].copy \in File

RegistryInit ==
    /\ file \in [Port -> {Missing} \cup [pid : {FALSE}, config : Config]]
    /\ runs = [p \in Port |-> Missing] /\ reserved = {}
    /\ call = [c \in Caller |-> NoCall]
    /\ said = {p \in Port : file[p] # Missing} /\ mixed = FALSE /\ crossed = {}

-----------------------------------------------------------------------------
Listed(p) == file[p] # Missing
Serving(p) == runs[p] # Missing

(* _load_json_config: the file as it is. *)
Loaded == file

Arrives(c, what, p, config, at) ==
    /\ call[c].at = "idle"
    /\ call' = [call EXCEPT ![c] = [at |-> at, what |-> what, port |-> p, config |-> config,
                                 copy |-> IF at \in {"judge", "write"} THEN Loaded ELSE Missing]]
    /\ crossed' = IF \E d \in Caller \ {c} : p \in Port /\ call[d].at # "idle" /\ call[d].port = p
                  THEN crossed \cup {p} ELSE crossed
    /\ UNCHANGED <<file, runs, reserved, said, mixed>>

Answered(c) == call' = [call EXCEPT ![c] = NoCall]

(* Seeded fault: what runs is none of delete's business. *)
AnyDeletable(p) == TRUE
Deletable(p) == ~Serving(p)

(* Seeded fault: an update leaves the server alone. *)
UpdateAt(p) == "reload"
(* snapshot(...)["running"]: a running server is stopped before its profile changes. *)
FirstOfUpdate(p) == IF Serving(p) THEN "stop" ELSE "reload"

CreateLoads(c, p, config) == ~Listed(p) /\ Arrives(c, "create", p, config, "write")
UpdateLoads(c, p, config) == Listed(p) /\ Arrives(c, "update", p, config, FirstOfUpdate(p))
StopLoads(c, p) == Listed(p) /\ Arrives(c, "stop", p, Missing, "stop")
DeleteLoads(c, p) == Listed(p) /\ Deletable(p) /\ Arrives(c, "delete", p, Missing, "write")

(* The dashboard starts a server it has no profile of, and with another *)
(* configuration than the saved one; the command line only what is saved. *)
StartLoads(c, p, config) == Arrives(c, "start", p, config, "reserve")
SavedStartLoads(c, p) == Listed(p) /\ StartLoads(c, p, file[p].config)

PollLoads(c) == Arrives(c, "poll", Missing, Missing, "judge")

-----------------------------------------------------------------------------
Step(c, at) == call' = [call EXCEPT ![c].at = at]

(* terminate: the reservation of another goes with it. *)
Stops(c) ==
    /\ call[c].at = "stop" /\ Step(c, "reload")
    /\ runs' = [runs EXCEPT ![call[c].port] = Missing]
    /\ reserved' = reserved \ {call[c].port}
    /\ UNCHANGED <<file, said, mixed, crossed>>

StopFails(c) ==
    /\ call[c].at = "stop" /\ Serving(call[c].port) /\ Answered(c)
    /\ UNCHANGED <<file, runs, reserved, said, mixed, crossed>>

Reserves(c) ==
    /\ call[c].at = "reserve"
    /\ IF Serving(call[c].port) \/ call[c].port \in reserved
       THEN Answered(c) /\ reserved' = reserved
       ELSE Step(c, "spawn") /\ reserved' = reserved \cup {call[c].port}
    /\ UNCHANGED <<file, runs, said, mixed, crossed>>

(* The child claims the port and serves what the runtime profile says. *)
Serves(c) ==
    /\ call[c].at = "spawn" /\ ~Serving(call[c].port) /\ Step(c, "reload")
    /\ runs' = [runs EXCEPT ![call[c].port] = call[c].config]
    /\ reserved' = reserved \ {call[c].port}
    /\ UNCHANGED <<file, said, mixed, crossed>>

StartFails(c) ==
    /\ call[c].at = "spawn" /\ Answered(c)
    /\ reserved' = reserved \ {call[c].port}
    /\ UNCHANGED <<file, runs, said, mixed, crossed>>

(* After the wait the file is loaded again; a stop finds nothing to change when *)
(* the profile is gone.                                                         *)
Reloads(c) ==
    /\ call[c].at = "reload"
    /\ IF call[c].what = "stop" /\ ~Listed(call[c].port)
       THEN Answered(c)
       ELSE call' = [call EXCEPT ![c].at = "write", ![c].copy = Loaded]
    /\ UNCHANGED <<file, runs, reserved, said, mixed, crossed>>

(* The status route asks of each port whether its server runs, forgets the pids *)
(* of those that do not, and saves all it had loaded when there was one.        *)
Judges(c) ==
    LET copy == call[c].copy
        stale == {p \in Port : copy[p] # Missing /\ copy[p].pid /\ ~Serving(p)}
    IN /\ call[c].at = "judge"
       /\ IF stale = {}
          THEN Answered(c)
          ELSE call' = [call EXCEPT ![c].at = "write", ![c].copy =
                  [p \in Port |-> IF p \in stale THEN [copy[p] EXCEPT !.pid = FALSE] ELSE copy[p]]]
       /\ UNCHANGED <<file, runs, reserved, said, mixed, crossed>>

(* What the request puts in its port. *)
Entry(r) ==
    CASE r.what \in {"create", "update"} -> [pid |-> FALSE, config |-> r.config]
      [] r.what = "start" -> [pid |-> TRUE, config |-> r.config]
      [] r.what = "stop" -> [r.copy[r.port] EXCEPT !.pid = FALSE]
      [] r.what = "delete" -> Missing

(* The whole file is written. *)
Saves(c) ==
    LET r == call[c]
    IN /\ r.at = "write"
       /\ file' = IF r.what = "poll" THEN r.copy ELSE [r.copy EXCEPT ![r.port] = Entry(r)]
       /\ said' = IF r.what \in {"create", "update", "start"} THEN said \cup {r.port}
                  ELSE IF r.what = "delete" THEN said \ {r.port} ELSE said
       /\ mixed' = (mixed \/ \E d \in Caller \ {c} : call[d].at \in {"judge", "write"})
       /\ Answered(c)
       /\ UNCHANGED <<runs, reserved, crossed>>

(* A request is given up on the way: an exception, or its process dies. *)
Raises(c) ==
    /\ call[c].at \in {"reserve", "spawn", "reload", "write"} /\ Answered(c)
    /\ reserved' = IF call[c].at = "spawn" THEN reserved \ {call[c].port} ELSE reserved
    /\ crossed' = IF call[c].port = Missing THEN crossed ELSE crossed \cup {call[c].port}
    /\ UNCHANGED <<file, runs, said, mixed>>

ServerDies(p) ==
    /\ Serving(p) /\ runs' = [runs EXCEPT ![p] = Missing]
    /\ UNCHANGED <<file, reserved, call, said, mixed, crossed>>

RegistryNext ==
    \/ \E c \in Caller :
          \/ PollLoads(c)
          \/ \E p \in Port :
                \/ StopLoads(c, p) \/ DeleteLoads(c, p) \/ SavedStartLoads(c, p)
                \/ \E config \in Config : CreateLoads(c, p, config) \/ UpdateLoads(c, p, config) \/ StartLoads(c, p, config)
          \/ Stops(c) \/ StopFails(c) \/ Reserves(c) \/ Serves(c) \/ StartFails(c)
          \/ Reloads(c) \/ Judges(c) \/ Saves(c) \/ Raises(c)
    \/ \E p \in Port : ServerDies(p)

RegistrySpec == RegistryInit /\ [][RegistryNext]_registryVars

-----------------------------------------------------------------------------
Busy(p) == \E c \in Caller : call[c].at # "idle" /\ call[c].port = p

(* A server serves what its profile says: a profile is not changed or deleted *)
(* under a running server, and a start records what it started.  Not promised *)
(* while a request about the port is on its way, to ports that two were about *)
(* at once or one was given up for, nor after two saved over each other.      *)
ServesItsProfile ==
    \A p \in Port : Serving(p) =>
        (Listed(p) /\ file[p].config = runs[p]) \/ Busy(p) \/ p \in crossed \/ mixed

(* A profile that was created, updated or started stays listed until it is *)
(* deleted, whatever happens to other ports meanwhile.                     *)
ProfileStays == said \subseteq {p \in Port : Listed(p)} \cup crossed \/ mixed

(* Whatever requests load and save the file of profiles at once, it keeps what *)
(* was promised, and running servers go by it.                                 *)
ProfilesKept == RegistryTypeOK /\ ServesItsProfile /\ ProfileStays
=============================================================================
