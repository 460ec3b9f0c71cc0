----------------------------- MODULE MonitorProfile -----------------------------
(***************************************************************************)
(* The profiles of monitors in .monitors.json and the systemd units some of *)
(* them run as: the rules a profile goes through (secproxy_core/monitor.py),*)
(* the command line its monitor is started with (proxy_monitor/config.py),  *)
(* and the requests that write it (secproxy_core/monitor_service.py).       *)
(* The claims of the processes are in MonitorClaim and MonitorControl: here *)
(* a start is one look at the profile and one step that leaves it running.  *)
(* The program runs as root, as units require.                              *)
(***************************************************************************)
EXTENDS Integers, FiniteSets

CONSTANTS
    Name,       \* names of profiles
    SafeName,   \* _safe_name, which the id of a monitor is made of
    Dashed,     \* the names that a command line takes for an option
    Wanted,     \* what requests may say: functions from some fields to values
    Proxies,    \* records of the proxies table
    Caller,     \* requests at work: in the dashboard, at the command line
    Url,        \* lists of check URLs that are public
    UnitReads,  \* what systemd makes of a name or of URLs in a unit
    Empty       \* a field that is empty, or null

(* "threads" stands for the numbers that have a range; "urls" for check_urls. *)
Entry == {"name", "protocol", "status", "urls", "threads", "run_mode",
          "schedule_time", "schedule_days", "geo", "create_service"}

Id == {SafeName[n] : n \in Name}

MonitorProtocol == {"http", "https", "socks4", "socks5"}
MonitorStatus == {"untested", "alive", "soft", "flaky", "cooling", "dead", "revived", "semi-revived"}
RunMode == {"once", "infinite", "restart", "schedule", "custom"}
Time == {"midnight", "noon"}
Day == {"daily", "weekdays", "weekends", "mon", "sun"}

(* The profiles that may be saved, and their records in the file. *)
Profile ==
    [name : Name, protocol : SUBSET MonitorProtocol, status : SUBSET MonitorStatus,
     urls : Url \cup {Empty}, threads : 1..200, run_mode : RunMode,
     schedule_time : Time \cup {Empty}, schedule_days : (SUBSET Day) \ {{}},
     geo : {"true", "false"}, create_service : {"yes", "no"}]

Record == [profile : Profile, service : Id \cup {Empty}]

ASSUME MonitorAssumption ==
    /\ IsFiniteSet(Name) /\ Dashed \subseteq Name /\ DOMAIN SafeName = Name
    /\ Empty \notin Name \cup Id \cup Url \cup RunMode \cup Time \cup {"true", "false"}
    /\ \A S \in (SUBSET MonitorProtocol) \cup (SUBSET MonitorStatus) \cup (SUBSET Day) : S # Empty
    /\ Empty \notin 1..200 /\ Empty \notin Record
    /\ \A data \in Wanted : DOMAIN data \subseteq Entry
    /\ \A r \in Proxies : DOMAIN r = {"protocol", "status"}
    /\ DOMAIN UnitReads = Name \cup Url

VARIABLES
    records,    \* .monitors.json: [profile, service], or Empty
    running,    \* what the monitor of this id runs with: [profile, unit], or Empty
    paused,     \* the ids with a paused session
    units,      \* the unit files, by the id in their name and command line
    request     \* what each caller has looked up: [kind, id, profile], or Empty

monitorVars == <<records, running, paused, units, request>>

Invalid == [invalid |-> TRUE]

Known == {i \in Id : records[i] # Empty}
Made == {i \in Id : units[i] # Empty}

MonitorTypeOK ==
    /\ records \in [Id -> Record \cup {Empty}]
    /\ running \in [Id -> [profile : Profile, unit : BOOLEAN] \cup {Empty}]
    /\ paused \subseteq Id
    /\ units \in [Id -> Profile \cup {Empty}]
    /\ request \in [Caller -> [kind : {"update", "start"}, id : Id, profile : Profile] \cup {Empty}]

MonitorInit ==
    /\ records = [i \in Id |-> Empty] /\ running = [i \in Id |-> Empty]
    /\ paused = {} /\ units = [i \in Id |-> Empty] /\ request = [u \in Caller |-> Empty]

-----------------------------------------------------------------------------
(* The rules.                                                                *)

Usual ==
    [f \in Entry |->
        CASE f = "threads" -> 50
          [] f = "run_mode" -> "once"
          [] f = "schedule_days" -> {"daily"}
          [] f = "geo" -> "true"
          [] f = "create_service" -> "no"
          [] f \in {"protocol", "status"} -> {}
          [] OTHER -> Empty]

(* What is not given stays; a number, a mode or days given as nothing become what *)
(* they usually are, not what they were.                                          *)
Taken(data, old, f) ==
    LET v == IF f \in DOMAIN data THEN data[f] ELSE IF old # Empty THEN old[f] ELSE Usual[f]
    IN  IF v = Empty /\ f \in {"threads", "run_mode", "schedule_days"} THEN Usual[f] ELSE v

Bounded(n) == n \in 1..200

(* At most five, and public. *)
CheckUrls(urls) == urls \in Url \cup {Empty}

ScheduleDays(days) == days # {} /\ days \subseteq Day

Allowed(p) ==
    /\ p.name \in Name
    /\ p.protocol \subseteq MonitorProtocol /\ p.status \subseteq MonitorStatus
    /\ CheckUrls(p.urls) /\ Bounded(p.threads) /\ p.run_mode \in RunMode
    /\ p.schedule_time \in Time \cup {Empty} /\ ScheduleDays(p.schedule_days)
    /\ p.geo \in {"true", "false"} /\ p.create_service \in {"yes", "no"}

(* _normalize_profile. *)
NormalProfile(data, old) ==
    LET t == [f \in Entry |-> Taken(data, old, f)]
        p == [t EXCEPT !.schedule_time = IF t.run_mode = "schedule" /\ @ = Empty THEN "midnight" ELSE @]
    IN  IF Allowed(p) THEN p ELSE Invalid

-----------------------------------------------------------------------------
(* The command line.                                                         *)

Flag == Entry \ {"create_service"}

(* _build_args: what is empty is left out. *)
BuildArgs(p) ==
    [f \in {g \in Flag : p[g] # Empty /\ (g \in {"protocol", "status"} => p[g] # {})} |-> p[f]]

InUnit(p) == p.create_service = "yes"

(* _write_service quotes each word as for a shell.  systemd has rules of its own: *)
(* it puts something else for a %, a $ and a backslash.                           *)
Handed(p) ==
    LET args == BuildArgs(p)
    IN  IF InUnit(p) THEN [f \in DOMAIN args |-> IF f \in {"name", "urls"} THEN UnitReads[args[f]] ELSE args[f]]
        ELSE args

ValueOf(args, f, usual) == IF f \in DOMAIN args THEN args[f] ELSE usual

(* parse_args; a value that looks like an option is not taken for one. *)
ParseArgs(args) ==
    IF /\ ValueOf(args, "name", Empty) \notin Dashed
       /\ Bounded(ValueOf(args, "threads", 50)) /\ ValueOf(args, "run_mode", "once") \in RunMode
       /\ ValueOf(args, "schedule_time", Empty) \in Time \cup {Empty}
       /\ ValueOf(args, "geo", "true") \in {"true", "false"}
    THEN [f \in Flag |-> ValueOf(args, f, Usual[f])] ELSE Invalid

HasStatus(statuses, r) ==
    statuses = {} \/ (IF r.status = Empty THEN "untested" ELSE r.status) \in statuses

(* _filtered_proxy_query, what _proxy_count and _candidate_preview count. *)
Shown(p) ==
    {r \in Proxies : (p.protocol = {} \/ r.protocol \in p.protocol) /\ HasStatus(p.status, r)}

-----------------------------------------------------------------------------
(* The requests.                                                             *)

IdOf(p) == SafeName[p.name]

CreatesMonitor(data) ==
    LET p == NormalProfile(data, Empty)
    IN  /\ p # Invalid /\ records[IdOf(p)] = Empty
        /\ records' = [records EXCEPT ![IdOf(p)] = [profile |-> p, service |-> Empty]]
        /\ UNCHANGED <<running, paused, units, request>>

(* The create command has a value for every option. *)
CreateMonitorCommand(data) == CreatesMonitor([f \in Entry |-> ValueOf(data, f, Usual[f])])

(* update_monitor: not while it runs or is paused; the profile is made of the record *)
(* as it is now.                                                                     *)
UpdateLooks(u, i, data) ==
    LET p == NormalProfile(data, records[i].profile)
    IN  /\ request[u] = Empty /\ i \in Known /\ running[i] = Empty /\ i \notin paused
        /\ p # Invalid
        /\ request' = [request EXCEPT ![u] = [kind |-> "update", id |-> i, profile |-> p]]
        /\ UNCHANGED <<records, running, paused, units>>

(* The edit command sends the options it was given, and wants one. *)
EditMonitorCommand(u, i, data) == DOMAIN data # {} /\ UpdateLooks(u, i, data)

(* update_monitor_registry: a record that is gone stays gone. *)
UpdateSaves(u) ==
    LET i == request[u].id
    IN  /\ request[u] # Empty /\ request[u].kind = "update" /\ IdOf(request[u].profile) = i
        /\ records' = IF i \in Known THEN [records EXCEPT ![i].profile = request[u].profile] ELSE records
        /\ request' = [request EXCEPT ![u] = Empty]
        /\ UNCHANGED <<running, paused, units>>

(* Seeded fault: the new id is not looked for. *)
UpdateRenamesOver(u) ==
    LET i == request[u].id
        j == IdOf(request[u].profile)
    IN  /\ request[u] # Empty /\ request[u].kind = "update" /\ j # i
        /\ records' = IF i \in Known
                      THEN [records EXCEPT ![i] = Empty,
                                           ![j] = [records[i] EXCEPT !.profile = request[u].profile]]
                      ELSE records
        /\ request' = [request EXCEPT ![u] = Empty]
        /\ UNCHANGED <<running, paused, units>>

(* rename_monitor_record: the record as it is by now, unless it is gone or the new *)
(* id is taken.                                                                    *)
UpdateRenames(u) ==
    LET i == request[u].id
        j == IdOf(request[u].profile)
    IN  /\ request[u] # Empty /\ request[u].kind = "update" /\ j # i
        /\ records' = IF i \in Known /\ j \notin Known
                      THEN [records EXCEPT ![i] = Empty,
                                           ![j] = [records[i] EXCEPT !.profile = request[u].profile]]
                      ELSE records
        /\ request' = [request EXCEPT ![u] = Empty]
        /\ UNCHANGED <<running, paused, units>>

(* start_monitor, up to _spawn_monitor: the session is deleted. *)
StartLooks(u, i) ==
    /\ request[u] = Empty /\ i \in Known /\ running[i] = Empty
    /\ records[i].profile.run_mode = "once" => Shown(records[i].profile) # {}
    /\ request' = [request EXCEPT ![u] = [kind |-> "start", id |-> i, profile |-> records[i].profile]]
    /\ paused' = paused \ {i}
    /\ UNCHANGED <<records, running, units>>

(* resume_monitor. *)
ResumeLooks(u, i) ==
    /\ request[u] = Empty /\ i \in Known /\ running[i] = Empty /\ i \in paused
    /\ request' = [request EXCEPT ![u] = [kind |-> "start", id |-> i, profile |-> records[i].profile]]
    /\ UNCHANGED <<records, running, paused, units>>

(* _write_service: the unit has the name of the id. *)
Written(i, p) == IF InUnit(p) THEN [units EXCEPT ![i] = p] ELSE units

(* _spawn_monitor: the record, if there is one, names the unit, or none.  The *)
(* process starts if it makes sense of its command line.                      *)
Spawns(u) ==
    LET i == request[u].id
        p == request[u].profile
    IN  /\ request[u] # Empty /\ request[u].kind = "start" /\ running[i] = Empty
        /\ ParseArgs(Handed(p)) # Invalid
        /\ units' = Written(i, p)
        /\ running' = [running EXCEPT ![i] = [profile |-> p, unit |-> InUnit(p)]]
        /\ records' = IF i \in Known
                      THEN [records EXCEPT ![i].service = IF InUnit(p) THEN i ELSE Empty] ELSE records
        /\ paused' = paused \ {i} /\ request' = [request EXCEPT ![u] = Empty]

(* A monitor that runs by now, or a process that ends at once: the unit stays. *)
SpawnFails(u) ==
    LET i == request[u].id
    IN  /\ request[u] # Empty /\ request[u].kind = "start"
        /\ units' = IF running[i] = Empty THEN Written(i, request[u].profile) ELSE units
        /\ request' = [request EXCEPT ![u] = Empty]
        /\ UNCHANGED <<records, running, paused>>

(* The monitor is done, stopped or paused. *)
MonitorEnds(i) ==
    /\ running[i] # Empty /\ running' = [running EXCEPT ![i] = Empty]
    /\ paused' \in {paused, paused \cup {i}}
    /\ UNCHANGED <<records, units, request>>

(* _remove_service_for_record stops what the unit runs. *)
StoppedWith(v) == IF running[v] # Empty /\ running[v].unit THEN [running EXCEPT ![v] = Empty] ELSE running

RemovesService(i) ==
    /\ i \in Known /\ records[i].service # Empty
    /\ units' = [units EXCEPT ![records[i].service] = Empty]
    /\ running' = StoppedWith(records[i].service)
    /\ records' = [records EXCEPT ![i].service = Empty]
    /\ UNCHANGED <<paused, request>>

(* delete_monitor. *)
DeletesMonitor(i) ==
    LET v == records[i].service
    IN  /\ i \in Known
        /\ units' = IF v = Empty THEN units ELSE [units EXCEPT ![v] = Empty]
        /\ running' = [(IF v = Empty THEN running ELSE StoppedWith(v)) EXCEPT ![i] = Empty]
        /\ records' = [records EXCEPT ![i] = Empty] /\ paused' = paused \ {i}
        /\ UNCHANGED request

MonitorNext ==
    \/ \E data \in Wanted : CreatesMonitor(data) \/ CreateMonitorCommand(data)
    \/ \E u \in Caller, i \in Id :
          \/ \E data \in Wanted : UpdateLooks(u, i, data) \/ EditMonitorCommand(u, i, data)
          \/ StartLooks(u, i) \/ ResumeLooks(u, i)
    \/ \E u \in Caller : UpdateSaves(u) \/ UpdateRenames(u) \/ Spawns(u) \/ SpawnFails(u)
    \/ \E i \in Id : MonitorEnds(i) \/ RemovesService(i) \/ DeletesMonitor(i)

MonitorSpec == MonitorInit /\ [][MonitorNext]_monitorVars

-----------------------------------------------------------------------------
(* The id of a monitor, which its claim, session, progress and log go by, is  *)
(* made of the name its profile shows, whatever updates overtake each other.  *)
NameFits == \A i \in Known : IdOf(records[i].profile) = i

(* What systemd hands on as it is written. *)
ReadAsWritten(p) == InUnit(p) => \A f \in {"name", "urls"} : p[f] = Empty \/ UnitReads[p[f]] = p[f]

(* The monitor of a saved profile can be started and is told what the profile *)
(* says.  Left apart are a name that begins with a dash, which the command    *)
(* line takes for an option, so that it never starts, and in a unit a name or *)
(* URLs of which systemd makes something else.                                *)
StartsAsSaved ==
    \A i \in Known : LET p == records[i].profile
                     IN  p.name \notin Dashed /\ ReadAsWritten(p) =>
                             ParseArgs(Handed(p)) = [f \in Flag |-> p[f]]

(* No profile is lost to another: only deleting one makes them fewer. *)
NoneOverwritten ==
    [][Cardinality(Known') >= Cardinality(Known) \/ \E i \in Id : DeletesMonitor(i)]_monitorVars

(* A saved profile has its own id and starts as it says. *)
MonitorStartsAsSaved == MonitorTypeOK /\ NameFits /\ StartsAsSaved
=============================================================================
