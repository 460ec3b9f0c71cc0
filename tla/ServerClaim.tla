------------------------------ MODULE ServerClaim ------------------------------
(***************************************************************************)
(* One proxy server profile: the runtime claim of proxy_server/lifecycle.py,*)
(* the server processes (proxy_server/app.py) that claim and release it,    *)
(* and the start, stop and update requests of secproxy_core/                *)
(* server_service.py.  Each body run under server_lock is one step.         *)
(* Unlike a monitor's, a server's claim is often released without naming    *)
(* the process it is released for.                                          *)
(***************************************************************************)
EXTENDS FiniteSets

CONSTANTS
    Start,      \* start requests; each is its own token and names its child
    Manual,     \* processes launched by hand, without token and profile file
    Stopper,    \* stop, update and delete requests
    Pid,        \* process numbers the kernel may give, and give again
    NoToken, NoPid, NoProcess

Process == Start \cup Manual
Request == Start \cup Stopper

ASSUME ServerAssumption ==
    /\ Start \cap Manual = {} /\ Start \cap Stopper = {}
    /\ NoToken \notin Start /\ NoPid \notin Pid /\ NoProcess \notin Process

VARIABLES
    claim,      \* the state file of the server
    profile,    \* is there a runtime profile file
    at,         \* how far each request is
    target,     \* the process a request is terminating
    proc,       \* where each process is
    pid,        \* the number each live process has
    wiped       \* observation: owners whose claim was released by others

vars == <<claim, profile, at, target, proc, pid, wiped>>

Claim == [state : {"none", "starting", "running"}, token : Start \cup {NoToken},
          fresh : BOOLEAN, pid : Pid \cup {NoPid}, born : Process \cup {NoProcess}]

(* "saving": the claim was seen and the configuration is being saved.  "look"  *)
(* to "clear": in terminate.  "raise": in the except branch of a start.        *)
RequestState == {"idle", "reserved", "written", "waiting", "saving", "look", "signal", "wait",
                 "clear", "delete", "tidy", "raise", "done", "failed", "conflict", "crashed"}

(* "booting": before its profile is read.  "parsed": before claim().  "owner":  *)
(* claimed, SIGTERM still deadly.  "leaving", "rejected": in the finally of     *)
(* main, with and without having claimed.                                       *)
ProcessState == {"none", "booting", "parsed", "owner", "serving", "leaving", "rejected",
                 "ended", "lost"}

TypeOK ==
    /\ claim \in Claim
    /\ profile \in BOOLEAN
    /\ at \in [Request -> RequestState]
    /\ target \in [Request -> Process \cup {NoProcess}]
    /\ proc \in [Process -> ProcessState]
    /\ pid \in [Process -> Pid \cup {NoPid}]
    /\ wiped \subseteq Process

-----------------------------------------------------------------------------
NoClaim == [state |-> "none", token |-> NoToken, fresh |-> FALSE,
            pid |-> NoPid, born |-> NoProcess]

Starting(s) == [NoClaim EXCEPT !.state = "starting", !.token = s, !.fresh = TRUE]
Running(p) == [NoClaim EXCEPT !.state = "running", !.pid = pid[p], !.born = p]

Alive == {p \in Process : proc[p] \in {"booting", "parsed", "owner", "serving",
                                       "leaving", "rejected"}}
Owners == {p \in Process : proc[p] \in {"owner", "serving", "leaving"}}

(* process_matches of the claimed process. *)
ClaimRuns == claim.state = "running" /\ \E p \in Alive : pid[p] = claim.pid /\ p = claim.born
ClaimStarts == claim.state = "starting" /\ claim.fresh

(* Seeded fault: a reservation has no age limit for the next start. *)
BlocksForEver == ClaimRuns \/ claim.state = "starting"

Blocks == ClaimRuns \/ ClaimStarts

Init ==
    /\ claim = NoClaim /\ profile = FALSE
    /\ at = [r \in Request |-> "idle"]
    /\ target = [r \in Request |-> NoProcess]
    /\ proc = [p \in Process |-> "none"]
    /\ pid = [p \in Process |-> NoPid]
    /\ wiped = {}

Goes(r, from, to) == at[r] = from /\ at' = [at EXCEPT ![r] = to]

-----------------------------------------------------------------------------
(* start_server. *)

Reserve(s) ==
    /\ IF Blocks
       THEN Goes(s, "idle", "conflict") /\ claim' = claim
       ELSE Goes(s, "idle", "reserved") /\ claim' = Starting(s)
    /\ UNCHANGED <<profile, target, proc, pid, wiped>>

Writes(s) ==
    /\ Goes(s, "reserved", "written")
    /\ profile' = TRUE
    /\ UNCHANGED <<claim, target, proc, pid, wiped>>

Fork(p) ==
    /\ proc[p] = "none"
    /\ \E n \in Pid \ {pid[q] : q \in Alive} : pid' = [pid EXCEPT ![p] = n]
    /\ proc' = [proc EXCEPT ![p] = "booting"]

Spawns(s) ==
    /\ Goes(s, "written", "waiting")
    /\ Fork(s)
    /\ UNCHANGED <<claim, profile, target, wiped>>

(* Seeded fault: any running claim will do. *)
SeesAny(s) == ClaimRuns

(* wait_until_claimed wants the number of the child, in a live claim. *)
Sees(s) == ClaimRuns /\ claim.pid = pid[s]

ClaimSeen(s) ==
    /\ Goes(s, "waiting", "saving")
    /\ Sees(s)
    /\ UNCHANGED <<claim, profile, target, proc, pid, wiped>>

(* The configuration has its number, and the start reports success. *)
Succeeds(s) ==
    /\ Goes(s, "saving", "done")
    /\ UNCHANGED <<claim, profile, target, proc, pid, wiped>>

(* Not in time, or the child has ended. *)
TimesOut(s) ==
    /\ Goes(s, "waiting", "look")
    /\ UNCHANGED <<claim, profile, target, proc, pid, wiped>>

(* Writing the profile, launching the child, or saving the configuration with  *)
(* the claim already seen, raises.                                             *)
Raises(s) ==
    /\ \E from \in {"reserved", "written", "saving"} : Goes(s, from, "raise")
    /\ UNCHANGED <<claim, profile, target, proc, pid, wiped>>

(* A release without a number removes what there is. *)
BlindRelease ==
    /\ claim' = NoClaim
    /\ wiped' = wiped \cup {p \in Owners : claim = Running(p)}

(* The except branch: whoever holds the claim, the child that serves too. *)
CleansUp(s) ==
    /\ Goes(s, "raise", "failed")
    /\ BlindRelease
    /\ profile' = FALSE
    /\ UNCHANGED <<target, proc, pid>>

StarterCrash(s) ==
    /\ \E from \in {"reserved", "written", "waiting", "saving", "look", "signal", "wait",
                    "clear", "tidy", "raise"} : Goes(s, from, "crashed")
    /\ UNCHANGED <<claim, profile, target, proc, pid, wiped>>

(* START reservations are valid for 30 seconds, the wait takes 3. *)
Expire ==
    /\ ClaimStarts
    /\ at[claim.token] \notin {"reserved", "written", "waiting"}
    /\ claim' = [claim EXCEPT !.fresh = FALSE]
    /\ UNCHANGED <<profile, at, target, proc, pid, wiped>>

-----------------------------------------------------------------------------
(* terminate, of a stop, an update or a failed start; and delete_server. *)

(* A stop terminates in any case, an update only a running server; a running  *)
(* server is not deleted.                                                     *)
Begins(r) ==
    /\ \/ Goes(r, "idle", "look")
       \/ Goes(r, "idle", IF ClaimRuns THEN "look" ELSE "tidy")
       \/ Goes(r, "idle", IF ClaimRuns THEN "conflict" ELSE "delete")
    /\ UNCHANGED <<claim, profile, target, proc, pid, wiped>>

Looks(r) ==
    /\ IF ClaimRuns
       THEN Goes(r, "look", "signal") /\ target' = [target EXCEPT ![r] = claim.born]
       ELSE Goes(r, "look", "clear") /\ target' = target
    /\ UNCHANGED <<claim, profile, proc, pid, wiped>>

Death(p) ==
    /\ proc' = [proc EXCEPT ![p] = "lost"]
    /\ pid' = [pid EXCEPT ![p] = NoPid]

(* SIGTERM closes a listening socket and otherwise ends the process at once,   *)
(* except in its shutdown.                                                     *)
Signals(r) ==
    /\ Goes(r, "signal", "wait")
    /\ LET p == target[r]
       IN  IF proc[p] = "serving" THEN proc' = [proc EXCEPT ![p] = "leaving"] /\ pid' = pid
           ELSE IF p \in Alive \ {q \in Process : proc[q] = "leaving"} THEN Death(p)
           ELSE UNCHANGED <<proc, pid>>
    /\ UNCHANGED <<claim, profile, target, wiped>>

(* Seeded fault: no kill after the grace period. *)
KillsNever(r) == FALSE /\ UNCHANGED vars

Kills(r) ==
    /\ at[r] = "wait" /\ target[r] \in Alive
    /\ Death(target[r])
    /\ UNCHANGED <<claim, profile, at, target, wiped>>

Gone(r) ==
    /\ target[r] \notin Alive
    /\ Goes(r, "wait", "clear")
    /\ UNCHANGED <<claim, profile, target, proc, pid, wiped>>

Clears(r) ==
    /\ Goes(r, "clear", "tidy")
    /\ BlindRelease
    /\ UNCHANGED <<profile, target, proc, pid>>

Deletes(r) ==
    /\ Goes(r, "delete", "tidy")
    /\ BlindRelease
    /\ UNCHANGED <<profile, target, proc, pid>>

(* _remove_runtime_profile; a failed start then raises. *)
Tidies(r) ==
    /\ Goes(r, "tidy", IF r \in Start THEN "raise" ELSE "done")
    /\ profile' = FALSE
    /\ UNCHANGED <<claim, target, proc, pid, wiped>>

-----------------------------------------------------------------------------
(* Server processes. *)

LaunchManual(m) ==
    /\ Fork(m)
    /\ UNCHANGED <<claim, profile, at, target, wiped>>

(* Without its profile file a child does not start. *)
Parses(p) ==
    /\ proc[p] = "booting"
    /\ IF p \in Start /\ ~profile THEN Death(p)
       ELSE proc' = [proc EXCEPT ![p] = "parsed"] /\ pid' = pid
    /\ UNCHANGED <<claim, profile, at, target, wiped>>

TokenOf(p) == IF p \in Start THEN p ELSE NoToken

(* Seeded fault: a live owner is not looked for. *)
AcceptsOverOwner(p) ==
    claim.state = "starting" => claim.token = TokenOf(p)

(* claim: a reservation counts whatever its age, and without one anybody may. *)
Accepts(p) ==
    /\ ClaimRuns => claim.pid = pid[p]
    /\ claim.state = "starting" => claim.token = TokenOf(p)

Claims(p) ==
    /\ proc[p] = "parsed"
    /\ Accepts(p)
    /\ proc' = [proc EXCEPT ![p] = "owner"]
    /\ claim' = Running(p)
    /\ UNCHANGED <<profile, at, target, pid, wiped>>

(* Refused, or the certificate or the database schema failed before. *)
Fails(p) ==
    /\ proc[p] = "parsed"
    /\ proc' = [proc EXCEPT ![p] = "rejected"]
    /\ UNCHANGED <<claim, profile, at, target, pid, wiped>>

(* The kernel gives the port to one process. *)
Binds(p) ==
    /\ proc[p] = "owner"
    /\ proc' = [proc EXCEPT ![p] = IF \E q \in Process : proc[q] = "serving"
                                   THEN "leaving" ELSE "serving"]
    /\ UNCHANGED <<claim, profile, at, target, pid, wiped>>

(* Seeded fault: a leaving process releases the claim whoever has it. *)
ReleasedBlindly(p) == NoClaim

Released(p) == IF claim.pid \in {NoPid, pid[p]} THEN NoClaim ELSE claim

(* The finally of main. *)
Leaves(p) ==
    /\ proc[p] \in {"leaving", "rejected"}
    /\ claim' = Released(p)
    /\ proc' = [proc EXCEPT ![p] = IF @ = "leaving" THEN "ended" ELSE "lost"]
    /\ pid' = [pid EXCEPT ![p] = NoPid]
    /\ UNCHANGED <<profile, at, target, wiped>>

Dies(p) ==
    /\ p \in Alive
    /\ Death(p)
    /\ UNCHANGED <<claim, profile, at, target, wiped>>

-----------------------------------------------------------------------------
Terminates(r) == Looks(r) \/ Signals(r) \/ Kills(r) \/ Gone(r) \/ Clears(r) \/ Deletes(r)
                 \/ Tidies(r)

(* A start that has its reservation. *)
Starts(s) == Writes(s) \/ Spawns(s) \/ ClaimSeen(s) \/ Succeeds(s) \/ TimesOut(s)
             \/ Raises(s) \/ CleansUp(s)

Next ==
    \/ \E s \in Start : Reserve(s) \/ Starts(s) \/ StarterCrash(s)
    \/ \E r \in Stopper : Begins(r)
    \/ \E r \in Request : Terminates(r)
    \/ \E m \in Manual : LaunchManual(m)
    \/ \E p \in Process : Parses(p) \/ Claims(p) \/ Fails(p) \/ Binds(p) \/ Leaves(p) \/ Dies(p)
    \/ Expire

Spec == Init /\ [][Next]_vars

(* The clock runs, a start that has begun goes on to its end (or crashes), and *)
(* the termination of a process ends.                                          *)
Fairness ==
    /\ WF_vars(Expire)
    /\ \A s \in Start : WF_vars(Starts(s) \/ Terminates(s))
    /\ \A r \in Stopper : WF_vars(Terminates(r))

FairSpec == Spec /\ Fairness

-----------------------------------------------------------------------------
(* Whatever fails, dies or overlaps, a process that claimed the server loses   *)
(* its claim only to a release that does not name a process; all others are    *)
(* named by the claim file, so that there is one of them (claim, release(pid), *)
(* reserve_start).                                                             *)
OwnerNamed == \A p \in Owners \ wiped : claim = Running(p)

(* What a start takes for its success is its own doing: when it stops waiting  *)
(* and goes on to save and report it, the process it launched has claimed the  *)
(* server and lives, whatever other starts, stops and reused numbers did       *)
(* meanwhile (wait_until_claimed).                                             *)
SuccessIsOwn ==
    [][\A s \in Start : at[s] = "waiting" /\ at'[s] \in {"saving", "done"} => s \in Owners]_vars

(* A start that is refused is refused for the sake of a live process or a      *)
(* start in progress: what crashed starts and dead processes leave in the file *)
(* blocks the profile no longer than a reservation is valid.                   *)
NoLockout == Blocks ~> (~Blocks \/ Owners # {})

(* A stop, update or delete that was taken up ends: the process is gone by its *)
(* own or by the kill fallback (terminate), also one whose claim changes       *)
(* hands meanwhile.                                                            *)
Answered ==
    \A r \in Stopper : at[r] \notin {"idle", "done", "conflict"} ~> at[r] = "done"

(* The claim file is well formed and names who serves. *)
ClaimSound == TypeOK /\ OwnerNamed
=============================================================================
