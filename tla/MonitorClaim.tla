----------------------------- MODULE MonitorClaim -----------------------------
(***************************************************************************)
(* The start protocol of one monitor id: the claim file of                 *)
(* proxy_monitor/lifecycle.py, the launchers of secproxy_core/monitor.py   *)
(* that reserve it, and the monitor processes (proxy_monitor/app.py) that  *)
(* activate and release it.  Each body run under monitor_lock is one step. *)
(***************************************************************************)
EXTENDS FiniteSets

CONSTANTS
    Start,      \* start requests; each reserves once, so it is its own token,
                \* and the process it launches carries its name
    Service,    \* the requests of profiles with create_service = yes
    Manual,     \* processes launched outside the dashboard: by hand, or by
                \* systemd when it restarts a unit with the token of its file
    Pid,        \* process numbers the kernel may give, and give again
    NoToken, NoPid, NoProcess

Process == Start \cup Manual
Direct == Start \ Service
Token == Start \cup {NoToken}

ASSUME ClaimAssumption ==
    /\ Service \subseteq Start
    /\ Start \cap Manual = {}
    /\ NoToken \notin Start
    /\ NoPid \notin Pid
    /\ NoProcess \notin Process

VARIABLES
    claim,      \* the claim file
    pc,         \* where each start request is
    proc,       \* where each process is
    pid,        \* the number each live process has
    carried     \* the start token on each process's command line

vars == <<claim, pc, proc, pid, carried>>

Claim == [state : {"none", "starting", "running"}, token : Token,
          fresh : BOOLEAN, pid : Pid \cup {NoPid}, born : Process \cup {NoProcess}]

(* "killing": the wait is over, the reservation is abandoned, the child is not *)
(* killed yet.  "crashed": the dashboard or the command died in the middle.    *)
LauncherState == {"idle", "reserved", "waiting", "killing",
                  "started", "failed", "conflict", "crashed"}

(* "owner": the claim was activated and is not released.  "released": past      *)
(* release_claim, not yet gone.  "lost": died before it owned the monitor.      *)
ProcessState == {"none", "launched", "owner", "released", "rejected",
                 "exited", "killed", "lost"}

TypeOK ==
    /\ claim \in Claim
    /\ pc \in [Start -> LauncherState]
    /\ proc \in [Process -> ProcessState]
    /\ pid \in [Process -> Pid \cup {NoPid}]
    /\ carried \in [Process -> Token]

-----------------------------------------------------------------------------
NoClaim == [state |-> "none", token |-> NoToken, fresh |-> FALSE,
            pid |-> NoPid, born |-> NoProcess]

Starting(s) == [NoClaim EXCEPT !.state = "starting", !.token = s, !.fresh = TRUE]
Running(p) == [NoClaim EXCEPT !.state = "running", !.pid = pid[p], !.born = p]

Alive == {p \in Process : proc[p] \in {"launched", "owner", "released", "rejected"}}
Owners == {p \in Process : proc[p] = "owner"}
HasRun == {p \in Process : proc[p] \in {"owner", "released", "exited", "killed"}}

(* process_matches: a live process with this number, born at this time. *)
Matches(c) ==
    \E p \in Alive : pid[p] = c.pid /\ p = c.born

ClaimRuns == claim.state = "running" /\ Matches(claim)
ClaimStarts == claim.state = "starting" /\ claim.fresh
Active == ClaimRuns \/ ClaimStarts

Init ==
    /\ claim = NoClaim
    /\ pc = [s \in Start |-> "idle"]
    /\ proc = [p \in Process |-> "none"]
    /\ pid = [p \in Process |-> NoPid]
    /\ carried = [p \in Process |-> NoToken]

-----------------------------------------------------------------------------
(* Start requests. *)

(* Seeded fault: a reservation does not look for a live owner. *)
ReserveOverRunning(s) ==
    /\ pc[s] = "idle"
    /\ IF ClaimStarts
       THEN pc' = [pc EXCEPT ![s] = "conflict"] /\ claim' = claim
       ELSE pc' = [pc EXCEPT ![s] = "reserved"] /\ claim' = Starting(s)
    /\ UNCHANGED <<proc, pid, carried>>

Reserve(s) ==
    /\ pc[s] = "idle"
    /\ IF Active
       THEN pc' = [pc EXCEPT ![s] = "conflict"] /\ claim' = claim
       ELSE pc' = [pc EXCEPT ![s] = "reserved"] /\ claim' = Starting(s)
    /\ UNCHANGED <<proc, pid, carried>>

(* The kernel gives a new process a number no live process has. *)
Fork(p, token) ==
    /\ proc[p] = "none"
    /\ \E n \in Pid \ {pid[q] : q \in Alive} : pid' = [pid EXCEPT ![p] = n]
    /\ proc' = [proc EXCEPT ![p] = "launched"]
    /\ carried' = [carried EXCEPT ![p] = token]

Spawn(s) ==
    /\ pc[s] = "reserved"
    /\ Fork(s, s)
    /\ pc' = [pc EXCEPT ![s] = "waiting"]
    /\ UNCHANGED claim

(* _wait_for_claim takes any running claim, whoever made it. *)
ClaimSeen(s) ==
    /\ pc[s] = "waiting"
    /\ ClaimRuns
    /\ pc' = [pc EXCEPT ![s] = "started"]
    /\ UNCHANGED <<claim, proc, pid, carried>>

(* Seeded fault: the claim file is removed whatever it says. *)
AbandonedBlindly(s) == NoClaim

Abandoned(s) ==
    IF claim.state = "starting" /\ claim.token = s THEN NoClaim ELSE claim

(* The launch raised, or no running claim appeared in time. *)
Abandon(s) ==
    /\ pc[s] \in {"reserved", "waiting"}
    /\ claim' = Abandoned(s)
    /\ pc' = [pc EXCEPT ![s] = "killing"]
    /\ UNCHANGED <<proc, pid, carried>>

(* The kernel takes the number back. *)
Death(p) ==
    /\ proc' = [proc EXCEPT ![p] = IF p \in HasRun THEN "killed" ELSE "lost"]
    /\ pid' = [pid EXCEPT ![p] = NoPid]

(* Seeded fault: the child of a failed start is left alone. *)
ForgetChild(s) ==
    /\ pc[s] = "killing"
    /\ pc' = [pc EXCEPT ![s] = "failed"]
    /\ UNCHANGED <<claim, proc, pid, carried>>

(* A process the launcher started itself is killed; a unit is left to systemd. *)
KillChild(s) ==
    /\ pc[s] = "killing"
    /\ pc' = [pc EXCEPT ![s] = "failed"]
    /\ IF s \in Direct \cap Alive THEN Death(s) ELSE UNCHANGED <<proc, pid>>
    /\ UNCHANGED <<claim, carried>>

LauncherCrash(s) ==
    /\ pc[s] \in {"reserved", "waiting", "killing"}
    /\ pc' = [pc EXCEPT ![s] = "crashed"]
    /\ UNCHANGED <<claim, proc, pid, carried>>

(* Seeded fault: a reservation has no age limit. *)
NeverExpire ==
    /\ ClaimStarts
    /\ claim' = claim
    /\ UNCHANGED <<pc, proc, pid, carried>>

(* START_RESERVATION_TTL runs out.  A direct launch waits 4 of its 30 seconds, *)
(* so its reservation outlives the wait; three systemctl calls may not.        *)
Expire ==
    /\ ClaimStarts
    /\ claim.token \in Direct => pc[claim.token] \notin {"reserved", "waiting"}
    /\ claim' = [claim EXCEPT !.fresh = FALSE]
    /\ UNCHANGED <<pc, proc, pid, carried>>

-----------------------------------------------------------------------------
(* Monitor processes. *)

LaunchManual(m) ==
    /\ \E t \in {NoToken} \cup {s \in Service : pc[s] \notin {"idle", "conflict"}} : Fork(m, t)
    /\ UNCHANGED <<claim, pc>>

(* Seeded fault: the token is not compared. *)
AcceptsAnyToken(p, token) ==
    ClaimRuns => claim.pid = pid[p]

(* Seeded fault: a live owner is not looked for. *)
AcceptsOverOwner(p, token) ==
    ClaimStarts => claim.token = token

(* activate_claim refuses a live owner with another number and, failing that, *)
(* a valid reservation with another token.                                    *)
Accepts(p, token) ==
    /\ ClaimRuns => claim.pid = pid[p]
    /\ ClaimStarts => claim.token = token

Activate(p) ==
    /\ proc[p] = "launched"
    /\ IF Accepts(p, carried[p])
       THEN proc' = [proc EXCEPT ![p] = "owner"] /\ claim' = Running(p)
       ELSE proc' = [proc EXCEPT ![p] = "rejected"] /\ claim' = claim
    /\ UNCHANGED <<pc, pid, carried>>

(* A status poll that read the registry before this process cleared its number *)
(* there, and the claim file when no running claim was in it, activates the    *)
(* claim for it without a token.                                               *)
Adopt(p) ==
    /\ proc[p] \in {"owner", "released"}
    /\ Accepts(p, NoToken)
    /\ claim' = Running(p)
    /\ UNCHANGED <<pc, proc, pid, carried>>

Release(p) ==
    /\ proc[p] = "owner"
    /\ claim' = IF claim.pid \in {NoPid, pid[p]} THEN NoClaim ELSE claim
    /\ proc' = [proc EXCEPT ![p] = "released"]
    /\ UNCHANGED <<pc, pid, carried>>

Exit(p) ==
    /\ proc[p] \in {"released", "rejected"}
    /\ proc' = [proc EXCEPT ![p] = IF @ = "released" THEN "exited" ELSE "lost"]
    /\ pid' = [pid EXCEPT ![p] = NoPid]
    /\ UNCHANGED <<claim, pc, carried>>

(* SIGKILL, the fallback of terminate_process, or a crash of the machine's own. *)
Die(p) ==
    /\ p \in Alive
    /\ Death(p)
    /\ UNCHANGED <<claim, pc, carried>>

-----------------------------------------------------------------------------
Launcher(s) ==
    Reserve(s) \/ Spawn(s) \/ ClaimSeen(s) \/ Abandon(s) \/ KillChild(s)

Next ==
    \/ \E s \in Start : Launcher(s) \/ LauncherCrash(s)
    \/ \E m \in Manual : LaunchManual(m)
    \/ \E p \in Process : Activate(p) \/ Adopt(p) \/ Release(p) \/ Exit(p) \/ Die(p)
    \/ Expire

Spec == Init /\ [][Next]_vars

(* The clock runs, and a process that has nothing left to do ends. *)
FairSpec == Spec /\ WF_vars(Expire) /\ \A p \in Process : WF_vars(Exit(p))
                 /\ \A s \in Start : WF_vars(Abandon(s) \/ ClaimSeen(s))

-----------------------------------------------------------------------------
(* Two live processes never both run the monitor (activate_claim).            *)
OneOwner == \A p, q \in Owners : p = q

(* While a process runs the monitor the claim file names it, number and birth: *)
(* no late poll, abandoned launch or leaving process takes the claim from it.  *)
OwnerNamed == \A p \in Owners : claim = Running(p)

(* The claim file has one of its shapes and names the owner. *)
ClaimSound == TypeOK /\ OwnerNamed

(* A direct start that reports success launched a process that did own the    *)
(* monitor, although _wait_for_claim accepts any running claim.               *)
SuccessIsOwn == \A s \in Direct : pc[s] = "started" => s \in HasRun

(* A direct start that reports failure leaves no process of its own behind    *)
(* (the except branch of _spawn_monitor).                                     *)
FailureIsClean == \A s \in Direct : pc[s] = "failed" => s \notin Alive

(* A launcher that crashes, a child that dies and a claim taken for a leaving *)
(* process do not lock the profile: what refuses a start is in the end a live *)
(* owner, or gone (START_RESERVATION_TTL, process_matches).                   *)
NoLockout == Active ~> (~Active \/ Owners # {})

(* The claim file implements exclusive ownership. *)
Ownership == INSTANCE MonitorOwnership
                 WITH running <- Owners, past <- HasRun \ Owners
OwnershipSpec == Ownership!Spec
=============================================================================
