------------------------------ MODULE MonitorRun ------------------------------
(***************************************************************************)
(* One monitor process at a time (MonitorClaim) and what it leaves in the  *)
(* database: run_monitor of proxy_monitor/monitor/runner.py with its       *)
(* worker threads and its result processor, main of proxy_monitor/app.py,  *)
(* and the operator's start, pause, stop and resume.  Each database        *)
(* transaction is one step, and a process may die between two of them.     *)
(***************************************************************************)
EXTENDS Naturals, Sequences, FiniteSets

CONSTANTS
    Proxy,          \* proxy ids
    Present,        \* those in the table at first; the others may be added
    Worker,         \* worker threads: at least one, whatever the settings say
    Outcome,        \* the counter the new status of a tested proxy goes to
    Recurring,      \* FALSE for run mode "once", TRUE for the others
    Filtered,       \* whether the monitor is for some protocols or statuses only
    MaxKills,       \* bound: deaths of a process in one session
    MaxFaults,      \* bound: failed transactions of the processor in one session
    None

Action == {"pause", "stop"}
Status == {"running", "paused", "stopped", "completed", "failed", "interrupted"}
Session == [status : Status, total : Nat, tested : Nat, by : [Outcome -> Nat]]
Result == [proxy : Proxy, outcome : Outcome]

ASSUME RunAssumption ==
    /\ IsFiniteSet(Proxy) /\ Present \subseteq Proxy
    /\ Worker # {}
    /\ Recurring \in BOOLEAN /\ Filtered \in BOOLEAN
    /\ MaxKills \in Nat /\ MaxFaults \in Nat
    /\ None \notin Proxy \cup Action \cup Session \cup Result
    /\ {"idle", "ended"} \cap Proxy = {}

VARIABLES
    row,        \* the proxies table
    matched,    \* the rows whose protocol and status the filters let through
    session,    \* the monitor_sessions row, or None
    marks,      \* the monitor_tested rows
    control,    \* the control file: None, "pause" or "stop"
    stop,       \* the STOP flag of the process
    main,       \* where the main thread is; "off" when there is no process
    run,        \* the locals of run_monitor
    jobs,       \* the job queue; its order is random, so a set
    worker,     \* what each worker thread does
    results,    \* the result queue, ended by None when the workers are joined
    item,       \* what the processor thread does, and with which result
    opr,        \* the stop or pause request being served
    hist        \* observation only

threads == <<jobs, worker, results, item>>
vars == <<row, matched, session, marks, control, stop, main, run, threads, opr, hist>>

(* rows: selected in this cycle; ids: those a resume leaves out; tested, by:   *)
(* progress_state; failed: there are processor_errors; seen: the action read   *)
(* once the threads have ended.                                                *)
Run == [resumed : BOOLEAN, rows : SUBSET Proxy, ids : SUBSET Proxy, total : Nat,
        tested : Nat, by : [Outcome -> Nat], failed : BOOLEAN,
        seen : Action \cup {None}, verdict : Status]

(* Of the session: the proxies it ever selected, those of them that the filters *)
(* kept out of its last resume, how often a result of each was applied, the     *)
(* deaths and faults; of the cycle: the tests with a result.                    *)
Hist == [scope : SUBSET Proxy, dropped : SUBSET Proxy, applied : [Proxy -> Nat],
         kills : 0..MaxKills, faults : 0..MaxFaults, finished : SUBSET Proxy]

TypeOK ==
    /\ row \in [Proxy -> {"absent", "present", "deleted"}]
    /\ matched \subseteq Proxy
    /\ session \in Session \cup {None}
    /\ marks \subseteq Proxy
    /\ control \in Action \cup {None}
    /\ stop \in BOOLEAN
    /\ main \in {"off", "wait", "load", "select", "open", "empty", "feed", "join",
                 "drain", "decide", "exit", "leave"}
    /\ run \in Run
    /\ jobs \subseteq Proxy
    /\ worker \in [Worker -> Proxy \cup {"idle", "ended"}]
    /\ results \in Seq(Result \cup {None})
    /\ item \in [at : {"get", "mark", "tally", "ended"}, result : Result \cup {None}]
    /\ opr \in [action : Action \cup {None}, signalled : BOOLEAN]
    /\ hist \in Hist

-----------------------------------------------------------------------------
Zero == [o \in Outcome |-> 0]
NewRun == [resumed |-> FALSE, rows |-> {}, ids |-> {}, total |-> 0, tested |-> 0,
           by |-> Zero, failed |-> FALSE, seen |-> None, verdict |-> "running"]
NewHist == [scope |-> {}, dropped |-> {}, applied |-> [p \in Proxy |-> 0],
            kills |-> 0, faults |-> 0, finished |-> {}]
Ended == [at |-> "ended", result |-> None]
Getting == [at |-> "get", result |-> None]
NoRequest == [action |-> None, signalled |-> FALSE]

NoThreads ==
    /\ jobs' = {}
    /\ worker' = [w \in Worker |-> "ended"]
    /\ results' = <<>>
    /\ item' = Ended

Init ==
    /\ row = [p \in Proxy |-> IF p \in Present THEN "present" ELSE "absent"]
    /\ matched = Present
    /\ session = None /\ marks = {} /\ control = None
    /\ stop = FALSE /\ main = "off" /\ run = NewRun
    /\ jobs = {} /\ worker = [w \in Worker |-> "ended"]
    /\ results = <<>> /\ item = Ended
    /\ opr = NoRequest /\ hist = NewHist

(* _apply_filters. *)
Rows == {p \in matched : row[p] = "present"}
Unmatched == {p \in Proxy \ matched : row[p] = "present"}

(* Whoever writes the protocol or the status of p. *)
Refiles(p) ==
    \/ matched' = matched \cup {p}
    \/ Filtered /\ matched' = matched \ {p}

Paused == session # None /\ session.status = "paused"

(* _persist_session: nothing is written when the row is gone. *)
Persist(r, status) ==
    session' = IF session = None THEN None
               ELSE [session EXCEPT !.status = status, !.tested = r.tested, !.by = r.by]

-----------------------------------------------------------------------------
(* The main thread. *)

WaitEnds ==
    /\ main = "wait"
    /\ main' = IF stop THEN "exit" ELSE "load"
    /\ UNCHANGED <<row, matched, session, marks, control, stop, run, threads, opr, hist>>

(* Seeded fault: a resume reads the counters and not the tested ids. *)
LoadWithoutIds ==
    /\ main = "load"
    /\ IF Paused
       THEN /\ run' = [NewRun EXCEPT !.resumed = TRUE, !.total = session.total,
                                     !.tested = session.tested, !.by = session.by]
            /\ hist' = [hist EXCEPT !.finished = {}]
            /\ UNCHANGED <<session, marks>>
       ELSE /\ run' = NewRun /\ hist' = NewHist
            /\ session' = None /\ marks' = {}
    /\ main' = "select"
    /\ UNCHANGED <<row, matched, control, stop, threads, opr>>

(* A paused session is continued; any other is deleted with its tested rows. *)
Load ==
    /\ main = "load"
    /\ IF Paused
       THEN /\ run' = [NewRun EXCEPT !.resumed = TRUE, !.ids = marks, !.total = session.total,
                                     !.tested = session.tested, !.by = session.by]
            /\ hist' = [hist EXCEPT !.finished = {}]
            /\ UNCHANGED <<session, marks>>
       ELSE /\ run' = NewRun /\ hist' = NewHist
            /\ session' = None /\ marks' = {}
    /\ main' = "select"
    /\ UNCHANGED <<row, matched, control, stop, threads, opr>>

(* A resume selects by the filters again, among the rows as they are now. *)
Select ==
    /\ main = "select"
    /\ LET chosen == Rows \ run.ids
           total == IF run.resumed /\ run.total # 0 THEN run.total
                    ELSE Cardinality(chosen) + Cardinality(run.ids)
       IN  /\ run' = [run EXCEPT !.rows = chosen, !.total = total]
           /\ hist' = [hist EXCEPT !.scope = @ \cup chosen,
                                   !.dropped = (hist.scope \ run.ids) \cap Unmatched]
    /\ main' = "open"
    /\ UNCHANGED <<row, matched, session, marks, control, stop, threads, opr>>

Open ==
    /\ main = "open"
    /\ session' = IF session = None
                  THEN [status |-> "running", total |-> run.total,
                        tested |-> run.tested, by |-> run.by]
                  ELSE [session EXCEPT !.status = "running", !.total = run.total]
    /\ main' = IF run.rows = {} THEN "empty" ELSE "feed"
    /\ UNCHANGED <<row, matched, marks, control, stop, run, threads, opr, hist>>

AfterCycle == IF Recurring THEN "wait" ELSE "exit"

(* No rows left: the action file holds "pause" or "stop", never the "paused"   *)
(* or "stopped" the next line looks for, so only a bare signal is not          *)
(* reported as completion.                                                     *)
Empty ==
    /\ main = "empty"
    /\ LET state == IF stop /\ control = None THEN "stopped" ELSE "completed"
       IN  Persist(run, state) /\ run' = [run EXCEPT !.verdict = state]
    /\ main' = AfterCycle
    /\ UNCHANGED <<row, matched, marks, control, stop, threads, opr, hist>>

(* Queues are filled, the processor and the workers started. *)
Feed ==
    /\ main = "feed"
    /\ Persist(run, "running")
    /\ jobs' = IF stop THEN {} ELSE run.rows
    /\ worker' = [w \in Worker |-> "idle"]
    /\ results' = <<>>
    /\ item' = Getting
    /\ main' = "join"
    /\ UNCHANGED <<row, matched, marks, control, stop, run, opr, hist>>

(* Seeded fault: the end mark is queued while workers still test. *)
JoinOne ==
    /\ main = "join"
    /\ \E w \in Worker : worker[w] = "ended"
    /\ results' = Append(results, None)
    /\ main' = "drain"
    /\ UNCHANGED <<row, matched, session, marks, control, stop, run, jobs, worker, item, opr, hist>>

(* Seeded fault: the end mark is never queued. *)
JoinWithoutMark ==
    /\ main = "join"
    /\ \A w \in Worker : worker[w] = "ended"
    /\ main' = "drain"
    /\ UNCHANGED <<row, matched, session, marks, control, stop, run, threads, opr, hist>>

Join ==
    /\ main = "join"
    /\ \A w \in Worker : worker[w] = "ended"
    /\ results' = Append(results, None)
    /\ main' = "drain"
    /\ UNCHANGED <<row, matched, session, marks, control, stop, run, jobs, worker, item, opr, hist>>

Drain ==
    /\ main = "drain"
    /\ item.at = "ended"
    /\ Persist(run, "running")
    /\ run' = [run EXCEPT !.seen = control]
    /\ main' = "decide"
    /\ UNCHANGED <<row, matched, marks, control, stop, threads, opr, hist>>

(* Seeded fault: processor errors do not count. *)
VerdictBlind ==
    IF stop THEN (IF run.seen = "pause" THEN "paused" ELSE "stopped") ELSE "completed"

Verdict ==
    IF stop THEN (IF run.seen = "pause" THEN "paused" ELSE "stopped")
    ELSE IF run.failed \/ run.tested < run.total THEN "failed" ELSE "completed"

Decide ==
    /\ main = "decide"
    /\ Persist(run, Verdict)
    /\ run' = [run EXCEPT !.verdict = Verdict]
    /\ main' = AfterCycle
    /\ UNCHANGED <<row, matched, marks, control, stop, threads, opr, hist>>

(* main reads STOP and the action once more, and _mark_session_exit may write *)
(* over the state the cycle ended in.                                         *)
Exit ==
    /\ main = "exit"
    /\ LET final == IF stop THEN (IF control = "pause" THEN "paused" ELSE "stopped")
                    ELSE run.verdict
           writes == session # None /\ (session.status = "running"
                                        \/ final \in {"paused", "stopped", "failed"})
       IN  session' = IF writes THEN [session EXCEPT !.status = final] ELSE session
    /\ main' = "leave"
    /\ UNCHANGED <<row, matched, marks, control, stop, run, threads, opr, hist>>

(* release_claim and clear_action. *)
Leave ==
    /\ main = "leave"
    /\ control' = None
    /\ main' = "off"
    /\ run' = NewRun
    /\ UNCHANGED <<row, matched, session, marks, stop, threads, opr, hist>>

-----------------------------------------------------------------------------
(* Worker threads. *)

Get(w) ==
    /\ worker[w] = "idle"
    /\ IF stop \/ jobs = {}
       THEN worker' = [worker EXCEPT ![w] = "ended"] /\ jobs' = jobs
       ELSE \E p \in jobs : worker' = [worker EXCEPT ![w] = p] /\ jobs' = jobs \ {p}
    /\ UNCHANGED <<row, matched, session, marks, control, stop, main, run, results, item,
                   opr, hist>>

(* All probes were made. *)
Finish(w) ==
    /\ worker[w] \in Proxy
    /\ \E o \in Outcome :
           results' = Append(results, [proxy |-> worker[w], outcome |-> o])
    /\ worker' = [worker EXCEPT ![w] = "idle"]
    /\ hist' = [hist EXCEPT !.finished = @ \cup {worker[w]}]
    /\ UNCHANGED <<row, matched, session, marks, control, stop, main, run, jobs, item, opr>>

(* STOP came before the last probe: no result. *)
Interrupt(w) ==
    /\ worker[w] \in Proxy
    /\ stop
    /\ worker' = [worker EXCEPT ![w] = "idle"]
    /\ UNCHANGED <<row, matched, session, marks, control, stop, main, run, jobs, results, item,
                   opr, hist>>

-----------------------------------------------------------------------------
(* The processor thread: three transactions for each result. *)

Apply ==
    /\ item.at = "get"
    /\ results # <<>>
    /\ results' = Tail(results)
    /\ LET r == Head(results)
       IN  IF r = None THEN item' = Ended /\ UNCHANGED <<hist, matched>>
           ELSE IF row[r.proxy] = "deleted" THEN UNCHANGED <<item, hist, matched>>
           ELSE /\ item' = [at |-> "mark", result |-> r]
                /\ hist' = [hist EXCEPT !.applied[r.proxy] = @ + 1]
                /\ Refiles(r.proxy)
    /\ UNCHANGED <<row, session, marks, control, stop, main, run, jobs, worker, opr>>

(* Seeded fault: the proxy is counted before it is recorded as tested. *)
MarkLater ==
    /\ item.at = "mark"
    /\ item' = [item EXCEPT !.at = "tally"]
    /\ UNCHANGED <<row, matched, session, marks, control, stop, main, run, jobs, worker, results,
                   opr, hist>>

Mark ==
    /\ item.at = "mark"
    /\ marks' = marks \cup {item.result.proxy}
    /\ item' = [item EXCEPT !.at = "tally"]
    /\ UNCHANGED <<row, matched, session, control, stop, main, run, jobs, worker, results,
                   opr, hist>>

Tallied == [run EXCEPT !.tested = @ + 1, !.by[item.result.outcome] = @ + 1]

Tally ==
    /\ item.at = "tally"
    /\ run' = Tallied
    /\ Persist(Tallied, "running")
    /\ item' = Getting
    /\ UNCHANGED <<row, matched, marks, control, stop, main, jobs, worker, results, opr, hist>>

(* A transaction of the processor raises: the rest of the result is dropped.   *)
(* A failed tally leaves the counters of progress_state increased.             *)
Fault ==
    /\ hist.faults < MaxFaults
    /\ \/ /\ item.at = "get" /\ results # <<>> /\ Head(results) # None
          /\ results' = Tail(results)
       \/ item.at \in {"mark", "tally"} /\ results' = results
    /\ run' = [(IF item.at = "tally" THEN Tallied ELSE run) EXCEPT !.failed = TRUE]
    /\ item' = Getting
    /\ hist' = [hist EXCEPT !.faults = @ + 1]
    /\ UNCHANGED <<row, matched, session, marks, control, stop, main, jobs, worker, opr>>

-----------------------------------------------------------------------------
(* The operator, the dashboard's other users, and the machine. *)

(* The start of a process; activate_claim removes the control file. *)
Launch ==
    /\ main' \in (IF Recurring THEN {"load", "wait"} ELSE {"load"})
    /\ stop' = FALSE
    /\ control' = None
    /\ run' = NewRun
    /\ UNCHANGED <<row, matched, threads, opr>>

Start ==
    /\ main = "off" /\ opr = NoRequest
    /\ Rows # {} \/ Recurring
    /\ session' = None /\ marks' = {}
    /\ hist' = NewHist
    /\ Launch

Resume ==
    /\ main = "off" /\ opr = NoRequest
    /\ Paused
    /\ Launch
    /\ UNCHANGED <<session, marks, hist>>

(* systemd starts the unit again after a death, or someone runs the command:   *)
(* nothing is deleted beforehand.                                              *)
Relaunch ==
    /\ main = "off" /\ opr = NoRequest
    /\ ~Paused
    /\ Launch
    /\ UNCHANGED <<session, marks, hist>>

Request(a) ==
    /\ main # "off" /\ opr = NoRequest
    /\ control' = a
    /\ opr' = [action |-> a, signalled |-> FALSE]
    /\ UNCHANGED <<row, matched, session, marks, stop, main, run, threads, hist>>

Signal ==
    /\ opr.action # None /\ ~opr.signalled
    /\ stop' = (stop \/ main # "off")
    /\ opr' = [opr EXCEPT !.signalled = TRUE]
    /\ UNCHANGED <<row, matched, session, marks, control, main, run, threads, hist>>

(* The process is gone: _stop_monitor writes the state it was asked for. *)
Record ==
    /\ opr.signalled /\ main = "off"
    /\ session' = IF session = None THEN None
                  ELSE [session EXCEPT !.status = IF opr.action = "pause" THEN "paused"
                                                  ELSE "stopped"]
    /\ opr' = NoRequest
    /\ UNCHANGED <<row, matched, marks, control, stop, main, run, threads, hist>>

(* The kill fallback of terminate_process, or a crash. *)
Kill ==
    /\ main # "off"
    /\ hist.kills < MaxKills
    /\ main' = "off"
    /\ run' = NewRun
    /\ NoThreads
    /\ hist' = [hist EXCEPT !.kills = @ + 1]
    /\ UNCHANGED <<row, matched, session, marks, control, stop, opr>>

(* SIGINT, or the SIGTERM of a shutdown: no action file. *)
BareSignal ==
    /\ main # "off" /\ ~stop
    /\ stop' = TRUE
    /\ UNCHANGED <<row, matched, session, marks, control, main, run, threads, opr, hist>>

(* A status poll finds a running session and no process. *)
Reconcile ==
    /\ main = "off"
    /\ session # None /\ session.status = "running"
    /\ session' = [session EXCEPT !.status = "interrupted"]
    /\ UNCHANGED <<row, matched, marks, control, stop, main, run, threads, opr, hist>>

(* An edit, an import, or the verdict of a server or of another monitor. *)
EditTable(p) ==
    /\ \/ row[p] = "absent" /\ row' = [row EXCEPT ![p] = "present"] /\ Refiles(p)
       \/ row[p] = "present" /\ row' = [row EXCEPT ![p] = "deleted"] /\ matched' = matched \ {p}
       \/ row[p] = "present" /\ row' = row /\ Refiles(p)
    /\ UNCHANGED <<session, marks, control, stop, main, run, threads, opr, hist>>

-----------------------------------------------------------------------------
MainThread == WaitEnds \/ Load \/ Select \/ Open \/ Empty \/ Feed \/ Join \/ Drain
              \/ Decide \/ Exit \/ Leave
WorkerThread(w) == Get(w) \/ Finish(w) \/ Interrupt(w)
Processor == Apply \/ Mark \/ Tally \/ Fault

Next ==
    \/ MainThread \/ Processor \/ \E w \in Worker : WorkerThread(w)
    \/ Start \/ Resume \/ Relaunch \/ Signal \/ Record \/ Kill \/ BareSignal \/ Reconcile
    \/ \E a \in Action : Request(a)
    \/ \E p \in Proxy : EditTable(p)

Spec == Init /\ [][Next]_vars

(* The threads of a live process are scheduled, a probe ends by its timeouts,  *)
(* and a request that was begun is carried through.                            *)
FairSpec ==
    /\ Spec
    /\ WF_vars(MainThread) /\ WF_vars(Processor) /\ WF_vars(Signal) /\ WF_vars(Record)
    /\ \A w \in Worker : WF_vars(WorkerThread(w))

-----------------------------------------------------------------------------
(* A session reported as completed has tested every proxy it ever selected,    *)
(* over all its pauses, deaths and resumes, except those deleted meanwhile and *)
(* those that the filters of the monitor kept out when it was last resumed.    *)
CompletedCovers ==
    session # None /\ session.status = "completed" =>
        \A p \in hist.scope : p \in marks \cup hist.dropped \/ row[p] = "deleted"

(* Pausing drops no result: when the threads have ended without an error,      *)
(* every finished test is recorded, unless its proxy is gone (results.put(None)*)
(* only after the workers are joined).                                         *)
NothingDropped ==
    main = "decide" /\ ~run.failed =>
        \A p \in hist.finished : p \in marks \/ row[p] = "deleted"

(* The counters a resume starts from and the ids it leaves out stay together:  *)
(* never more counted than recorded, and never further behind than the deaths  *)
(* and faults of the session explain.                                          *)
CountsFollowMarks ==
    session # None /\ main = "off" =>
        /\ session.tested <= Cardinality(marks)
        /\ Cardinality(marks) <= session.tested + hist.kills + hist.faults

(* Resuming does not test again what was tested: a result of a proxy is        *)
(* applied twice in a session only at the price of a death or a fault.         *)
AppliedOnce ==
    \A p \in Proxy : hist.applied[p] <= 1 + hist.kills + hist.faults

(* A session fails for a cause: a fault, a death, a row deleted under it, or a *)
(* proxy that the filters kept out when it was last resumed.                   *)
FailureHasCause ==
    session # None /\ session.status = "failed" =>
        \/ hist.faults + hist.kills > 0
        \/ hist.dropped # {}
        \/ \E p \in Proxy : row[p] = "deleted"

(* Stop and Pause are obeyed without the kill fallback: all waits are          *)
(* interruptible and no thread waits for another for ever.                     *)
StopEnds == stop /\ main # "off" ~> main = "off"

(* A session says completed or failed only when that is what happened. *)
StatusTold == TypeOK /\ CompletedCovers /\ FailureHasCause
=============================================================================
