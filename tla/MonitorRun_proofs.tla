---------------------------- MODULE MonitorRun_proofs ----------------------------
(***************************************************************************)
(* Proofs about one monitor process after another and what they leave in   *)
(* the database, for any proxies, threads, deaths and faults.              *)
(***************************************************************************)
EXTENDS MonitorRun, FiniteSetTheorems, SequenceTheorems, TLAPS

(* Where a selected proxy may be before its result is applied. *)
Queued(p) == \E i \in 1..Len(results) : results[i] # None /\ results[i].proxy = p
Tested(p) == \E w \in Worker : worker[w] = p
Held(p) == item.at = "mark" /\ item.result.proxy = p

Live == main \in {"join", "drain"}
Opened == main \in {"empty", "feed", "join", "drain", "decide"}
Selected == Opened \/ main = "open"

(* The threads: none outside join and drain, and the end mark is the last.  *)
Threads ==
    /\ ~Live => item.at = "ended" /\ results = <<>> /\ \A w \in Worker : worker[w] = "ended"
    /\ main = "join" => item.at # "ended" /\ \A i \in 1..Len(results) : results[i] # None
    /\ main = "drain" =>
          /\ \A w \in Worker : worker[w] = "ended"
          /\ item.at = "ended" => results = <<>>
          /\ item.at # "ended" =>
                /\ results # <<>>
                /\ \A i \in 1..Len(results) : results[i] = None <=> i = Len(results)
    /\ Live /\ ~stop => \A w \in Worker : worker[w] = "ended" => jobs = {}

(* A proxy is in one place, and leaves it before it is recorded as tested.  *)
Waits(p) == p \in jobs \/ Tested(p) \/ Queued(p) \/ Held(p)

Placed(p) ==
    /\ p \in jobs => ~Tested(p) /\ ~Queued(p) /\ ~Held(p)
    /\ Tested(p) => ~Queued(p) /\ ~Held(p)
    /\ Queued(p) => ~Held(p)
    /\ Waits(p) => p \notin marks /\ p \in run.rows
    /\ \A v, w \in Worker : worker[v] = p /\ worker[w] = p => v = w
    /\ \A i, j \in 1..Len(results) :
          /\ results[i] # None /\ results[j] # None
          /\ results[i].proxy = p /\ results[j].proxy = p
          => i = j

OnePlace == Live => \A p \in Proxy : Placed(p)

TallyIn == item.at = "tally" => item.result.proxy \in marks

(* What the run has selected. *)
Chosen ==
    /\ main = "select" => run.ids = marks
    /\ Selected => run.rows \subseteq hist.scope
    /\ main \in {"open", "empty", "feed"} => run.rows \cap marks = {}
    /\ marks \subseteq hist.scope
    /\ \A p \in hist.scope : row[p] # "absent"

Tallying == IF item.at = "tally" THEN 1 ELSE 0
Running == main = "select" \/ Selected

(* The numbers of the session and of the run, against the marks and the scope. *)
Counts ==
    /\ session = None => marks = {} /\ ~Opened
    /\ session # None =>
          /\ session.tested <= Cardinality(marks)
          /\ Cardinality(marks) <= session.tested + Tallying + hist.kills + hist.faults
          /\ session.total <= Cardinality(hist.scope)
    /\ Running =>
          /\ run.tested + Tallying <= Cardinality(marks)
          /\ session # None => session.tested <= run.tested
          /\ run.total <= Cardinality(hist.scope)
          /\ run.failed => hist.faults > 0

Covered == \A p \in hist.scope : p \in marks \cup hist.dropped \/ row[p] = "deleted"
Cause == \/ hist.faults + hist.kills > 0
         \/ hist.dropped # {}
         \/ \E p \in Proxy : row[p] = "deleted"

(* Nothing selected is forgotten while the threads work undisturbed. *)
Covering ==
    /\ Selected => \A p \in hist.scope :
          p \in marks \cup hist.dropped \/ row[p] = "deleted" \/ p \in run.rows
    /\ Live /\ ~stop /\ ~run.failed => \A p \in run.rows :
          p \in jobs \/ Tested(p) \/ Queued(p) \/ Held(p) \/ p \in marks \/ row[p] = "deleted"
    /\ main = "decide" /\ ~stop /\ ~run.failed => Covered
    /\ main = "empty" => run.rows = {}

(* What a status, written or about to be written, stands for. *)
Statuses ==
    /\ main \in {"select", "open"} => session = None \/ session.status = "paused"
    /\ Opened /\ session # None => session.status = "running"
    /\ main \in {"wait", "exit", "leave"} =>
          /\ run.verdict = "completed" => Covered
          /\ run.verdict = "failed" => Cause
    /\ CompletedCovers /\ FailureHasCause

(* The results of tests that ended in this cycle. *)
Kept ==
    /\ main \in {"select", "open", "empty", "feed"} => hist.finished = {}
    /\ main \in {"join", "drain", "decide"} /\ ~run.failed => \A p \in hist.finished :
          Queued(p) \/ Held(p) \/ p \in marks \/ row[p] = "deleted"

Spent(p) == IF p \in marks \/ Held(p) THEN 1 ELSE 0
Applied == \A p \in Proxy : hist.applied[p] <= hist.kills + hist.faults + Spent(p)
-----------------------------------------------------------------------------
(* Types.  The processor has a result in hand while it marks and tallies. *)
LEMMA NewValues == NewRun \in Run /\ NewHist \in Hist
BY RunAssumption DEF NewRun, NewHist, Run, Hist, Zero, Status

(* What _persist_session writes is a session. *)
LEMMA PersistsSession ==
  ASSUME TypeOK, NEW r \in Run, NEW status \in Status, Persist(r, status)
  PROVE  session' \in Session \cup {None}
<1>1. CASE session = None
  BY <1>1 DEF Persist
<1>2. CASE session # None
  <2>1. session \in Session
        /\ session' = [session EXCEPT !.status = status, !.tested = r.tested, !.by = r.by]
    BY <1>2 DEF TypeOK, Persist
  <2>2. r.tested \in Nat /\ r.by \in [Outcome -> Nat]
    BY DEF Run
  <2>3. QED
    BY <2>1, <2>2 DEF Session
<1>3. QED
  BY <1>1, <1>2

LEMMA TalliedIsRun ==
  ASSUME run \in Run, item.result \in Result
  PROVE  Tallied \in Run
<1>1. run.by \in [Outcome -> Nat] /\ run.tested \in Nat /\ item.result.outcome \in Outcome
  BY DEF Run, Result
<1>2. [run.by EXCEPT ![item.result.outcome] = @ + 1] \in [Outcome -> Nat]
  BY <1>1
<1>3. Tallied = [run EXCEPT !.tested = run.tested + 1,
                            !.by = [run.by EXCEPT ![item.result.outcome] = @ + 1]]
  BY DEF Tallied, Run
<1>4. QED
  <2> DEFINE by == [run.by EXCEPT ![item.result.outcome] = @ + 1]
             tested == run.tested + 1
  <2>1. by \in [Outcome -> Nat] /\ tested \in Nat
        /\ Tallied = [run EXCEPT !.tested = tested, !.by = by]
    BY <1>1, <1>2, <1>3
  <2> HIDE DEF by, tested
  <2>2. QED
    BY <2>1 DEF Run

Typed == TypeOK /\ (item.at \in {"mark", "tally"} => item.result \in Result)

LEMMA TypeAtFirst == ASSUME Init PROVE Typed
<1>1. run \in Run /\ hist \in Hist
  BY NewValues DEF Init
<1>2. results \in Seq(Result \cup {None})
  BY DEF Init
<1>3. item = Ended /\ opr = NoRequest /\ row \in [Proxy -> {"absent", "present", "deleted"}]
  BY DEF Init
<1>4. worker \in [Worker -> Proxy \cup {"idle", "ended"}]
  BY DEF Init
<1>5. /\ Ended \in [at : {"get", "mark", "tally", "ended"}, result : Result \cup {None}]
      /\ Ended.at = "ended"
         /\ NoRequest \in [action : Action \cup {None}, signalled : BOOLEAN]
  BY DEF Ended, NoRequest
<1>6. matched \subseteq Proxy
  BY RunAssumption DEF Init
<1>7. QED
  BY <1>1, <1>2, <1>3, <1>4, <1>5, <1>6 DEF Init, Typed, TypeOK

LEMMA TypeKept == ASSUME Typed, [Next]_vars PROVE Typed'
<1> USE DEF Typed
<1>1. CASE WaitEnds
  BY <1>1 DEF WaitEnds, threads, TypeOK
<1>2. CASE Load
  <2>1. CASE Paused
    <3>1. session \in Session
      BY <2>1 DEF Typed, TypeOK, Paused
    <3>2. run' = [NewRun EXCEPT !.resumed = TRUE, !.ids = marks, !.total = session.total,
                                !.tested = session.tested, !.by = session.by]
      BY <1>2, <2>1 DEF Load
    <3>5. run' \in Run
      BY <3>1, <3>2, NewValues DEF TypeOK, Run, Session
    <3>3. hist' \in Hist
      BY <1>2, <2>1 DEF Load, TypeOK, Hist
    <3>4. QED
      BY <1>2, <2>1, <3>5, <3>3 DEF Load, threads, TypeOK
  <2>2. CASE ~Paused
    BY <1>2, <2>2, NewValues DEF Load, threads, TypeOK
  <2>3. QED
    BY <2>1, <2>2
<1>3. CASE Select
  <2> DEFINE chosen == Rows \ run.ids
             total == IF run.resumed /\ run.total # 0 THEN run.total
                      ELSE Cardinality(chosen) + Cardinality(run.ids)
  <2>1. chosen \subseteq Proxy /\ run.ids \subseteq Proxy /\ run.total \in Nat
    BY DEF Rows, TypeOK, Run
  <2>2. Cardinality(chosen) \in Nat /\ Cardinality(run.ids) \in Nat
    BY <2>1, RunAssumption, FS_Subset, FS_CardinalityType
  <2>3. total \in Nat
    BY <2>1, <2>2
  <2>4. run' = [run EXCEPT !.rows = chosen, !.total = total]
        /\ hist' = [hist EXCEPT !.scope = @ \cup chosen,
                                    !.dropped = (hist.scope \ run.ids) \cap Unmatched]
    BY <1>3 DEF Select
  <2> HIDE DEF chosen, total
  <2>5. run' \in Run
    BY <2>1, <2>3, <2>4 DEF TypeOK, Run
  <2>6. hist' \in Hist
    BY <2>1, <2>4 DEF TypeOK, Hist
  <2>7. QED
    BY <1>3, <2>5, <2>6 DEF Select, threads, TypeOK
<1>4. CASE Open
  <2>1. run.total \in Nat /\ run.tested \in Nat /\ run.by \in [Outcome -> Nat]
    BY DEF TypeOK, Run
  <2>2. session' \in Session \cup {None}
    BY <1>4, <2>1 DEF Open, TypeOK, Session, Status
  <2>3. QED
    BY <1>4, <2>2 DEF Open, threads, TypeOK
<1>5. CASE Empty
  <2> DEFINE state == IF stop /\ control = None THEN "stopped" ELSE "completed"
  <2>1. state \in Status /\ Persist(run, state) /\ run' = [run EXCEPT !.verdict = state]
    BY <1>5 DEF Empty, Status
  <2> HIDE DEF state
  <2>2. session' \in Session \cup {None} /\ run' \in Run
    BY <2>1, PersistsSession DEF TypeOK, Run
  <2>3. QED
    BY <1>5, <2>2 DEF Empty, AfterCycle, threads, TypeOK
<1>6. CASE Feed
  <2>1. session' \in Session \cup {None}
    BY <1>6, PersistsSession DEF Feed, TypeOK, Status
  <2>2. jobs' \subseteq Proxy /\ worker' \in [Worker -> Proxy \cup {"idle", "ended"}]
    BY <1>6 DEF Feed, TypeOK, Run
  <2>3. results' \in Seq(Result \cup {None})
    BY <1>6 DEF Feed
  <2>4. item' = Getting /\ main' = "join"
        /\ UNCHANGED <<row, matched, marks, control, stop, run, opr, hist>>
    BY <1>6 DEF Feed
  <2>5. QED
    BY <2>1, <2>2, <2>3, <2>4 DEF Getting, TypeOK
<1>7. CASE Join
  <2>1. results' \in Seq(Result \cup {None})
    BY <1>7 DEF Join, TypeOK
  <2>2. QED
    BY <1>7, <2>1 DEF Join, TypeOK
<1>8. CASE Drain
  <2>1. session' \in Session \cup {None}
    BY <1>8, PersistsSession DEF Drain, TypeOK, Status
  <2>2. run' \in Run
    BY <1>8 DEF Drain, TypeOK, Run
  <2>3. QED
    BY <1>8, <2>1, <2>2 DEF Drain, threads, TypeOK
<1>9. CASE Decide
  <2>1. Verdict \in Status
    BY DEF Verdict, Status
  <2>2. session' \in Session \cup {None} /\ run' \in Run
    BY <1>9, <2>1, PersistsSession DEF Decide, TypeOK, Run
  <2>3. QED
    BY <1>9, <2>2 DEF Decide, AfterCycle, threads, TypeOK
<1>10. CASE Exit
  <2>1. PICK status \in Status : session' \in {session, [session EXCEPT !.status = status]}
                                /\ (session = None => session' = session)
    BY <1>10 DEF Exit, TypeOK, Run, Status
  <2>2. session' \in Session \cup {None}
    BY <2>1 DEF TypeOK, Session
  <2>3. QED
    BY <1>10, <2>2 DEF Exit, threads, TypeOK
<1>11. CASE Leave
  BY <1>11, NewValues DEF Leave, threads, TypeOK
<1>12. ASSUME NEW w \in Worker, Get(w)
      PROVE  Typed'
  <2>1. jobs' \subseteq jobs /\ \E x \in Proxy \cup {"ended"} : worker' = [worker EXCEPT ![w] = x]
    BY <1>12 DEF Get, TypeOK
  <2>2. worker' \in [Worker -> Proxy \cup {"idle", "ended"}]
    BY <2>1 DEF TypeOK
  <2>3. QED
    BY <1>12, <2>1, <2>2 DEF Get, TypeOK
<1>13. ASSUME NEW w \in Worker, Finish(w)
      PROVE  Typed'
  <2>1. PICK o \in Outcome : results' = Append(results, [proxy |-> worker[w], outcome |-> o])
    BY <1>13 DEF Finish
  <2>2. [proxy |-> worker[w], outcome |-> o] \in Result
    BY <1>13 DEF Finish, Result
  <2>3. results' \in Seq(Result \cup {None})
    BY <2>1, <2>2 DEF TypeOK
  <2>4. hist' \in Hist
    BY <1>13 DEF Finish, TypeOK, Hist
  <2>5. worker' \in [Worker -> Proxy \cup {"idle", "ended"}]
    BY <1>13 DEF Finish, TypeOK
  <2>6. QED
    BY <1>13, <2>3, <2>4, <2>5 DEF Finish, TypeOK
<1>14. ASSUME NEW w \in Worker, Interrupt(w)
      PROVE  Typed'
  <2>1. worker' \in [Worker -> Proxy \cup {"idle", "ended"}]
    BY <1>14 DEF Interrupt, TypeOK
  <2>2. QED
    BY <1>14, <2>1 DEF Interrupt, TypeOK
<1>15. CASE Apply
  <2>1. results' \in Seq(Result \cup {None}) /\ Head(results) \in Result \cup {None}
    BY <1>15 DEF Apply, TypeOK
  <2>2. CASE UNCHANGED <<hist, matched>> /\ item' \in {Ended, item}
    BY <1>15, <2>1, <2>2 DEF Apply, Ended, TypeOK
  <2>3. CASE /\ Head(results) # None /\ item' = [at |-> "mark", result |-> Head(results)]
             /\ hist' = [hist EXCEPT !.applied[Head(results).proxy] = @ + 1]
             /\ Refiles(Head(results).proxy)
    <3>1. Head(results) \in Result /\ Head(results).proxy \in Proxy
      BY <2>1, <2>3 DEF Result
    <3>2. hist.applied \in [Proxy -> Nat]
      BY DEF TypeOK, Hist
    <3>3. [hist.applied EXCEPT ![Head(results).proxy] = @ + 1] \in [Proxy -> Nat]
      BY <3>1, <3>2
    <3>4. hist' \in Hist
      BY <2>3, <3>3 DEF TypeOK, Hist
    <3>5. matched' \subseteq Proxy
      BY <2>3, <3>1 DEF Refiles, TypeOK
    <3>6. QED
      BY <1>15, <2>1, <2>3, <3>1, <3>4, <3>5 DEF Apply, TypeOK
  <2>4. QED
    BY <1>15, <2>2, <2>3 DEF Apply
<1>16. CASE Mark
  <2>1. marks' \subseteq Proxy /\ item' = [item EXCEPT !.at = "tally"]
    BY <1>16 DEF Mark, TypeOK, Result
  <2>2. QED
    BY <1>16, <2>1 DEF Mark, TypeOK
<1>17. CASE Tally
  <2>1. Tallied \in Run
    BY <1>17, TalliedIsRun DEF Tally, TypeOK
  <2>2. session' \in Session \cup {None}
    BY <1>17, <2>1, PersistsSession DEF Tally, Status
  <2>3. QED
    BY <1>17, <2>1, <2>2 DEF Tally, Getting, TypeOK
<1>18. CASE Fault
  <2>1. (IF item.at = "tally" THEN Tallied ELSE run) \in Run
    BY TalliedIsRun DEF TypeOK
  <2>2. run' \in Run
    BY <1>18, <2>1 DEF Fault, Run
  <2>3. hist' \in Hist
    <3>1. hist \in Hist /\ hist' = [hist EXCEPT !.faults = hist.faults + 1]
          /\ hist.faults < MaxFaults
      BY <1>18 DEF Fault, TypeOK
    <3>2. hist.faults + 1 \in 0..MaxFaults
      BY <3>1, RunAssumption DEF Hist
    <3>3. QED
      BY <3>1, <3>2 DEF Hist
  <2>4. results' \in Seq(Result \cup {None})
    <3>1. CASE results' = results
      BY <3>1 DEF TypeOK
    <3>2. CASE results # <<>> /\ results' = Tail(results)
      BY <3>2 DEF TypeOK
    <3>3. QED
      BY <1>18, <3>1, <3>2 DEF Fault
  <2>5. QED
    BY <1>18, <2>2, <2>3, <2>4 DEF Fault, Getting, TypeOK
<1>19. CASE Start
  BY <1>19, NewValues DEF Start, Launch, threads, TypeOK
<1>20. CASE Resume
  BY <1>20, NewValues DEF Resume, Launch, threads, TypeOK
<1>21. CASE Relaunch
  BY <1>21, NewValues DEF Relaunch, Launch, threads, TypeOK
<1>22. ASSUME NEW a \in Action, Request(a)
      PROVE  Typed'
  BY <1>22 DEF Request, threads, TypeOK
<1>23. CASE Signal
  <2>1. opr' \in [action : Action \cup {None}, signalled : BOOLEAN]
    BY <1>23 DEF Signal, TypeOK
  <2>2. stop' \in BOOLEAN
    BY <1>23 DEF Signal, TypeOK
  <2>3. QED
    BY <1>23, <2>1, <2>2 DEF Signal, threads, TypeOK
<1>24. CASE Record
  <2>1. session' \in Session \cup {None}
    BY <1>24 DEF Record, TypeOK, Session, Status
  <2>2. QED
    BY <1>24, <2>1 DEF Record, NoRequest, threads, TypeOK
<1>25. CASE Kill
  <2>1. hist' \in Hist
    <3>1. hist \in Hist /\ hist' = [hist EXCEPT !.kills = hist.kills + 1]
          /\ hist.kills < MaxKills
      BY <1>25 DEF Kill, TypeOK
    <3>2. hist.kills + 1 \in 0..MaxKills
      BY <3>1, RunAssumption DEF Hist
    <3>3. QED
      BY <3>1, <3>2 DEF Hist
  <2>2. results' \in Seq(Result \cup {None})
    BY <1>25 DEF Kill, NoThreads
  <2>3. jobs' \subseteq Proxy /\ worker' \in [Worker -> Proxy \cup {"idle", "ended"}]
        /\ item' = Ended
    BY <1>25 DEF Kill, NoThreads
  <2>4. QED
    BY <1>25, <2>1, <2>2, <2>3, NewValues DEF Kill, Ended, TypeOK
<1>26. CASE BareSignal
  BY <1>26 DEF BareSignal, threads, TypeOK
<1>27. CASE Reconcile
  <2>1. session' \in Session \cup {None}
    BY <1>27 DEF Reconcile, TypeOK, Session, Status
  <2>2. QED
    BY <1>27, <2>1 DEF Reconcile, threads, TypeOK
<1>28. ASSUME NEW p \in Proxy, EditTable(p)
      PROVE  Typed'
  <2>1. row' \in [Proxy -> {"absent", "present", "deleted"}] /\ matched' \subseteq Proxy
    BY <1>28 DEF EditTable, Refiles, TypeOK
  <2>2. QED
    BY <1>28, <2>1 DEF EditTable, threads, TypeOK
<1>29. CASE UNCHANGED vars
  BY <1>29 DEF vars, threads, TypeOK
<1>30. QED
  BY <1>1, <1>2, <1>3, <1>4, <1>5, <1>6, <1>7, <1>8, <1>9, <1>10, <1>11, <1>12,
     <1>13, <1>14, <1>15, <1>16, <1>17, <1>18, <1>19, <1>20, <1>21, <1>22, <1>23,
     <1>24, <1>25, <1>26, <1>27, <1>28, <1>29
     DEF Next, MainThread, WorkerThread, Processor
-----------------------------------------------------------------------------
LEMMA Appending ==
  ASSUME NEW S, NEW s \in Seq(S), NEW x \in S
  PROVE  /\ Append(s, x) \in Seq(S) /\ Append(s, x) # <<>> /\ Len(s) \in Nat
         /\ Len(Append(s, x)) = Len(s) + 1 /\ Append(s, x)[Len(s) + 1] = x
         /\ \A i \in 1..Len(s) : Append(s, x)[i] = s[i]
OBVIOUS

LEMMA Tailing ==
  ASSUME NEW S, NEW s \in Seq(S), s # <<>>
  PROVE  /\ Tail(s) \in Seq(S) /\ Len(s) \in Nat /\ Len(s) >= 1 /\ Head(s) = s[1] /\ Head(s) \in S
         /\ Len(Tail(s)) = Len(s) - 1 /\ (Len(s) # 1 => Tail(s) # <<>>) /\ (Len(s) = 1 => Tail(s) = <<>>)
         /\ \A i \in 1..Len(Tail(s)) : Tail(s)[i] = s[i + 1]
<1>1. Len(s) \in Nat /\ Len(s) >= 1 /\ Head(s) = s[1] /\ Head(s) \in S
  OBVIOUS
<1>2. Tail(s) \in Seq(S) /\ Len(Tail(s)) = Len(s) - 1
  OBVIOUS
<1> DEFINE t == Tail(s)
<1>3. t \in Seq(S) /\ Len(t) = Len(s) - 1
  BY <1>2
<1> HIDE DEF t
<1>4. Len(s) # 1 => t # <<>>
  BY <1>1, <1>3
<1>5. t # <<>> => Len(t) \in Nat \ {0}
  BY <1>3, EmptySeq
<1>6. Len(s) = 1 => t = <<>>
  BY <1>3, <1>5
<1>7. \A i \in 1..Len(Tail(s)) : Tail(s)[i] = s[i + 1]
  OBVIOUS
<1>8. QED
  BY <1>1, <1>2, <1>4, <1>6, <1>7 DEF t

(* The end mark, once queued, stays the last; nothing is left when the threads *)
(* have ended.                                                                 *)
LEMMA ThreadsInvariant ==
  ASSUME Typed, Threads, [Next]_vars
  PROVE  Threads'
<1> USE DEF Threads, Live
<1>1. CASE WaitEnds
  BY <1>1 DEF WaitEnds, threads, Threads, Live
<1>2. CASE Load
  BY <1>2 DEF Load, threads, Threads, Live
<1>3. CASE Select
  BY <1>3 DEF Select, threads, Threads, Live
<1>4. CASE Open
  BY <1>4 DEF Open, threads, Threads, Live
<1>5. CASE Empty
  BY <1>5 DEF Empty, Persist, AfterCycle, threads, Threads, Live
<1>6. CASE Feed
  <2>1. worker' = [w \in Worker |-> "idle"] /\ results' = <<>> /\ item'.at = "get"
        /\ main' = "join"
    BY <1>6 DEF Feed, Getting
  <2>2. QED
    BY <2>1
<1>7. CASE Join
  BY <1>7 DEF Join, threads, Threads, Live
<1>8. CASE Drain
  BY <1>8 DEF Drain, Persist, threads, Threads, Live
<1>9. CASE Decide
  BY <1>9 DEF Decide, Persist, Verdict, AfterCycle, threads, Threads, Live
<1>10. CASE Exit
  BY <1>10 DEF Exit, threads, Threads, Live
<1>11. CASE Leave
  BY <1>11 DEF Leave, threads, Threads, Live
<1>12. ASSUME NEW w \in Worker, Get(w)
      PROVE  Threads'
  <2>1. worker \in [Worker -> Proxy \cup {"idle", "ended"}]
    BY DEF Typed, TypeOK
  <2>2. CASE (stop \/ jobs = {}) /\ worker' = [worker EXCEPT ![w] = "ended"] /\ jobs' = jobs
    BY <1>12, <2>1, <2>2 DEF Get
  <2>3. ASSUME NEW p \in jobs, worker' = [worker EXCEPT ![w] = p], jobs' = jobs \ {p}
        PROVE  Threads'
    <3>1. p \in Proxy /\ p # "ended"
      BY RunAssumption DEF Typed, TypeOK
    <3>2. \A v \in Worker : worker'[v] = "ended" => worker[v] = "ended"
      BY <2>1, <2>3, <3>1
    <3>3. QED
      BY <1>12, <2>1, <2>3, <3>1, <3>2 DEF Get
  <2>4. QED
    BY <1>12, <2>2, <2>3 DEF Get
<1>13. ASSUME NEW w \in Worker, Finish(w)
      PROVE  Threads'
  <2>1. PICK o \in Outcome : results' = Append(results, [proxy |-> worker[w], outcome |-> o])
    BY <1>13 DEF Finish
  <2>2. [proxy |-> worker[w], outcome |-> o] \in Result
    BY <1>13 DEF Finish, Result
  <2>3. worker \in [Worker -> Proxy \cup {"idle", "ended"}]
        /\ results \in Seq(Result \cup {None})
    BY DEF Typed, TypeOK
  <2>4. worker[w] # "ended" /\ worker' = [worker EXCEPT ![w] = "idle"]
    BY <1>13, RunAssumption DEF Finish
  <2>5. main = "join"
    BY <1>13, <2>4 DEF Finish
  <2>6. \A i \in 1..Len(results') : results'[i] # None
    BY <2>1, <2>2, <2>3, <2>5, RunAssumption, Appending
  <2>7. QED
    BY <1>13, <2>3, <2>4, <2>5, <2>6 DEF Finish
<1>14. ASSUME NEW w \in Worker, Interrupt(w)
      PROVE  Threads'
  <2>1. worker \in [Worker -> Proxy \cup {"idle", "ended"}]
        /\ worker' = [worker EXCEPT ![w] = "idle"]
    BY <1>14 DEF Interrupt, Typed, TypeOK
  <2>2. worker[w] # "ended"
    BY <1>14, RunAssumption DEF Interrupt
  <2>3. QED
    BY <1>14, <2>1, <2>2 DEF Interrupt
<1>15. CASE Apply
  <2>1. results \in Seq(Result \cup {None}) /\ results # <<>> /\ results' = Tail(results)
        /\ item.at = "get" /\ UNCHANGED <<main, stop, jobs, worker>>
    BY <1>15 DEF Apply, Typed, TypeOK
  <2>2. item'.at = "ended" => Head(results) = None
    BY <1>15, <2>1 DEF Apply
  <2>3. Head(results) = None => item'.at = "ended"
    BY <1>15 DEF Apply, Ended
  <2>4. CASE main = "join"
    BY <2>1, <2>2, <2>4, Tailing
  <2>5. CASE main = "drain"
    <3>1. Head(results) = None <=> Len(results) = 1
      BY <2>1, <2>5, Tailing
    <3>2. Len(results) # 1 => results' # <<>> /\ item'.at # "ended"
      BY <2>1, <2>2, <3>1, Tailing
    <3>3. Len(results) = 1 => results' = <<>> /\ item'.at = "ended"
      BY <2>1, <2>3, <3>1, Tailing
    <3>4. \A i \in 1..Len(results') : results'[i] = None <=> i = Len(results')
      <4>1. \A i \in 1..Len(results') : results'[i] = results[i + 1] /\ i + 1 \in 1..Len(results)
        BY <2>1, Tailing
      <4>2. Len(results') = Len(results) - 1 /\ Len(results) \in Nat
        BY <2>1, Tailing
      <4>3. \A i \in 1..Len(results') : i + 1 = Len(results) <=> i = Len(results')
        BY <4>2
      <4>4. QED
        BY <2>1, <2>5, <4>1, <4>3
    <3>5. QED
      BY <2>1, <2>5, <3>2, <3>3, <3>4
  <2>6. QED
    BY <2>1, <2>4, <2>5
<1>16. CASE Mark
  BY <1>16 DEF Mark, threads, Threads, Live
<1>17. CASE Tally
  BY <1>17 DEF Tally, Getting
<1>18. CASE Fault
  <2>1. UNCHANGED <<main, stop, jobs, worker>> /\ item.at # "ended" /\ item'.at = "get"
    BY <1>18 DEF Fault, Getting
  <2>2. CASE results' = results
    BY <2>1, <2>2
  <2>3. CASE results # <<>> /\ Head(results) # None /\ results' = Tail(results)
    <3>1. results \in Seq(Result \cup {None})
      BY DEF Typed, TypeOK
    <3>2. CASE main = "join"
      BY <2>1, <2>3, <3>1, <3>2, Tailing
    <3>3. CASE main = "drain"
      <4>1. Len(results) # 1 /\ results' # <<>>
        BY <2>1, <2>3, <3>1, <3>3, Tailing
      <4>2. \A i \in 1..Len(results') : results'[i] = results[i + 1] /\ i + 1 \in 1..Len(results)
        BY <2>3, <3>1, Tailing
      <4>3. Len(results') = Len(results) - 1 /\ Len(results) \in Nat
        BY <2>3, <3>1, Tailing
      <4>5. \A i \in 1..Len(results') : i + 1 = Len(results) <=> i = Len(results')
        BY <4>3
      <4>6. \A i \in 1..Len(results') : results'[i] = None <=> i = Len(results')
        BY <2>1, <2>3, <3>3, <4>1, <4>2, <4>5
      <4>7. QED
        BY <2>1, <2>3, <3>3, <4>1, <4>6
    <3>4. QED
      BY <2>1, <2>3, <3>2, <3>3
  <2>4. QED
    BY <1>18, <2>2, <2>3 DEF Fault
<1>19. CASE Start
  BY <1>19 DEF Start, Launch, threads, Threads, Live
<1>20. CASE Resume
  BY <1>20 DEF Resume, Launch, Paused, threads, Threads, Live
<1>21. CASE Relaunch
  BY <1>21 DEF Relaunch, Launch, Paused, threads, Threads, Live
<1>22. ASSUME NEW a \in Action, Request(a)
      PROVE  Threads'
  BY <1>22 DEF Request, threads, Threads, Live
<1>23. CASE Signal
  BY <1>23 DEF Signal, threads, Threads, Live
<1>24. CASE Record
  BY <1>24 DEF Record, threads, Threads, Live
<1>25. CASE Kill
  <2>1. main' = "off" /\ worker' = [w \in Worker |-> "ended"] /\ results' = <<>>
        /\ item'.at = "ended"
    BY <1>25 DEF Kill, NoThreads, Ended
  <2>2. QED
    BY <2>1
<1>26. CASE BareSignal
  BY <1>26 DEF BareSignal, threads, Threads, Live
<1>27. CASE Reconcile
  BY <1>27 DEF Reconcile, threads, Threads, Live
<1>28. ASSUME NEW p \in Proxy, EditTable(p)
      PROVE  Threads'
  BY <1>28 DEF EditTable, threads, Threads, Live
<1>29. CASE UNCHANGED vars
  BY <1>29 DEF vars, threads, Threads, Live
<1>30. QED
  BY <1>1, <1>2, <1>3, <1>4, <1>5, <1>6, <1>7, <1>8, <1>9, <1>10, <1>11, <1>12,
     <1>13, <1>14, <1>15, <1>16, <1>17, <1>18, <1>19, <1>20, <1>21, <1>22, <1>23,
     <1>24, <1>25, <1>26, <1>27, <1>28, <1>29
     DEF Next, MainThread, WorkerThread, Processor
-----------------------------------------------------------------------------
PlacesInv == OnePlace /\ TallyIn /\ Chosen

(* Nothing comes into a place, results keep their order, and only what was held *)
(* is marked.                                                                   *)
LEMMA NothingNewIsPlaced ==
  ASSUME Live, OnePlace, run'.rows = run.rows, jobs' \subseteq jobs,
         \A w \in Worker : worker'[w] = worker[w] \/ worker'[w] \notin Proxy,
         \A p \in Proxy : Held(p)' => Held(p),
         \A p \in marks' : p \in marks \/ (Held(p) /\ ~Held(p)'),
         Len(results) \in Nat, Len(results') \in Nat,
         NEW k \in Nat,
         \A i \in 1..Len(results') :
            results'[i] # None => i + k \in 1..Len(results) /\ results'[i] = results[i + k]
  PROVE  OnePlace'
<1> SUFFICES ASSUME NEW p \in Proxy PROVE Placed(p)'
  BY DEF OnePlace
<1>1. Placed(p)
  BY DEF OnePlace
<1>2. Tested(p)' => Tested(p)
  BY DEF Tested
<1>3. Queued(p)' => Queued(p)
  BY DEF Queued
<1>4. (p \in jobs' => p \in jobs) /\ (Held(p)' => Held(p))
  OBVIOUS
<1>5. \A v, w \in Worker : worker'[v] = p /\ worker'[w] = p => v = w
  BY <1>1 DEF Placed
<1>6. ASSUME NEW i \in 1..Len(results'), NEW j \in 1..Len(results'),
             results'[i] # None, results'[j] # None, results'[i].proxy = p, results'[j].proxy = p
      PROVE  i = j
  <2>1. i + k \in 1..Len(results) /\ j + k \in 1..Len(results)
        /\ results'[i] = results[i + k] /\ results'[j] = results[j + k]
    BY <1>6
  <2>2. i + k = j + k
    BY <1>1, <1>6, <2>1 DEF Placed
  <2>3. QED
    BY <2>2
<1>7. Waits(p)' => p \notin marks'
  BY <1>1, <1>2, <1>3, <1>4 DEF Waits, Placed
<1>8. Waits(p)' => p \in run'.rows
  BY <1>1, <1>2, <1>3, <1>4 DEF Waits, Placed
<1>9. QED
  <2>1. \A i, j \in 1..Len(results') :
            /\ results'[i] # None /\ results'[j] # None
            /\ results'[i].proxy = p /\ results'[j].proxy = p
            => i = j
    BY <1>6
  <2>2. QED
    BY <1>1, <1>2, <1>3, <1>4, <1>5, <1>7, <1>8, <2>1 DEF Placed

(* Each proxy is selected once and handed on, and what is marked was selected. *)
LEMMA PlacesInvariant ==
  ASSUME Typed, Threads, PlacesInv, [Next]_vars
  PROVE  PlacesInv'
<1>0. /\ row \in [Proxy -> {"absent", "present", "deleted"}] /\ marks \subseteq Proxy
      /\ worker \in [Worker -> Proxy \cup {"idle", "ended"}] /\ jobs \subseteq Proxy
      /\ results \in Seq(Result \cup {None}) /\ Len(results) \in Nat
      /\ run \in Run /\ run.rows \subseteq Proxy /\ hist \in Hist
         /\ hist.scope \subseteq Proxy
  BY DEF Typed, TypeOK, Run, Hist
<1>1. CASE WaitEnds
  BY <1>1, <1>0 DEF WaitEnds, threads, PlacesInv, OnePlace, TallyIn, Chosen, Live, Opened,
     Selected, Placed, Waits, Tested, Queued, Held
<1>2. CASE Load
  <2>1. item.at # "tally" /\ marks' \subseteq hist'.scope
        /\ \A p \in hist'.scope : p \in hist.scope
    <3>1. CASE Paused
      BY <1>2, <3>1, <1>0 DEF Load, Threads, Live, PlacesInv, Chosen, Hist
    <3>2. CASE ~Paused
      BY <1>2, <3>2, <1>0 DEF Load, NewHist, Threads, Live, PlacesInv, Chosen
    <3>3. QED
      BY <3>1, <3>2
  <2>2. run'.ids = marks'
    <3>1. CASE Paused
      BY <1>2, <3>1 DEF Load, NewRun
    <3>2. CASE ~Paused
      BY <1>2, <3>2 DEF Load, NewRun
    <3>3. QED
      BY <3>1, <3>2
  <2>3. QED
    BY <1>2, <2>1, <2>2 DEF Load, threads, PlacesInv, OnePlace, TallyIn, Chosen, Live,
       Opened, Selected
<1>3. CASE Select
  <2>1. run'.rows = Rows \ run.ids /\ run.ids = marks
    BY <1>3, <1>0 DEF Select, Run, PlacesInv, Chosen
  <2>2. hist'.scope = hist.scope \cup (Rows \ run.ids)
    BY <1>3, <1>0 DEF Select, Hist
  <2>3. \A p \in Rows : row[p] # "absent"
    BY DEF Rows
  <2>4. main' = "open" /\ UNCHANGED <<row, marks, item>>
    BY <1>3 DEF Select, threads
  <2>5. QED
    BY <2>1, <2>2, <2>3, <2>4 DEF PlacesInv, OnePlace, TallyIn, Chosen, Live, Opened,
       Selected
<1>4. CASE Open
  BY <1>4, <1>0 DEF Open, threads, PlacesInv, OnePlace, TallyIn, Chosen, Live, Opened,
     Selected, Placed, Waits, Tested, Queued, Held
<1>5. CASE Empty
  BY <1>5, <1>0 DEF Empty, Persist, AfterCycle, threads, PlacesInv, OnePlace, TallyIn,
     Chosen, Live, Opened, Selected, Placed, Waits, Tested, Queued, Held
<1>6. CASE Feed
  <2>1. /\ jobs' \subseteq run.rows /\ results' = <<>>
           /\ worker' = [w \in Worker |-> "idle"]
        /\ item'.at = "get" /\ main' = "join" /\ UNCHANGED <<row, marks, run, hist>>
    BY <1>6 DEF Feed, Getting
  <2>2. run.rows \cap marks = {}
    BY <1>6 DEF Feed, PlacesInv, Chosen
  <2>3. ASSUME NEW p \in Proxy PROVE Placed(p)'
    <3>1. ~Tested(p)' /\ ~Queued(p)' /\ ~Held(p)'
      BY <2>1, RunAssumption DEF Tested, Queued, Held
    <3>2. \A w \in Worker : worker'[w] # p
      BY <2>1, RunAssumption
    <3>3. QED
      BY <2>1, <2>2, <3>1, <3>2 DEF Placed, Waits
  <2>4. Chosen'
    BY <1>6, <2>1 DEF Feed, PlacesInv, Chosen, Opened, Selected, Live
  <2>5. QED
    BY <2>1, <2>3, <2>4 DEF PlacesInv, OnePlace, TallyIn
<1>7. CASE Join
  BY <1>7, <1>0 DEF Join, threads, PlacesInv, OnePlace, TallyIn, Chosen, Live, Opened,
     Selected, Placed, Waits, Tested, Queued, Held
<1>8. CASE Drain
  BY <1>8, <1>0 DEF Drain, Persist, threads, PlacesInv, OnePlace, TallyIn, Chosen, Live,
     Opened, Selected, Placed, Waits, Tested, Queued, Held
<1>9. CASE Decide
  BY <1>9, <1>0 DEF Decide, Persist, Verdict, AfterCycle, threads, PlacesInv, OnePlace,
     TallyIn, Chosen, Live, Opened, Selected, Placed, Waits, Tested, Queued, Held
<1>10. CASE Exit
  BY <1>10, <1>0 DEF Exit, threads, PlacesInv, OnePlace, TallyIn, Chosen, Live, Opened,
     Selected, Placed, Waits, Tested, Queued, Held
<1>11. CASE Leave
  BY <1>11, <1>0 DEF Leave, threads, PlacesInv, OnePlace, TallyIn, Chosen, Live, Opened,
     Selected, Placed, Waits, Tested, Queued, Held
<1>12. ASSUME NEW w \in Worker, Get(w)
      PROVE  PlacesInv'
  <2>1. CASE jobs' = jobs /\ worker' = [worker EXCEPT ![w] = "ended"]
    <3>1. ASSUME Live PROVE OnePlace'
      <4>1. /\ \A v \in Worker : worker'[v] = worker[v] \/ worker'[v] \notin Proxy
            /\ UNCHANGED <<run, marks, item, results, main>>
        BY <1>12, <1>0, <2>1, RunAssumption DEF Get
      <4>2. QED
        BY <1>0, <2>1, <3>1, <4>1, NothingNewIsPlaced DEF PlacesInv, Held
    <3>2. QED
      BY <1>12, <3>1 DEF Get, PlacesInv, OnePlace, TallyIn, Chosen, Live, Opened, Selected
  <2>2. ASSUME NEW q \in jobs, worker' = [worker EXCEPT ![w] = q], jobs' = jobs \ {q}
        PROVE  PlacesInv'
    <3>1. UNCHANGED <<row, run, marks, item, results, main, hist>> /\ worker[w] \notin Proxy
      BY <1>12, RunAssumption DEF Get
    <3>2. ASSUME Live, NEW p \in Proxy PROVE Placed(p)'
      <4>1. Placed(p)
        BY <3>2 DEF PlacesInv, OnePlace
      <4>2. (Queued(p)' <=> Queued(p)) /\ (Held(p)' <=> Held(p))
        BY <3>1 DEF Queued, Held
      <4>3. Tested(p)' => Tested(p) \/ p = q
        BY <1>0, <2>2 DEF Tested
      <4>4. \A v \in Worker : worker'[v] = p => worker[v] = p \/ (v = w /\ p = q)
        BY <1>0, <2>2
      <4>5. p = q => \A v \in Worker : worker[v] # p
        BY <2>2, <4>1 DEF Placed, Tested
      <4>6. \A v, u \in Worker : worker'[v] = p /\ worker'[u] = p => v = u
        BY <4>1, <4>4, <4>5 DEF Placed
      <4>7. Waits(p)' => Waits(p)
        BY <2>2, <4>2, <4>3 DEF Waits
      <4>8. p \in jobs' => p \in jobs /\ p # q
        BY <2>2
      <4>9. p = q => ~Queued(p) /\ ~Held(p)
        BY <2>2, <4>1 DEF Placed
      <4>10. QED
        BY <3>1, <4>1, <4>2, <4>3, <4>6, <4>7, <4>8, <4>9 DEF Placed
    <3>3. QED
      BY <1>12, <3>1, <3>2 DEF PlacesInv, OnePlace, TallyIn, Chosen, Live, Opened, Selected
  <2>3. QED
    BY <1>12, <2>1, <2>2 DEF Get
<1>13. ASSUME NEW w \in Worker, Finish(w)
      PROVE  PlacesInv'
  <2> DEFINE q == worker[w]
  <2>1. PICK o \in Outcome : results' = Append(results, [proxy |-> q, outcome |-> o])
    BY <1>13 DEF Finish
  <2>2. q \in Proxy /\ q \notin {"idle", "ended"} /\ worker' = [worker EXCEPT ![w] = "idle"]
        /\ UNCHANGED <<row, run, marks, item, jobs, main>> /\ hist'.scope = hist.scope
    BY <1>13, <1>0, RunAssumption DEF Finish, Hist
  <2>3. [proxy |-> q, outcome |-> o] \in Result
    BY <2>2 DEF Result
  <2>4. /\ Len(results') = Len(results) + 1
           /\ \A i \in 1..Len(results) : results'[i] = results[i]
        /\ results'[Len(results) + 1].proxy = q
    BY <1>0, <2>1, <2>3, Appending
  <2>5. ASSUME Live, NEW p \in Proxy PROVE Placed(p)'
    <3>1. Placed(p)
      BY <2>5 DEF PlacesInv, OnePlace
    <3>2. Held(p)' <=> Held(p)
      BY <2>2 DEF Held
    <3>3. \A v \in Worker : worker'[v] = p => worker[v] = p /\ (p = q => v # w)
      BY <1>0, <2>2, RunAssumption
    <3>4. p = q => Tested(p) /\ ~Tested(p)'
      BY <3>1, <3>3 DEF Tested, Placed
    <3>5. Tested(p)' => Tested(p)
      BY <3>3 DEF Tested
    <3>6. Queued(p)' => Queued(p) \/ p = q
      BY <1>0, <2>4 DEF Queued
    <3>7. p = q => ~Queued(p)
      BY <3>1, <3>4 DEF Placed
    <3>8. ASSUME NEW i \in 1..Len(results'), NEW j \in 1..Len(results'),
                 results'[i] # None, results'[j] # None, results'[i].proxy = p, results'[j].proxy = p
          PROVE  i = j
      <4>1. CASE p = q
        <5>1. i \notin 1..Len(results) /\ j \notin 1..Len(results)
          BY <2>4, <3>7, <3>8, <4>1 DEF Queued
        <5>2. QED
          BY <1>0, <2>4, <5>1
      <4>2. CASE p # q
        <5>1. i # Len(results) + 1 /\ j # Len(results) + 1
          BY <2>4, <3>8, <4>2
        <5>2. i \in 1..Len(results) /\ j \in 1..Len(results)
          BY <1>0, <2>4, <5>1
        <5>3. QED
          BY <2>4, <3>1, <3>8, <5>2 DEF Placed
      <4>3. QED
        BY <4>1, <4>2
    <3>9. \A v, u \in Worker : worker'[v] = p /\ worker'[u] = p => v = u
      BY <3>1, <3>3 DEF Placed
    <3>10. Waits(p)' => Waits(p)
      BY <2>2, <3>2, <3>4, <3>5, <3>6 DEF Waits
    <3>11. \A i, j \in 1..Len(results') :
              /\ results'[i] # None /\ results'[j] # None
              /\ results'[i].proxy = p /\ results'[j].proxy = p
              => i = j
      BY <3>8
    <3>12. QED
      BY <2>2, <3>1, <3>2, <3>4, <3>5, <3>6, <3>9, <3>10, <3>11 DEF Placed
  <2>6. QED
    BY <2>2, <2>5 DEF PlacesInv, OnePlace, TallyIn, Chosen, Live, Opened, Selected
<1>14. ASSUME NEW w \in Worker, Interrupt(w)
      PROVE  PlacesInv'
  <2>1. UNCHANGED <<row, run, marks, item, jobs, results, main, hist>>
        /\ \A v \in Worker : worker'[v] = worker[v] \/ worker'[v] \notin Proxy
    BY <1>14, <1>0, RunAssumption DEF Interrupt
  <2>2. Live => OnePlace'
    BY <1>0, <2>1, NothingNewIsPlaced DEF PlacesInv, Held
  <2>3. QED
    BY <2>1, <2>2 DEF PlacesInv, OnePlace, TallyIn, Chosen, Live, Opened, Selected
<1>15. CASE Apply
  <2>1. /\ results # <<>> /\ results' = Tail(results) /\ item.at = "get"
        /\ UNCHANGED <<row, run, marks, jobs, worker, main>> /\ hist'.scope = hist.scope
    BY <1>15, <1>0 DEF Apply, Hist
  <2>2. /\ Len(results) >= 1 /\ Head(results) = results[1]
           /\ Head(results) \in Result \cup {None}
        /\ Len(results') = Len(results) - 1
        /\ \A i \in 1..Len(results') : results'[i] = results[i + 1]
    BY <1>0, <2>1, Tailing
  <2>3. CASE item' \in {Ended, item}
    <3>1. item'.at # "mark" /\ item'.at # "tally"
      BY <2>1, <2>3 DEF Ended
    <3>2. Live => OnePlace'
      <4>1. \A i \in 1..Len(results') : i + 1 \in 1..Len(results) /\ results'[i] = results[i + 1]
        BY <1>0, <2>2
      <4>2. \A p \in Proxy : ~Held(p)'
        BY <3>1 DEF Held
      <4>3. Len(results') \in Nat
        BY <1>0, <2>2
      <4>4. QED
        BY <1>0, <2>1, <4>1, <4>2, <4>3, NothingNewIsPlaced DEF PlacesInv
    <3>3. QED
      BY <2>1, <3>1, <3>2 DEF PlacesInv, OnePlace, TallyIn, Chosen, Live, Opened, Selected
  <2>4. CASE Head(results) # None /\ item' = [at |-> "mark", result |-> Head(results)]
    <3> DEFINE q == Head(results).proxy
    <3>1. q = results[1].proxy /\ results[1] # None /\ 1 \in 1..Len(results)
      BY <1>0, <2>2, <2>4
    <3>2. ASSUME Live, NEW p \in Proxy PROVE Placed(p)'
      <4>1. Placed(p)
        BY <3>2 DEF PlacesInv, OnePlace
      <4>2. \A i \in 1..Len(results') : i + 1 \in 1..Len(results) /\ results'[i] = results[i + 1]
        BY <1>0, <2>2
      <4>3. Held(p)' => p = q
        BY <2>4 DEF Held
      <4>4. p = q => Queued(p)
        BY <3>1 DEF Queued
      <4>5. Queued(p)' => Queued(p)
        BY <4>2 DEF Queued
      <4>6. p = q => ~Queued(p)'
        <5> SUFFICES ASSUME p = q, NEW i \in 1..Len(results'), results'[i] # None, results'[i].proxy = p
                     PROVE  FALSE
          BY DEF Queued
        <5>1. i + 1 = 1
          BY <3>1, <4>1, <4>2 DEF Placed
        <5>2. QED
          BY <5>1
      <4>7. ASSUME NEW i \in 1..Len(results'), NEW j \in 1..Len(results'),
                   results'[i] # None, results'[j] # None, results'[i].proxy = p, results'[j].proxy = p
            PROVE  i = j
        <5>1. i + 1 = j + 1
          BY <4>1, <4>2, <4>7 DEF Placed
        <5>2. QED
          BY <5>1
      <4>8. (Tested(p)' <=> Tested(p)) /\ (p \in jobs' <=> p \in jobs)
        BY <2>1 DEF Tested
      <4>9. Waits(p)' => Waits(p)
        BY <4>3, <4>4, <4>5, <4>8 DEF Waits
      <4>10. \A i, j \in 1..Len(results') :
                /\ results'[i] # None /\ results'[j] # None
                /\ results'[i].proxy = p /\ results'[j].proxy = p
                => i = j
        BY <4>7
      <4>11. QED
        BY <2>1, <4>1, <4>3, <4>4, <4>5, <4>6, <4>8, <4>9, <4>10 DEF Placed
    <3>3. QED
      BY <2>1, <2>4, <3>2 DEF PlacesInv, OnePlace, TallyIn, Chosen, Live, Opened, Selected
  <2>5. QED
    BY <1>15, <2>3, <2>4 DEF Apply
<1>16. CASE Mark
  <2> DEFINE q == item.result.proxy
  <2>1. /\ marks' = marks \cup {q} /\ item' = [item EXCEPT !.at = "tally"]
           /\ item.at = "mark"
        /\ UNCHANGED <<row, run, jobs, worker, results, main, hist>> /\ q \in Proxy
    BY <1>16 DEF Mark, Typed, Result
  <2>2. item'.at = "tally" /\ item'.result = item.result
    BY <2>1 DEF Typed, TypeOK
  <2>3. Live
    BY <2>1 DEF Threads
  <2>4. OnePlace'
    <3>1. \A p \in Proxy : ~Held(p)' /\ (Held(p) <=> p = q)
      BY <2>1, <2>2 DEF Held
    <3>2. \A p \in marks' : p \in marks \/ (Held(p) /\ ~Held(p)')
      BY <2>1, <3>1
    <3>3. \A i \in 1..Len(results') : i + 0 \in 1..Len(results) /\ results'[i] = results[i + 0]
      BY <1>0, <2>1
    <3>4. Len(results') \in Nat /\ jobs' \subseteq jobs /\ run'.rows = run.rows
          /\ \A w \in Worker : worker'[w] = worker[w]
      BY <1>0, <2>1
    <3>5. QED
      BY <1>0, <2>3, <3>1, <3>2, <3>3, <3>4, NothingNewIsPlaced DEF PlacesInv
  <2>5. q \in hist.scope
    <3>1. Waits(q) /\ Placed(q)
      BY <2>1, <2>3 DEF Waits, Held, PlacesInv, OnePlace
    <3>2. QED
      BY <2>3, <3>1 DEF Placed, PlacesInv, Chosen, Live, Selected, Opened
  <2>6. QED
    BY <2>1, <2>2, <2>3, <2>4, <2>5 DEF PlacesInv, TallyIn, Chosen, Live, Opened, Selected
<1>17. CASE Tally
  <2>1. UNCHANGED <<row, marks, jobs, worker, results, main, hist>> /\ item'.at = "get"
    BY <1>17 DEF Tally, Getting
  <2>2. run'.rows = run.rows /\ run'.ids = run.ids
    BY <1>17, <1>0 DEF Tally, Tallied, Run
  <2>3. Live => OnePlace'
    BY <1>0, <2>1, <2>2, NothingNewIsPlaced DEF PlacesInv, Held
  <2>4. QED
    BY <2>1, <2>2, <2>3 DEF PlacesInv, OnePlace, TallyIn, Chosen, Live, Opened, Selected
<1>18. CASE Fault
  <2>1. UNCHANGED <<row, marks, jobs, worker, main>> /\ item'.at = "get"
        /\ hist'.scope = hist.scope
    BY <1>18, <1>0 DEF Fault, Getting, Hist
  <2>2. run'.rows = run.rows /\ run'.ids = run.ids
    BY <1>18, <1>0 DEF Fault, Tallied, Run
  <2>3. PICK k \in {0, 1} : \A i \in 1..Len(results') : i + k \in 1..Len(results) /\ results'[i] = results[i + k]
    <3>1. CASE results' = results
      BY <1>0, <3>1
    <3>2. CASE results # <<>> /\ results' = Tail(results)
      <4>1. \A i \in 1..Len(results') : i + 1 \in 1..Len(results) /\ results'[i] = results[i + 1]
        BY <1>0, <3>2, Tailing
      <4>2. QED
        BY <4>1
    <3>3. QED
      BY <1>18, <3>1, <3>2 DEF Fault
  <2>4. Len(results') \in Nat
    BY <1>18, <1>0, Tailing DEF Fault
  <2>5. Live => OnePlace'
    BY <1>0, <2>1, <2>2, <2>3, <2>4, NothingNewIsPlaced DEF PlacesInv, Held
  <2>6. QED
    BY <2>1, <2>2, <2>5 DEF PlacesInv, OnePlace, TallyIn, Chosen, Live, Opened, Selected
<1>19. CASE Start
  BY <1>19 DEF Start, Launch, threads, NewHist, Threads, PlacesInv, OnePlace, TallyIn,
     Chosen, Live, Opened, Selected
<1>20. CASE Resume
  BY <1>20, <1>0 DEF Resume, Launch, Paused, threads, PlacesInv, OnePlace, TallyIn, Chosen,
     Live, Opened, Selected, Placed, Waits, Tested, Queued, Held
<1>21. CASE Relaunch
  BY <1>21, <1>0 DEF Relaunch, Launch, Paused, threads, PlacesInv, OnePlace, TallyIn,
     Chosen, Live, Opened, Selected, Placed, Waits, Tested, Queued, Held
<1>22. ASSUME NEW a \in Action, Request(a)
      PROVE  PlacesInv'
  BY <1>22, <1>0 DEF Request, threads, PlacesInv, OnePlace, TallyIn, Chosen, Live, Opened,
     Selected, Placed, Waits, Tested, Queued, Held
<1>23. CASE Signal
  BY <1>23, <1>0 DEF Signal, threads, PlacesInv, OnePlace, TallyIn, Chosen, Live, Opened,
     Selected, Placed, Waits, Tested, Queued, Held
<1>24. CASE Record
  BY <1>24, <1>0 DEF Record, threads, PlacesInv, OnePlace, TallyIn, Chosen, Live, Opened,
     Selected, Placed, Waits, Tested, Queued, Held
<1>25. CASE Kill
  <2>1. main' = "off" /\ item'.at = "ended" /\ UNCHANGED <<row, marks>>
        /\ hist'.scope = hist.scope
    BY <1>25, <1>0 DEF Kill, NoThreads, Ended, Hist
  <2>2. QED
    BY <2>1 DEF PlacesInv, OnePlace, TallyIn, Chosen, Live, Opened, Selected
<1>26. CASE BareSignal
  BY <1>26, <1>0 DEF BareSignal, threads, PlacesInv, OnePlace, TallyIn, Chosen, Live,
     Opened, Selected, Placed, Waits, Tested, Queued, Held
<1>27. CASE Reconcile
  BY <1>27, <1>0 DEF Reconcile, threads, PlacesInv, OnePlace, TallyIn, Chosen, Live, Opened,
     Selected, Placed, Waits, Tested, Queued, Held
<1>28. ASSUME NEW p \in Proxy, EditTable(p)
      PROVE  PlacesInv'
  BY <1>28, <1>0 DEF EditTable, threads, PlacesInv, OnePlace, TallyIn, Chosen, Live, Opened,
     Selected, Placed, Waits, Tested, Queued, Held
<1>29. CASE UNCHANGED vars
  BY <1>29, <1>0 DEF vars, threads, PlacesInv, OnePlace, TallyIn, Chosen, Live, Opened,
     Selected, Placed, Waits, Tested, Queued, Held
<1>30. QED
  BY <1>1, <1>2, <1>3, <1>4, <1>5, <1>6, <1>7, <1>8, <1>9, <1>10, <1>11, <1>12,
     <1>13, <1>14, <1>15, <1>16, <1>17, <1>18, <1>19, <1>20, <1>21, <1>22, <1>23,
     <1>24, <1>25, <1>26, <1>27, <1>28, <1>29
     DEF Next, MainThread, WorkerThread, Processor
-----------------------------------------------------------------------------
LEMMA PersistedIs ==
  ASSUME Typed, NEW r \in Run, NEW status \in Status, Persist(r, status)
  PROVE  /\ session = None => session' = None
         /\ session # None => /\ session' # None /\ session'.status = status
                              /\ session'.tested = r.tested
                                 /\ session'.total = session.total
<1>1. CASE session = None
  BY <1>1 DEF Persist
<1>2. CASE session # None
  <2>1. session \in Session
        /\ session' = [session EXCEPT !.status = status, !.tested = r.tested, !.by = r.by]
    BY <1>2 DEF Typed, TypeOK, Persist
  <2>2. session' \in Session
    BY <2>1 DEF Run, Session
  <2>3. QED
    BY <1>2, <2>1, <2>2, RunAssumption DEF Session
<1>3. QED
  BY <1>1, <1>2

LEMMA RenamedIs ==
  ASSUME Typed, session # None, NEW status \in Status, session' = [session EXCEPT !.status = status]
  PROVE  /\ session' # None /\ session'.status = status
         /\ session'.tested = session.tested /\ session'.total = session.total
<1>1. session \in Session /\ session' \in Session
  BY DEF Typed, TypeOK, Session
<1>2. QED
  BY <1>1, RunAssumption DEF Session

LEMMA Sizes ==
  ASSUME Typed
  PROVE  /\ IsFiniteSet(marks) /\ Cardinality(marks) \in Nat
         /\ IsFiniteSet(hist.scope) /\ Cardinality(hist.scope) \in Nat
         /\ hist.scope \subseteq Proxy /\ marks \subseteq Proxy
<1>1. marks \subseteq Proxy /\ hist.scope \subseteq Proxy /\ IsFiniteSet(Proxy)
  BY RunAssumption DEF Typed, TypeOK, Hist
<1>2. QED
  BY <1>1, FS_Subset, FS_CardinalityType

LEMMA NextSizes ==
  ASSUME Typed'
  PROVE  /\ IsFiniteSet(marks') /\ Cardinality(marks') \in Nat
         /\ IsFiniteSet(hist'.scope) /\ Cardinality(hist'.scope) \in Nat
<1>1. marks' \subseteq Proxy /\ hist'.scope \subseteq Proxy /\ IsFiniteSet(Proxy)
  BY RunAssumption DEF Typed, TypeOK, Hist
<1>2. QED
  BY <1>1, FS_Subset, FS_CardinalityType

(* One transaction marks, the next counts: they are one apart in between, and *)
(* stay so only when a death or a fault comes in between.                     *)
LEMMA CountsInvariant ==
  ASSUME Typed, Typed', Threads, PlacesInv, PlacesInv', Counts, [Next]_vars
  PROVE  Counts'
<1>0. /\ Cardinality(marks) \in Nat /\ Cardinality(marks') \in Nat
      /\ Cardinality(hist.scope) \in Nat /\ Cardinality(hist'.scope) \in Nat
      /\ run.tested \in Nat /\ run.total \in Nat /\ hist.kills \in Nat
         /\ hist.faults \in Nat
      /\ session # None => session.tested \in Nat /\ session.total \in Nat
      /\ run \in Run /\ hist \in Hist /\ (session # None => session \in Session)
  <2>1. /\ Cardinality(marks) \in Nat /\ Cardinality(marks') \in Nat
        /\ Cardinality(hist.scope) \in Nat /\ Cardinality(hist'.scope) \in Nat
    BY Sizes, NextSizes
  <2>2. run \in Run /\ hist \in Hist /\ (session # None => session \in Session)
    BY DEF Typed, TypeOK
  <2>3. hist.kills \in Nat /\ hist.faults \in Nat
    BY <2>2, RunAssumption DEF Hist
  <2>4. run.tested \in Nat /\ run.total \in Nat
    BY <2>2 DEF Run
  <2>5. session # None => session.tested \in Nat /\ session.total \in Nat
    BY <2>2 DEF Session
  <2>6. QED
    BY <2>1, <2>2, <2>3, <2>4, <2>5
<1>1. CASE WaitEnds
  BY <1>1, <1>0 DEF WaitEnds, threads, Counts, Running, Opened, Selected, Tallying
<1>2. CASE Load
  <2>1. CASE Paused
    <3>1. /\ run'.tested = session.tested /\ run'.total = session.total
             /\ run'.failed = FALSE
          /\ session # None /\ main' = "select" /\ item.at = "ended"
          /\ UNCHANGED <<session, marks, item>> /\ hist'.kills = hist.kills
          /\ hist'.faults = hist.faults /\ hist'.scope = hist.scope
      BY <1>2, <1>0, <2>1 DEF Load, Paused, NewRun, Hist, Threads, Live, threads
    <3>2. QED
      BY <1>0, <3>1 DEF Counts, Running, Opened, Selected, Tallying
  <2>2. CASE ~Paused
    <3>1. /\ run'.tested = 0 /\ run'.total = 0 /\ run'.failed = FALSE /\ item.at = "ended"
          /\ session' = None /\ main' = "select" /\ marks' = {} /\ hist' = NewHist
             /\ item' = item
      BY <1>2, <2>2 DEF Load, NewRun, Threads, Live, threads
    <3>2. QED
      BY <1>0, <3>1 DEF Counts, Running, Opened, Selected, Tallying
  <2>3. QED
    BY <2>1, <2>2
<1>3. CASE Select
  <2> DEFINE chosen == Rows \ run.ids
  <2>1. /\ hist'.scope = hist.scope \cup chosen /\ hist'.kills = hist.kills
           /\ hist'.faults = hist.faults
        /\ run'.tested = run.tested /\ run'.failed = run.failed /\ run.ids = marks
        /\ main = "select" /\ main' = "open" /\ UNCHANGED <<session, marks, item>>
    BY <1>3, <1>0 DEF Select, Hist, Run, PlacesInv, Chosen, threads
  <2>2. run'.total = run.total \/ run'.total = Cardinality(chosen) + Cardinality(marks)
    BY <1>3, <1>0, <2>1 DEF Select, Run
  <2>3. IsFiniteSet(hist'.scope) /\ IsFiniteSet(hist.scope)
        /\ hist.scope \subseteq hist'.scope
    BY <2>1, Sizes, NextSizes
  <2>4. Cardinality(hist.scope) <= Cardinality(hist'.scope)
    BY <2>3, FS_Subset
  <2>5. Cardinality(chosen) + Cardinality(marks) <= Cardinality(hist'.scope)
    <3>1. marks \subseteq hist.scope
      BY DEF PlacesInv, Chosen
    <3>2. chosen \cup marks \subseteq hist'.scope /\ chosen \cap marks = {}
      BY <2>1, <3>1
    <3>3. IsFiniteSet(chosen) /\ IsFiniteSet(marks) /\ IsFiniteSet(chosen \cup marks)
      BY <2>3, <3>2, FS_Subset
    <3>4. Cardinality(chosen \cup marks) <= Cardinality(hist'.scope)
      BY <2>3, <3>2, FS_Subset
    <3>5. Cardinality(chosen \cup marks) = Cardinality(chosen) + Cardinality(marks) - Cardinality(chosen \cap marks)
      BY <3>3, FS_Union
    <3>6. Cardinality(chosen) \in Nat /\ Cardinality(chosen \cap marks) = 0
      BY <3>2, <3>3, FS_CardinalityType, FS_EmptySet
    <3>7. QED
      BY <1>0, <3>4, <3>5, <3>6
  <2> HIDE DEF chosen
  <2>6. QED
    BY <1>0, <2>1, <2>2, <2>4, <2>5 DEF Counts, Running, Opened, Selected, Tallying
<1>4. CASE Open
  <2>1. /\ session' # None /\ session'.total = run.total
        /\ session'.tested = IF session = None THEN run.tested ELSE session.tested
    <3>1. session' \in Session
      BY <1>4, <1>0, RunAssumption DEF Open, Session, Run, Status
    <3>2. QED
      BY <1>4, <1>0, <3>1, RunAssumption DEF Open, Session
  <2>2. UNCHANGED <<run, marks, hist, item>> /\ main = "open" /\ main' # "select"
    BY <1>4 DEF Open, threads
  <2>3. item.at # "tally" /\ (session = None => Cardinality(marks) = 0)
    BY <2>2, FS_EmptySet DEF Threads, Live, Counts
  <2>4. QED
    BY <1>0, <2>1, <2>2, <2>3 DEF Counts, Running, Opened, Selected, Tallying
<1>5. CASE Empty
  <2>1. PICK status \in Status : Persist(run, status)
    BY <1>5 DEF Empty, Status
  <2>2. session # None /\ session' # None /\ session'.tested = run.tested
        /\ session'.total = session.total
    BY <1>5, <1>0, <2>1, PersistedIs DEF Empty, Counts, Opened
  <2>3. /\ item'.at # "tally" /\ item.at # "tally" /\ UNCHANGED <<marks, hist>>
           /\ main' \in {"wait", "exit"}
    BY <1>5 DEF Empty, AfterCycle, Threads, Live, threads
  <2>4. QED
    BY <1>5, <1>0, <2>2, <2>3 DEF Empty, Counts, Running, Opened, Selected, Tallying
<1>6. CASE Feed
  <2>1. session # None /\ session' # None /\ session'.tested = run.tested
        /\ session'.total = session.total
    BY <1>6, <1>0, PersistedIs DEF Feed, Counts, Opened, Status
  <2>2. /\ run'.tested = run.tested /\ run'.total = run.total /\ run'.failed = run.failed
        /\ item'.at # "tally" /\ item.at # "tally" /\ UNCHANGED <<marks, hist>>
           /\ main' # "select"
    BY <1>6, <1>0 DEF Feed, Run, Getting, Threads, Live, threads
  <2>3. QED
    BY <1>6, <1>0, <2>1, <2>2 DEF Feed, Counts, Running, Opened, Selected, Tallying
<1>7. CASE Join
  BY <1>7, <1>0 DEF Join, threads, Counts, Running, Opened, Selected, Tallying
<1>8. CASE Drain
  <2>1. session # None /\ session' # None /\ session'.tested = run.tested
        /\ session'.total = session.total
    BY <1>8, <1>0, PersistedIs DEF Drain, Counts, Opened, Status
  <2>2. /\ run'.tested = run.tested /\ run'.total = run.total /\ run'.failed = run.failed
        /\ item'.at # "tally" /\ item.at # "tally" /\ UNCHANGED <<marks, hist>>
           /\ main' # "select"
    BY <1>8, <1>0 DEF Drain, Run, Getting, Threads, Live, threads
  <2>3. QED
    BY <1>8, <1>0, <2>1, <2>2 DEF Drain, Counts, Running, Opened, Selected, Tallying
<1>9. CASE Decide
  <2>1. PICK status \in Status : Persist(run, status)
    BY <1>9 DEF Decide, Status, Verdict
  <2>2. session # None /\ session' # None /\ session'.tested = run.tested
        /\ session'.total = session.total
    BY <1>9, <1>0, <2>1, PersistedIs DEF Decide, Counts, Opened
  <2>3. /\ item'.at # "tally" /\ item.at # "tally" /\ UNCHANGED <<marks, hist>>
           /\ main' \in {"wait", "exit"}
    BY <1>9 DEF Decide, AfterCycle, Threads, Live, threads
  <2>4. QED
    BY <1>9, <1>0, <2>2, <2>3 DEF Decide, Counts, Running, Opened, Selected, Tallying
<1>10. CASE Exit
  <2>1. \/ session' = session
        \/ session # None /\ \E status \in Status : session' = [session EXCEPT !.status = status]
    BY <1>10, <1>0 DEF Exit, Status, Run
  <2>2. /\ session = None => session' = None
        /\ session # None => /\ session' # None /\ session'.tested = session.tested
                             /\ session'.total = session.total
    BY <2>1, RenamedIs
  <2>3. UNCHANGED <<marks, hist, item>> /\ main' = "leave"
    BY <1>10 DEF Exit, threads
  <2>4. QED
    BY <1>0, <2>2, <2>3 DEF Counts, Running, Opened, Selected, Tallying
<1>11. CASE Leave
  BY <1>11, <1>0 DEF Leave, threads, Counts, Running, Opened, Selected, Tallying
<1>12. ASSUME NEW w \in Worker, Get(w)
      PROVE  Counts'
  BY <1>12, <1>0 DEF Get, threads, Counts, Running, Opened, Selected, Tallying
<1>13. ASSUME NEW w \in Worker, Finish(w)
      PROVE  Counts'
  <2>1. /\ UNCHANGED <<session, marks, run, main, item>>
        /\ hist'.kills = hist.kills /\ hist'.faults = hist.faults
           /\ hist'.scope = hist.scope
    BY <1>13, <1>0 DEF Finish, Hist
  <2>2. QED
    BY <1>0, <2>1 DEF Counts, Running, Opened, Selected, Tallying
<1>14. ASSUME NEW w \in Worker, Interrupt(w)
      PROVE  Counts'
  BY <1>14, <1>0 DEF Interrupt, threads, Counts, Running, Opened, Selected, Tallying
<1>15. CASE Apply
  <2>1. /\ UNCHANGED <<session, marks, run, main>> /\ item.at # "tally"
           /\ item'.at # "tally"
        /\ hist'.kills = hist.kills /\ hist'.faults = hist.faults
           /\ hist'.scope = hist.scope
    BY <1>15, <1>0 DEF Apply, Ended, Hist
  <2>2. QED
    BY <1>0, <2>1 DEF Counts, Running, Opened, Selected, Tallying
<1>16. CASE Mark
  <2> DEFINE q == item.result.proxy
  <2>1. /\ marks' = marks \cup {q} /\ item.at = "mark"
           /\ item' = [item EXCEPT !.at = "tally"]
        /\ UNCHANGED <<session, run, main, hist>> /\ q \in Proxy
    BY <1>16 DEF Mark, Typed, Result
  <2>2. item'.at = "tally"
    BY <2>1 DEF Typed, TypeOK
  <2>3. Live
    BY <2>1 DEF Threads
  <2>4. q \notin marks
    BY <2>1, <2>3 DEF PlacesInv, OnePlace, Placed, Waits, Held
  <2>5. Cardinality(marks') = Cardinality(marks) + 1
    BY <2>1, <2>4, Sizes, FS_AddElement
  <2>6. session # None
    BY <2>3 DEF Live, Counts, Opened
  <2>7. QED
    BY <1>0, <2>1, <2>2, <2>3, <2>5, <2>6 DEF Counts, Running, Opened, Selected, Live,
       Tallying
<1>17. CASE Tally
  <2>1. /\ run' = Tallied /\ Persist(Tallied, "running") /\ item'.at = "get"
           /\ item.at = "tally"
        /\ UNCHANGED <<marks, hist, main>>
    BY <1>17 DEF Tally, Getting
  <2>2. Tallied \in Run
    BY <2>1, TalliedIsRun DEF Typed, TypeOK
  <2>3. run'.tested = run.tested + 1 /\ run'.total = run.total /\ run'.failed = run.failed
    BY <1>0, <2>1 DEF Tallied, Run
  <2>4. Live
    BY <2>1 DEF Threads
  <2>5. session # None
    BY <2>4 DEF Live, Counts, Opened
  <2>6. session' # None /\ session'.tested = run'.tested /\ session'.total = session.total
    BY <2>1, <2>2, <2>5, PersistedIs DEF Status
  <2>7. QED
    BY <1>0, <2>1, <2>3, <2>4, <2>5, <2>6 DEF Counts, Running, Opened, Selected, Live,
       Tallying
<1>18. CASE Fault
  <2>1. /\ UNCHANGED <<session, marks, main>> /\ item'.at = "get" /\ item.at # "ended"
        /\ hist'.kills = hist.kills /\ hist'.faults = hist.faults + 1
           /\ hist'.scope = hist.scope
    BY <1>18, <1>0 DEF Fault, Getting, Hist
  <2>2. /\ run'.tested = run.tested + Tallying /\ run'.total = run.total
    BY <1>18, <1>0 DEF Fault, Tallied, Run, Tallying
  <2>3. Live
    BY <2>1 DEF Threads
  <2>4. session # None
    BY <2>3 DEF Live, Counts, Opened
  <2>5. QED
    BY <1>0, <2>1, <2>2, <2>3, <2>4 DEF Counts, Running, Opened, Selected, Live, Tallying
<1>19. CASE Start
  <2>1. session' = None /\ marks' = {}
        /\ main' \notin {"off", "select", "open", "empty", "feed", "join", "drain", "decide"}
    BY <1>19 DEF Start, Launch
  <2>2. QED
    BY <2>1 DEF Counts, Running, Opened, Selected
<1>20. CASE Resume
  BY <1>20, <1>0 DEF Resume, Launch, Paused, threads, Counts, Running, Opened, Selected,
     Tallying
<1>21. CASE Relaunch
  BY <1>21, <1>0 DEF Relaunch, Launch, Paused, threads, Counts, Running, Opened, Selected,
     Tallying
<1>22. ASSUME NEW a \in Action, Request(a)
      PROVE  Counts'
  BY <1>22, <1>0 DEF Request, threads, Counts, Running, Opened, Selected, Tallying
<1>23. CASE Signal
  BY <1>23, <1>0 DEF Signal, threads, Counts, Running, Opened, Selected, Tallying
<1>24. CASE Record
  <2>1. \/ session' = session
        \/ session # None /\ \E status \in Status : session' = [session EXCEPT !.status = status]
    BY <1>24, <1>0 DEF Record, Status, Run
  <2>2. /\ session = None => session' = None
        /\ session # None => /\ session' # None /\ session'.tested = session.tested
                             /\ session'.total = session.total
    BY <2>1, RenamedIs
  <2>3. UNCHANGED <<marks, hist, item>> /\ main' = "off"
    BY <1>24 DEF Record, threads
  <2>4. QED
    BY <1>0, <2>2, <2>3 DEF Counts, Running, Opened, Selected, Tallying
<1>25. CASE Kill
  <2>1. /\ UNCHANGED <<session, marks>> /\ item'.at = "ended" /\ main' = "off"
        /\ hist'.kills = hist.kills + 1 /\ hist'.faults = hist.faults
           /\ hist'.scope = hist.scope
    BY <1>25, <1>0 DEF Kill, NoThreads, Ended, Hist
  <2>2. QED
    BY <1>0, <2>1 DEF Counts, Running, Opened, Selected, Tallying
<1>26. CASE BareSignal
  BY <1>26, <1>0 DEF BareSignal, threads, Counts, Running, Opened, Selected, Tallying
<1>27. CASE Reconcile
  <2>1. \/ session' = session
        \/ session # None /\ \E status \in Status : session' = [session EXCEPT !.status = status]
    BY <1>27, <1>0 DEF Reconcile, Status, Run
  <2>2. /\ session = None => session' = None
        /\ session # None => /\ session' # None /\ session'.tested = session.tested
                             /\ session'.total = session.total
    BY <2>1, RenamedIs
  <2>3. UNCHANGED <<marks, hist, item>> /\ main' = "off"
    BY <1>27 DEF Reconcile, threads
  <2>4. QED
    BY <1>0, <2>2, <2>3 DEF Counts, Running, Opened, Selected, Tallying
<1>28. ASSUME NEW p \in Proxy, EditTable(p)
      PROVE  Counts'
  BY <1>28, <1>0 DEF EditTable, threads, Counts, Running, Opened, Selected, Tallying
<1>29. CASE UNCHANGED vars
  BY <1>29, <1>0 DEF vars, threads, Counts, Running, Opened, Selected, Tallying
<1>30. QED
  BY <1>1, <1>2, <1>3, <1>4, <1>5, <1>6, <1>7, <1>8, <1>9, <1>10, <1>11, <1>12,
     <1>13, <1>14, <1>15, <1>16, <1>17, <1>18, <1>19, <1>20, <1>21, <1>22, <1>23,
     <1>24, <1>25, <1>26, <1>27, <1>28, <1>29
     DEF Next, MainThread, WorkerThread, Processor
-----------------------------------------------------------------------------
LEMMA TailStaysQueued ==
  ASSUME Typed, results # <<>>, results' = Tail(results), NEW p \in Proxy, Queued(p)
  PROVE  Queued(p)' \/ (Head(results) # None /\ Head(results).proxy = p)
<1>1. results \in Seq(Result \cup {None})
  BY DEF Typed, TypeOK
<1>2. PICK i \in 1..Len(results) : results[i] # None /\ results[i].proxy = p
  BY DEF Queued
<1>3. Len(results) \in Nat /\ Len(results') = Len(results) - 1 /\ Head(results) = results[1]
      /\ \A j \in 1..Len(results') : results'[j] = results[j + 1]
  BY <1>1, Tailing
<1>4. CASE i = 1
  BY <1>2, <1>3, <1>4
<1>5. CASE i # 1
  <2>1. i - 1 \in 1..Len(results') /\ results'[i - 1] = results[i]
    BY <1>3, <1>5
  <2>2. QED
    BY <1>2, <2>1 DEF Queued
<1>6. QED
  BY <1>4, <1>5

LEMMA AppendStaysQueued ==
  ASSUME Typed, NEW r \in Result \cup {None}, results' = Append(results, r), NEW p \in Proxy
  PROVE  /\ Queued(p) => Queued(p)'
         /\ r # None /\ r.proxy = p => Queued(p)'
<1>1. results \in Seq(Result \cup {None})
  BY DEF Typed, TypeOK
<1>2. /\ Len(results) \in Nat /\ Len(results') = Len(results) + 1
      /\ results'[Len(results) + 1] = r
         /\ \A i \in 1..Len(results) : results'[i] = results[i]
  BY <1>1, Appending
<1>3. Queued(p) => Queued(p)'
  BY <1>2 DEF Queued
<1>4. Len(results) + 1 \in 1..Len(results')
  BY <1>2
<1>5. QED
  BY <1>2, <1>3, <1>4 DEF Queued

(* What was recorded or deleted stays so while the session lasts. *)
LEMMA CoveringInvariant ==
  ASSUME Typed, Threads, PlacesInv, Covering, [Next]_vars
  PROVE  Covering'
<1>0. /\ row \in [Proxy -> {"absent", "present", "deleted"}] /\ marks \subseteq Proxy
      /\ worker \in [Worker -> Proxy \cup {"idle", "ended"}] /\ jobs \subseteq Proxy
      /\ run \in Run /\ run.rows \subseteq Proxy /\ hist \in Hist
         /\ hist.scope \subseteq Proxy
  BY DEF Typed, TypeOK, Run, Hist
<1>1. CASE WaitEnds
  BY <1>1, <1>0 DEF WaitEnds, threads, Covering, Selected, Opened, Live, Covered, Tested,
     Queued, Held
<1>2. CASE Load
  BY <1>2 DEF Load, Covering, Selected, Opened, Live
<1>3. CASE Select
  <2>1. run'.rows = Rows \ run.ids /\ hist'.scope = hist.scope \cup (Rows \ run.ids)
        /\ hist'.dropped = (hist.scope \ run.ids) \cap Unmatched
        /\ run.ids = marks /\ main' = "open" /\ UNCHANGED <<row, marks>>
    BY <1>3, <1>0 DEF Select, Run, Hist, PlacesInv, Chosen
  <2>2. \A p \in hist.scope : p \in Proxy /\ row[p] # "absent"
    BY <1>0 DEF PlacesInv, Chosen
  <2>3. \A p \in hist.scope : row[p] = "present" \/ row[p] = "deleted"
    BY <1>0, <2>2
  <2>4. QED
    BY <2>1, <2>2, <2>3 DEF Rows, Unmatched, Covering, Selected, Opened, Live
<1>4. CASE Open
  BY <1>4 DEF Open, Covering, Selected, Opened, Live
<1>5. CASE Empty
  BY <1>5 DEF Empty, AfterCycle, Covering, Selected, Opened, Live
<1>6. CASE Feed
  <2>1. ~stop => jobs' = run.rows
    BY <1>6 DEF Feed
  <2>2. main' = "join" /\ UNCHANGED <<row, marks, run, stop, hist>>
    BY <1>6 DEF Feed
  <2>3. QED
    BY <1>6, <2>1, <2>2 DEF Feed, Covering, Selected, Opened, Live
<1>7. CASE Join
  <2>1. results' = Append(results, None) /\ main = "join" /\ main' = "drain"
        /\ UNCHANGED <<row, marks, run, stop, hist, jobs, worker, item>>
    BY <1>7 DEF Join
  <2>2. \A p \in Proxy : (Tested(p)' <=> Tested(p)) /\ (Held(p)' <=> Held(p)) /\ (Queued(p) => Queued(p)')
    BY <2>1, AppendStaysQueued DEF Tested, Held
  <2>3. QED
    BY <1>0, <2>1, <2>2 DEF Covering, Selected, Opened, Live
<1>8. CASE Drain
  <2>1. /\ main = "drain" /\ item.at = "ended" /\ main' = "decide"
           /\ UNCHANGED <<row, marks, stop, hist>>
        /\ run'.rows = run.rows /\ run'.failed = run.failed
    BY <1>8, <1>0 DEF Drain, Run
  <2>2. results = <<>> /\ \A w \in Worker : worker[w] = "ended"
    BY <2>1 DEF Threads
  <2>3. ~stop => jobs = {}
    BY <2>1, <2>2, RunAssumption DEF Threads, Live
  <2>4. \A p \in Proxy : ~Tested(p) /\ ~Queued(p) /\ ~Held(p)
    <3>1. Len(results) = 0
      BY <2>2
    <3>2. QED
      BY <2>1, <2>2, <3>1, RunAssumption DEF Tested, Queued, Held
  <2>5. ~stop /\ ~run.failed => Covered
    BY <1>0, <2>1, <2>3, <2>4 DEF Covering, Selected, Opened, Live, Covered
  <2>6. QED
    BY <2>1, <2>5 DEF Covering, Selected, Opened, Live, Covered
<1>9. CASE Decide
  BY <1>9 DEF Decide, AfterCycle, Covering, Selected, Opened, Live
<1>10. CASE Exit
  BY <1>10, <1>0 DEF Exit, threads, Covering, Selected, Opened, Live, Covered, Tested,
     Queued, Held
<1>11. CASE Leave
  BY <1>11, <1>0 DEF Leave, threads, Covering, Selected, Opened, Live, Covered, Tested,
     Queued, Held
<1>12. ASSUME NEW w \in Worker, Get(w)
      PROVE  Covering'
  <2>1. UNCHANGED <<row, marks, run, stop, hist, main, results, item>>
    BY <1>12 DEF Get
  <2>2. ASSUME NEW p \in Proxy, p \in jobs \/ Tested(p), ~stop PROVE p \in jobs' \/ Tested(p)'
    <3>1. worker[w] = "idle" /\ worker[w] # p
      BY <1>12, RunAssumption DEF Get
    <3>2. CASE worker' = [worker EXCEPT ![w] = "ended"] /\ jobs' = jobs
      BY <1>0, <2>2, <3>1, <3>2 DEF Tested
    <3>3. CASE \E q \in jobs : worker' = [worker EXCEPT ![w] = q] /\ jobs' = jobs \ {q}
      BY <1>0, <2>2, <3>1, <3>3 DEF Tested
    <3>4. QED
      BY <1>12, <3>2, <3>3 DEF Get
  <2>3. \A p \in Proxy : (Queued(p)' <=> Queued(p)) /\ (Held(p)' <=> Held(p))
    BY <2>1 DEF Queued, Held
  <2>4. QED
    BY <1>0, <2>1, <2>2, <2>3 DEF Covering, Selected, Opened, Live, Covered
<1>13. ASSUME NEW w \in Worker, Finish(w)
      PROVE  Covering'
  <2>1. /\ UNCHANGED <<row, marks, run, stop, main, item, jobs>> /\ hist'.scope = hist.scope /\ hist'.dropped = hist.dropped
        /\ worker' = [worker EXCEPT ![w] = "idle"] /\ worker[w] \in Proxy
    BY <1>13, <1>0 DEF Finish, Hist
  <2>2. PICK o \in Outcome : results' = Append(results, [proxy |-> worker[w], outcome |-> o])
    BY <1>13 DEF Finish
  <2>3. /\ [proxy |-> worker[w], outcome |-> o] \in Result
        /\ [proxy |-> worker[w], outcome |-> o] # None
    BY <2>1, RunAssumption DEF Result
  <2>4. \A p \in Proxy : (Queued(p) => Queued(p)') /\ (worker[w] = p => Queued(p)') /\ (Held(p)' <=> Held(p))
    BY <2>1, <2>2, <2>3, AppendStaysQueued DEF Held
  <2>5. \A p \in Proxy : Tested(p) => Tested(p)' \/ worker[w] = p
    BY <1>0, <2>1 DEF Tested
  <2>6. QED
    BY <1>0, <2>1, <2>4, <2>5 DEF Covering, Selected, Opened, Live, Covered
<1>14. ASSUME NEW w \in Worker, Interrupt(w)
      PROVE  Covering'
  BY <1>14 DEF Interrupt, Covering, Selected, Opened, Live, Covered
<1>15. CASE Apply
  <2>1. /\ UNCHANGED <<row, marks, run, stop, main, jobs, worker>>
           /\ hist'.scope = hist.scope /\ hist'.dropped = hist.dropped
        /\ results # <<>> /\ results' = Tail(results) /\ item.at = "get"
    BY <1>15, <1>0 DEF Apply, Hist
  <2>2. \A p \in Proxy : ~Held(p) /\ (Tested(p)' <=> Tested(p))
    BY <2>1 DEF Held, Tested
  <2>3. \A p \in Proxy : Queued(p) => Queued(p)' \/ (Head(results) # None /\ Head(results).proxy = p)
    BY <2>1, TailStaysQueued
  <2>4. ASSUME NEW p \in Proxy, Head(results) # None, Head(results).proxy = p
        PROVE  Held(p)' \/ row[p] = "deleted"
    BY <1>15, <2>4 DEF Apply, Held
  <2>5. main # "decide"
    BY <2>1 DEF Threads, Live
  <2>6. QED
    BY <1>0, <2>1, <2>2, <2>3, <2>4, <2>5 DEF Covering, Selected, Opened, Live
<1>16. CASE Mark
  <2>1. /\ marks' = marks \cup {item.result.proxy}
        /\ UNCHANGED <<row, run, stop, main, jobs, worker, results, hist>>
    BY <1>16 DEF Mark
  <2>2. \A p \in Proxy : /\ Held(p) => p \in marks'
                         /\ (Tested(p)' <=> Tested(p)) /\ (Queued(p)' <=> Queued(p))
    BY <2>1 DEF Held, Tested, Queued
  <2>3. QED
    BY <1>0, <2>1, <2>2 DEF Covering, Selected, Opened, Live, Covered
<1>17. CASE Tally
  <2>1. /\ UNCHANGED <<row, marks, stop, main, jobs, worker, results, hist>>
           /\ item.at = "tally"
        /\ run'.rows = run.rows /\ run'.failed = run.failed
    BY <1>17, <1>0 DEF Tally, Tallied, Run
  <2>2. \A p \in Proxy : ~Held(p) /\ (Tested(p)' <=> Tested(p)) /\ (Queued(p)' <=> Queued(p))
    BY <2>1 DEF Held, Tested, Queued
  <2>3. QED
    BY <1>0, <2>1, <2>2 DEF Covering, Selected, Opened, Live, Covered
<1>18. CASE Fault
  <2>1. /\ UNCHANGED <<row, marks, stop, main>> /\ hist'.scope = hist.scope /\ hist'.dropped = hist.dropped
        /\ run'.rows = run.rows /\ run'.failed = TRUE
    BY <1>18, <1>0 DEF Fault, Tallied, Run, Hist
  <2>2. QED
    BY <1>0, <2>1 DEF Covering, Selected, Opened, Live
<1>19. CASE Start
  BY <1>19 DEF Start, Launch, Covering, Selected, Opened, Live
<1>20. CASE Resume
  BY <1>20 DEF Resume, Launch, Covering, Selected, Opened, Live
<1>21. CASE Relaunch
  BY <1>21 DEF Relaunch, Launch, Covering, Selected, Opened, Live
<1>22. ASSUME NEW a \in Action, Request(a)
      PROVE  Covering'
  BY <1>22, <1>0 DEF Request, threads, Covering, Selected, Opened, Live, Covered, Tested,
     Queued, Held
<1>23. CASE Signal
  <2>1. UNCHANGED <<row, session, control, main, run, marks, threads, hist>> /\ (stop => stop')
    BY <1>23 DEF Signal
  <2>2. QED
    BY <2>1 DEF threads, Covering, Selected, Opened, Live, Covered, Tested, Queued, Held
<1>24. CASE Record
  BY <1>24, <1>0 DEF Record, threads, Covering, Selected, Opened, Live, Covered, Tested,
     Queued, Held
<1>25. CASE Kill
  BY <1>25 DEF Kill, Covering, Selected, Opened, Live
<1>26. CASE BareSignal
  BY <1>26, <1>0 DEF BareSignal, threads, Covering, Selected, Opened, Live, Covered, Tested,
     Queued, Held
<1>27. CASE Reconcile
  BY <1>27, <1>0 DEF Reconcile, threads, Covering, Selected, Opened, Live, Covered, Tested,
     Queued, Held
<1>28. ASSUME NEW p \in Proxy, EditTable(p)
      PROVE  Covering'
  <2>1. UNCHANGED <<marks, stop, main, run, jobs, worker, results, item, hist>>
        /\ \A q \in Proxy : row[q] = "deleted" => row'[q] = "deleted"
    BY <1>28, <1>0 DEF EditTable, threads
  <2>2. \A q \in Proxy : (Tested(q)' <=> Tested(q)) /\ (Queued(q)' <=> Queued(q)) /\ (Held(q)' <=> Held(q))
    BY <2>1 DEF Tested, Queued, Held
  <2>3. QED
    BY <1>0, <2>1, <2>2 DEF Covering, Selected, Opened, Live, Covered
<1>29. CASE UNCHANGED vars
  BY <1>29, <1>0 DEF vars, threads, Covering, Selected, Opened, Live, Covered, Tested,
     Queued, Held
<1>30. QED
  BY <1>1, <1>2, <1>3, <1>4, <1>5, <1>6, <1>7, <1>8, <1>9, <1>10, <1>11, <1>12,
     <1>13, <1>14, <1>15, <1>16, <1>17, <1>18, <1>19, <1>20, <1>21, <1>22, <1>23,
     <1>24, <1>25, <1>26, <1>27, <1>28, <1>29
     DEF Next, MainThread, WorkerThread, Processor
-----------------------------------------------------------------------------
LEMMA CauseKept ==
  ASSUME Typed, Typed', Cause, \A p \in Proxy : row[p] = "deleted" => row'[p] = "deleted",
         hist'.kills >= hist.kills, hist'.faults >= hist.faults, hist'.dropped = hist.dropped
  PROVE  Cause'
<1>1. /\ hist.kills \in Nat /\ hist.faults \in Nat /\ hist'.kills \in Nat
         /\ hist'.faults \in Nat
  BY RunAssumption DEF Typed, TypeOK, Hist
<1>2. QED
  BY <1>1 DEF Cause

(* A cycle that was not disturbed and did not complete has lost a row, or the  *)
(* filters kept one out of it.                                                 *)
LEMMA ShortfallHasCause ==
  ASSUME Typed, Threads, PlacesInv, Counts, Covering, main = "decide", ~stop,
         run.failed \/ run.tested < run.total
  PROVE  Cause
<1>1. /\ hist.kills \in Nat /\ hist.faults \in Nat /\ run.tested \in Nat
         /\ run.total \in Nat
      /\ (session # None => session.tested \in Nat)
  BY RunAssumption DEF Typed, TypeOK, Hist, Run, Session
<1>2. CASE run.failed
  BY <1>1, <1>2 DEF Counts, Running, Selected, Opened, Cause
<1>3. CASE ~run.failed /\ hist.faults + hist.kills = 0
           /\ hist.dropped = {} /\ \A p \in Proxy : row[p] # "deleted"
  <2>1. hist.scope \subseteq marks
    BY <1>3, Sizes DEF Covering, Covered
  <2>2. Cardinality(hist.scope) <= Cardinality(marks) /\ Cardinality(marks) \in Nat
        /\ Cardinality(hist.scope) \in Nat
    BY <2>1, Sizes, FS_Subset
  <2>3. item.at # "tally" /\ session # None
    BY DEF Threads, Live, Counts, Opened
  <2>4. Cardinality(marks) <= session.tested + hist.kills + hist.faults
        /\ session.tested <= run.tested
    BY <1>1, <2>2, <2>3 DEF Counts, Running, Selected, Opened, Tallying
  <2>5. run.total <= Cardinality(hist.scope)
    BY DEF Counts, Running, Selected, Opened
  <2>6. QED
    BY <1>1, <1>3, <2>2, <2>3, <2>4, <2>5
<1>4. QED
  BY <1>1, <1>2, <1>3 DEF Cause

(* A status is written when what it says is so, and it stays so. *)
LEMMA StatusesInvariant ==
  ASSUME Typed, Typed', Threads, PlacesInv, Counts, Covering, Statuses, [Next]_vars
  PROVE  Statuses'
<1>0. /\ row \in [Proxy -> {"absent", "present", "deleted"}] /\ run \in Run /\ hist \in Hist
      /\ (session # None => session \in Session) /\ hist.scope \subseteq Proxy
      /\ hist.kills \in Nat /\ hist.faults \in Nat
  BY RunAssumption DEF Typed, TypeOK, Hist
<1>1. CASE WaitEnds
  BY <1>1, <1>0 DEF WaitEnds, threads, Statuses, CompletedCovers, FailureHasCause, Opened,
     Covered, Cause
<1>2. CASE Load
  <2>1. main' = "select" /\ row' = row /\ (session' = None \/ (session' = session /\ session.status = "paused"))
    BY <1>2 DEF Load, Paused
  <2>2. QED
    BY <2>1 DEF Statuses, CompletedCovers, FailureHasCause, Opened
<1>3. CASE Select
  <2>1. main = "select" /\ main' = "open" /\ session' = session
    BY <1>3 DEF Select
  <2>2. QED
    BY <2>1 DEF Statuses, CompletedCovers, FailureHasCause, Opened
<1>4. CASE Open
  <2>1. session'.status = "running" /\ main' \in {"empty", "feed"}
    BY <1>4, <1>0 DEF Open, Session
  <2>2. QED
    BY <2>1 DEF Statuses, CompletedCovers, FailureHasCause, Opened
<1>5. CASE Empty
  <2> DEFINE state == IF stop /\ control = None THEN "stopped" ELSE "completed"
  <2>1. Persist(run, state) /\ run' = [run EXCEPT !.verdict = state] /\ state \in Status
    BY <1>5 DEF Empty, Status
  <2>2. main' \in {"wait", "exit"} /\ UNCHANGED <<row, marks, hist>>
    BY <1>5 DEF Empty, AfterCycle
  <2>3. Covered
    BY <1>5 DEF Empty, Covering, Selected, Opened, Covered
  <2>4. run'.verdict = state /\ (session' # None => session'.status = state)
    BY <1>0, <2>1, PersistedIs DEF Run
  <2>5. state \in {"stopped", "completed"}
    OBVIOUS
  <2> HIDE DEF state
  <2>6. Covered'
    BY <2>2, <2>3 DEF Covered
  <2>7. QED
    BY <2>2, <2>4, <2>5, <2>6 DEF Statuses, CompletedCovers, FailureHasCause, Opened,
       Covered
<1>6. CASE Feed
  <2>1. Persist(run, "running") /\ main' \in {"join", "decide"}
    BY <1>6 DEF Feed
  <2>2. session' # None => session'.status = "running"
    BY <1>0, <2>1, PersistedIs DEF Status
  <2>3. QED
    BY <2>1, <2>2 DEF Statuses, CompletedCovers, FailureHasCause, Opened
<1>7. CASE Join
  BY <1>7, <1>0 DEF Join, threads, Statuses, CompletedCovers, FailureHasCause, Opened,
     Covered, Cause
<1>8. CASE Drain
  <2>1. Persist(run, "running") /\ main' \in {"join", "decide"}
    BY <1>8 DEF Drain
  <2>2. session' # None => session'.status = "running"
    BY <1>0, <2>1, PersistedIs DEF Status
  <2>3. QED
    BY <2>1, <2>2 DEF Statuses, CompletedCovers, FailureHasCause, Opened
<1>9. CASE Decide
  <2>1. /\ Persist(run, Verdict) /\ run' = [run EXCEPT !.verdict = Verdict]
        /\ main = "decide" /\ main' \in {"wait", "exit"} /\ UNCHANGED <<row, marks, hist>>
    BY <1>9 DEF Decide, AfterCycle
  <2>2. Verdict \in Status
    BY DEF Verdict, Status
  <2>3. run'.verdict = Verdict /\ (session' # None => session'.status = Verdict)
    BY <1>0, <2>1, <2>2, PersistedIs DEF Run
  <2>4. Verdict = "completed" => Covered
    BY <2>1 DEF Verdict, Covering
  <2>5. Verdict = "failed" => Cause
    BY <2>1, ShortfallHasCause DEF Verdict
  <2>6. (Covered => Covered') /\ (Cause => Cause')
    BY <2>1 DEF Covered, Cause
  <2>7. QED
    BY <2>1, <2>3, <2>4, <2>5, <2>6 DEF Statuses, CompletedCovers, FailureHasCause, Opened,
       Covered, Cause
<1>10. CASE Exit
  <2> DEFINE final == IF stop THEN (IF control = "pause" THEN "paused" ELSE "stopped") ELSE run.verdict
  <2>1. /\ main = "exit" /\ main' = "leave" /\ UNCHANGED <<row, marks, run, hist>>
        /\ session' = session \/ (session # None /\ session' = [session EXCEPT !.status = final])
    BY <1>10 DEF Exit
  <2>2. final \in Status
    BY <1>0 DEF Status, Run
  <2>3. (final = "completed" => Covered) /\ (final = "failed" => Cause)
    BY <2>1 DEF Statuses
  <2> HIDE DEF final
  <2>4. session' = session \/ (session' # None /\ session'.status = final)
    BY <2>1, <2>2, RenamedIs
  <2>5. (Covered => Covered') /\ (Cause => Cause')
    BY <2>1 DEF Covered, Cause
  <2>6. CompletedCovers' /\ FailureHasCause'
    BY <2>1, <2>3, <2>4, <2>5 DEF Statuses, CompletedCovers, FailureHasCause, Covered, Cause
  <2>7. QED
    BY <2>1, <2>5, <2>6 DEF Statuses, Opened
<1>11. CASE Leave
  <2>1. run'.verdict = "running" /\ main' = "off" /\ UNCHANGED <<row, session, marks, hist>>
    BY <1>11 DEF Leave, NewRun
  <2>2. QED
    BY <2>1 DEF Statuses, CompletedCovers, FailureHasCause, Opened
<1>12. ASSUME NEW w \in Worker, Get(w)
      PROVE  Statuses'
  BY <1>12, <1>0 DEF Get, threads, Statuses, CompletedCovers, FailureHasCause, Opened,
     Covered, Cause
<1>13. ASSUME NEW w \in Worker, Finish(w)
      PROVE  Statuses'
  <2>0. main \in {"join", "drain"}
    BY <1>13, RunAssumption DEF Finish, Threads, Live
  <2>1. /\ UNCHANGED <<session, row, main>> /\ hist'.scope = hist.scope /\ hist'.dropped = hist.dropped
           /\ marks \subseteq marks'
        /\ hist'.kills = hist.kills /\ hist'.faults \in {hist.faults, hist.faults + 1}
           /\ main \in {"join", "drain"}
    BY <1>13, <1>0, <2>0 DEF Finish, Hist
  <2>2. Cause => Cause'
    BY <1>0, <2>1, CauseKept
  <2>3. Covered => Covered'
    BY <2>1 DEF Covered
  <2>4. QED
    BY <2>1, <2>2, <2>3 DEF Statuses, CompletedCovers, FailureHasCause, Opened, Covered,
       Cause
<1>14. ASSUME NEW w \in Worker, Interrupt(w)
      PROVE  Statuses'
  BY <1>14, <1>0 DEF Interrupt, threads, Statuses, CompletedCovers, FailureHasCause, Opened,
     Covered, Cause
<1>15. CASE Apply
  <2>1. /\ UNCHANGED <<session, row, main>> /\ hist'.scope = hist.scope /\ hist'.dropped = hist.dropped
           /\ marks \subseteq marks'
        /\ hist'.kills = hist.kills /\ hist'.faults \in {hist.faults, hist.faults + 1}
           /\ main \in {"join", "drain"}
    BY <1>15, <1>0 DEF Apply, Hist, Threads, Live
  <2>2. Cause => Cause'
    BY <1>0, <2>1, CauseKept
  <2>3. Covered => Covered'
    BY <2>1 DEF Covered
  <2>4. QED
    BY <2>1, <2>2, <2>3 DEF Statuses, CompletedCovers, FailureHasCause, Opened, Covered,
       Cause
<1>16. CASE Mark
  <2>1. /\ UNCHANGED <<session, row, main>> /\ hist'.scope = hist.scope /\ hist'.dropped = hist.dropped
           /\ marks \subseteq marks'
        /\ hist'.kills = hist.kills /\ hist'.faults \in {hist.faults, hist.faults + 1}
           /\ main \in {"join", "drain"}
    BY <1>16, <1>0 DEF Mark, Threads, Live
  <2>2. Cause => Cause'
    BY <1>0, <2>1, CauseKept
  <2>3. Covered => Covered'
    BY <2>1 DEF Covered
  <2>4. QED
    BY <2>1, <2>2, <2>3 DEF Statuses, CompletedCovers, FailureHasCause, Opened, Covered,
       Cause
<1>17. CASE Tally
  <2>1. Persist(Tallied, "running") /\ item.at = "tally" /\ main' = main
    BY <1>17 DEF Tally
  <2>2. session' # None => session'.status = "running"
    BY <2>1, TalliedIsRun, PersistedIs DEF Status, Typed, TypeOK
  <2>3. main \in {"join", "drain"}
    BY <2>1 DEF Threads, Live
  <2>4. QED
    BY <2>1, <2>2, <2>3 DEF Statuses, CompletedCovers, FailureHasCause, Opened
<1>18. CASE Fault
  <2>1. /\ UNCHANGED <<session, row, main>> /\ hist'.scope = hist.scope /\ hist'.dropped = hist.dropped
           /\ marks \subseteq marks'
        /\ hist'.kills = hist.kills /\ hist'.faults \in {hist.faults, hist.faults + 1}
           /\ main \in {"join", "drain"}
    BY <1>18, <1>0 DEF Fault, Hist, Threads, Live
  <2>2. Cause => Cause'
    BY <1>0, <2>1, CauseKept
  <2>3. Covered => Covered'
    BY <2>1 DEF Covered
  <2>4. QED
    BY <2>1, <2>2, <2>3 DEF Statuses, CompletedCovers, FailureHasCause, Opened, Covered,
       Cause
<1>19. CASE Start
  <2>1. session' = None /\ run'.verdict = "running" /\ main' \in {"load", "wait"}
    BY <1>19 DEF Start, Launch, NewRun
  <2>2. QED
    BY <2>1 DEF Statuses, CompletedCovers, FailureHasCause, Opened
<1>20. CASE Resume
  <2>1. run'.verdict = "running" /\ main' \in {"load", "wait"}
        /\ UNCHANGED <<row, session, marks, hist>>
    BY <1>20 DEF Resume, Launch, NewRun
  <2>2. QED
    BY <2>1 DEF Statuses, CompletedCovers, FailureHasCause, Opened
<1>21. CASE Relaunch
  <2>1. run'.verdict = "running" /\ main' \in {"load", "wait"}
        /\ UNCHANGED <<row, session, marks, hist>>
    BY <1>21 DEF Relaunch, Launch, NewRun
  <2>2. QED
    BY <2>1 DEF Statuses, CompletedCovers, FailureHasCause, Opened
<1>22. ASSUME NEW a \in Action, Request(a)
      PROVE  Statuses'
  BY <1>22, <1>0 DEF Request, threads, Statuses, CompletedCovers, FailureHasCause, Opened,
     Covered, Cause
<1>23. CASE Signal
  BY <1>23, <1>0 DEF Signal, threads, Statuses, CompletedCovers, FailureHasCause, Opened,
     Covered, Cause
<1>24. CASE Record
  <2>1. \/ session' = None
        \/ session # None /\ \E status \in Status : status \in {"paused", "stopped"}
              /\ session' = [session EXCEPT !.status = status]
    BY <1>24 DEF Record, Status
  <2>2. session' # None => session'.status \in {"paused", "stopped"}
    BY <2>1, RenamedIs
  <2>3. main' = "off"
    BY <1>24 DEF Record
  <2>4. QED
    BY <2>2, <2>3 DEF Statuses, CompletedCovers, FailureHasCause, Opened
<1>25. CASE Kill
  <2>1. /\ UNCHANGED <<session, row, marks>> /\ main' = "off" /\ hist'.scope = hist.scope /\ hist'.dropped = hist.dropped
        /\ hist'.kills = hist.kills + 1 /\ hist'.faults = hist.faults
    BY <1>25, <1>0 DEF Kill, Hist
  <2>2. Cause => Cause'
    BY <1>0, <2>1, CauseKept
  <2>3. QED
    BY <2>1, <2>2 DEF Statuses, CompletedCovers, FailureHasCause, Opened, Cause
<1>26. CASE BareSignal
  BY <1>26, <1>0 DEF BareSignal, threads, Statuses, CompletedCovers, FailureHasCause,
     Opened, Covered, Cause
<1>27. CASE Reconcile
  <2>1. \/ session' = None
        \/ session # None /\ \E status \in Status : status = "interrupted"
              /\ session' = [session EXCEPT !.status = status]
    BY <1>27 DEF Reconcile, Status
  <2>2. session' # None => session'.status = "interrupted"
    BY <2>1, RenamedIs
  <2>3. main' = "off"
    BY <1>27 DEF Reconcile
  <2>4. QED
    BY <2>2, <2>3 DEF Statuses, CompletedCovers, FailureHasCause, Opened
<1>28. ASSUME NEW p \in Proxy, EditTable(p)
      PROVE  Statuses'
  <2>1. UNCHANGED <<marks, session, main, run, hist>> /\ \A q \in Proxy : row[q] = "deleted" => row'[q] = "deleted"
    BY <1>28, <1>0 DEF EditTable
  <2>2. Cause => Cause'
    BY <1>0, <2>1, CauseKept
  <2>3. Covered => Covered'
    BY <1>0, <2>1 DEF Covered
  <2>4. QED
    BY <2>1, <2>2, <2>3 DEF Statuses, CompletedCovers, FailureHasCause, Opened, Covered,
       Cause
<1>29. CASE UNCHANGED vars
  BY <1>29, <1>0 DEF vars, threads, Statuses, CompletedCovers, FailureHasCause, Opened,
     Covered, Cause
<1>30. QED
  BY <1>1, <1>2, <1>3, <1>4, <1>5, <1>6, <1>7, <1>8, <1>9, <1>10, <1>11, <1>12,
     <1>13, <1>14, <1>15, <1>16, <1>17, <1>18, <1>19, <1>20, <1>21, <1>22, <1>23,
     <1>24, <1>25, <1>26, <1>27, <1>28, <1>29
     DEF Next, MainThread, WorkerThread, Processor
-----------------------------------------------------------------------------
(* A result is in the queue or with the processor until it is recorded. *)
LEMMA KeptInvariant ==
  ASSUME Typed, Threads, Kept, [Next]_vars
  PROVE  Kept'
<1>0. /\ row \in [Proxy -> {"absent", "present", "deleted"}] /\ run \in Run /\ hist \in Hist
      /\ hist.finished \subseteq Proxy
  BY DEF Typed, TypeOK, Hist
<1>1. CASE WaitEnds
  <2>1. main' \in {"exit", "load"}
    BY <1>1 DEF WaitEnds
  <2>2. QED
    BY <2>1 DEF Kept
<1>2. CASE Load
  <2>1. hist'.finished = {} /\ main' = "select"
    BY <1>2, <1>0 DEF Load, Hist, NewHist
  <2>2. QED
    BY <2>1 DEF Kept
<1>3. CASE Select
  <2>1. hist'.finished = hist.finished /\ main = "select" /\ main' = "open"
    BY <1>3, <1>0 DEF Select, Hist
  <2>2. QED
    BY <2>1 DEF Kept
<1>4. CASE Open
  BY <1>4 DEF Open, Kept
<1>5. CASE Empty
  <2>1. main' \in {"wait", "exit"}
    BY <1>5 DEF Empty, AfterCycle
  <2>2. QED
    BY <2>1 DEF Kept
<1>6. CASE Feed
  BY <1>6 DEF Feed, Kept
<1>7. CASE Join
  <2>1. results' = Append(results, None) /\ main = "join" /\ main' = "drain"
        /\ UNCHANGED <<row, marks, run, hist, item>>
    BY <1>7 DEF Join
  <2>2. \A p \in Proxy : (Held(p)' <=> Held(p)) /\ (Queued(p) => Queued(p)')
    BY <2>1, AppendStaysQueued DEF Held
  <2>3. QED
    BY <1>0, <2>1, <2>2 DEF Kept
<1>8. CASE Drain
  <2>1. /\ main = "drain" /\ main' = "decide"
           /\ UNCHANGED <<row, marks, hist, item, results>>
        /\ run'.failed = run.failed
    BY <1>8, <1>0 DEF Drain, Run, threads
  <2>2. \A p \in Proxy : (Held(p)' <=> Held(p)) /\ (Queued(p)' <=> Queued(p))
    BY <2>1 DEF Held, Queued
  <2>3. QED
    BY <1>0, <2>1, <2>2 DEF Kept
<1>9. CASE Decide
  <2>1. main' \in {"wait", "exit"}
    BY <1>9 DEF Decide, AfterCycle
  <2>2. QED
    BY <2>1 DEF Kept
<1>10. CASE Exit
  <2>1. main' \in {"leave"}
    BY <1>10 DEF Exit
  <2>2. QED
    BY <2>1 DEF Kept
<1>11. CASE Leave
  <2>1. main' \in {"off"}
    BY <1>11 DEF Leave
  <2>2. QED
    BY <2>1 DEF Kept
<1>12. ASSUME NEW w \in Worker, Get(w)
      PROVE  Kept'
  <2>1. UNCHANGED <<row, marks, run, hist, item, results, main>>
    BY <1>12 DEF Get
  <2>2. \A p \in Proxy : (Held(p)' <=> Held(p)) /\ (Queued(p)' <=> Queued(p))
    BY <2>1 DEF Held, Queued
  <2>3. QED
    BY <1>0, <2>1, <2>2 DEF Kept
<1>13. ASSUME NEW w \in Worker, Finish(w)
      PROVE  Kept'
  <2>1. /\ UNCHANGED <<row, marks, run, main, item>> /\ worker[w] \in Proxy
        /\ hist'.finished = hist.finished \cup {worker[w]}
    BY <1>13, <1>0 DEF Finish, Hist
  <2>2. PICK o \in Outcome : results' = Append(results, [proxy |-> worker[w], outcome |-> o])
    BY <1>13 DEF Finish
  <2>3. /\ [proxy |-> worker[w], outcome |-> o] \in Result
        /\ [proxy |-> worker[w], outcome |-> o] # None
    BY <2>1, RunAssumption DEF Result
  <2>4. \A p \in Proxy : (Queued(p) => Queued(p)') /\ (worker[w] = p => Queued(p)') /\ (Held(p)' <=> Held(p))
    BY <2>1, <2>2, <2>3, AppendStaysQueued DEF Held
  <2>5. main = "join" \/ main = "drain"
    BY <2>1, RunAssumption DEF Threads, Live
  <2>6. QED
    BY <1>0, <2>1, <2>4, <2>5 DEF Kept
<1>14. ASSUME NEW w \in Worker, Interrupt(w)
      PROVE  Kept'
  <2>1. UNCHANGED <<row, marks, run, hist, item, results, main>>
    BY <1>14 DEF Interrupt
  <2>2. \A p \in Proxy : (Held(p)' <=> Held(p)) /\ (Queued(p)' <=> Queued(p))
    BY <2>1 DEF Held, Queued
  <2>3. QED
    BY <1>0, <2>1, <2>2 DEF Kept
<1>15. CASE Apply
  <2>1. /\ UNCHANGED <<row, marks, run, main>> /\ hist'.finished = hist.finished
        /\ results # <<>> /\ results' = Tail(results) /\ item.at = "get"
    BY <1>15, <1>0 DEF Apply, Hist
  <2>2. \A p \in Proxy : ~Held(p)
    BY <2>1 DEF Held
  <2>3. \A p \in Proxy : Queued(p) => Queued(p)' \/ (Head(results) # None /\ Head(results).proxy = p)
    BY <2>1, TailStaysQueued
  <2>4. ASSUME NEW p \in Proxy, Head(results) # None, Head(results).proxy = p
        PROVE  Held(p)' \/ row[p] = "deleted"
    BY <1>15, <2>4 DEF Apply, Held
  <2>5. QED
    BY <1>0, <2>1, <2>2, <2>3, <2>4 DEF Kept
<1>16. CASE Mark
  <2>1. marks' = marks \cup {item.result.proxy}
        /\ UNCHANGED <<row, run, main, results, hist>>
    BY <1>16 DEF Mark
  <2>2. \A p \in Proxy : (Held(p) => p \in marks') /\ (Queued(p)' <=> Queued(p))
    BY <2>1 DEF Held, Queued
  <2>3. QED
    BY <1>0, <2>1, <2>2 DEF Kept
<1>17. CASE Tally
  <2>1. UNCHANGED <<row, marks, main, results, hist>> /\ item.at = "tally"
        /\ run'.failed = run.failed
    BY <1>17, <1>0 DEF Tally, Tallied, Run
  <2>2. \A p \in Proxy : ~Held(p) /\ (Queued(p)' <=> Queued(p))
    BY <2>1 DEF Held, Queued
  <2>3. QED
    BY <1>0, <2>1, <2>2 DEF Kept
<1>18. CASE Fault
  <2>1. run'.failed = TRUE /\ main \in {"join", "drain"} /\ main' = main
    BY <1>18, <1>0 DEF Fault, Tallied, Run, Threads, Live
  <2>2. QED
    BY <2>1 DEF Kept
<1>19. CASE Start
  <2>1. main' \in {"load", "wait"}
    BY <1>19 DEF Start, Launch
  <2>2. QED
    BY <2>1 DEF Kept
<1>20. CASE Resume
  <2>1. main' \in {"load", "wait"}
    BY <1>20 DEF Resume, Launch
  <2>2. QED
    BY <2>1 DEF Kept
<1>21. CASE Relaunch
  <2>1. main' \in {"load", "wait"}
    BY <1>21 DEF Relaunch, Launch
  <2>2. QED
    BY <2>1 DEF Kept
<1>22. ASSUME NEW a \in Action, Request(a)
      PROVE  Kept'
  BY <1>22 DEF Request, threads, Kept, Queued, Held
<1>23. CASE Signal
  BY <1>23 DEF Signal, threads, Kept, Queued, Held
<1>24. CASE Record
  BY <1>24 DEF Record, threads, Kept, Queued, Held
<1>25. CASE Kill
  <2>1. main' \in {"off"}
    BY <1>25 DEF Kill
  <2>2. QED
    BY <2>1 DEF Kept
<1>26. CASE BareSignal
  BY <1>26 DEF BareSignal, threads, Kept, Queued, Held
<1>27. CASE Reconcile
  BY <1>27 DEF Reconcile, threads, Kept, Queued, Held
<1>28. ASSUME NEW p \in Proxy, EditTable(p)
      PROVE  Kept'
  <2>1. UNCHANGED <<marks, main, run, results, item, hist>>
        /\ \A q \in Proxy : row[q] = "deleted" => row'[q] = "deleted"
    BY <1>28, <1>0 DEF EditTable, threads
  <2>2. \A q \in Proxy : (Queued(q)' <=> Queued(q)) /\ (Held(q)' <=> Held(q))
    BY <2>1 DEF Queued, Held
  <2>3. QED
    BY <1>0, <2>1, <2>2 DEF Kept
<1>29. CASE UNCHANGED vars
  BY <1>29 DEF vars, threads, Kept, Queued, Held
<1>30. QED
  BY <1>1, <1>2, <1>3, <1>4, <1>5, <1>6, <1>7, <1>8, <1>9, <1>10, <1>11, <1>12,
     <1>13, <1>14, <1>15, <1>16, <1>17, <1>18, <1>19, <1>20, <1>21, <1>22, <1>23,
     <1>24, <1>25, <1>26, <1>27, <1>28, <1>29
     DEF Next, MainThread, WorkerThread, Processor

(* Each death or fault may cost one more test of what was not yet recorded. *)
LEMMA AppliedInvariant ==
  ASSUME Typed, Typed', Threads, PlacesInv, Applied, [Next]_vars
  PROVE  Applied'
<1>0. /\ hist \in Hist /\ hist.kills \in Nat /\ hist.faults \in Nat
         /\ hist.applied \in [Proxy -> Nat]
      /\ hist' \in Hist /\ hist'.kills \in Nat /\ hist'.faults \in Nat
         /\ hist'.applied \in [Proxy -> Nat]
  BY RunAssumption DEF Typed, TypeOK, Hist
<1>a. \A p \in Proxy : Spent(p) \in {0, 1} /\ Spent(p)' \in {0, 1}
  BY DEF Spent
<1>1. CASE WaitEnds
  BY <1>1 DEF WaitEnds, threads, Applied, Spent, Held
<1>2. CASE Load
  <2>1. item.at = "ended" /\ item' = item
    BY <1>2 DEF Load, threads, Threads, Live
  <2>2. CASE Paused
    <3>1. /\ hist'.applied = hist.applied /\ hist'.kills = hist.kills
             /\ hist'.faults = hist.faults
          /\ marks' = marks
      BY <1>2, <1>0, <2>2 DEF Load, Hist
    <3>2. \A p \in Proxy : Spent(p)' = Spent(p)
      BY <2>1, <3>1 DEF Spent, Held
    <3>3. QED
      BY <3>1, <3>2 DEF Applied
  <2>3. CASE ~Paused
    <3>1. hist' = NewHist
      BY <1>2, <2>3 DEF Load
    <3>2. QED
      BY <1>a, <3>1 DEF NewHist, Applied
  <2>4. QED
    BY <2>2, <2>3
<1>3. CASE Select
  <2>1. /\ hist'.applied = hist.applied /\ hist'.kills = hist.kills
           /\ hist'.faults = hist.faults
        /\ UNCHANGED <<marks, item>>
    BY <1>3, <1>0 DEF Select, Hist, threads
  <2>2. \A p \in Proxy : Spent(p)' = Spent(p)
    BY <2>1 DEF Spent, Held
  <2>3. QED
    BY <2>1, <2>2 DEF Applied
<1>4. CASE Open
  BY <1>4 DEF Open, threads, Applied, Spent, Held
<1>5. CASE Empty
  BY <1>5 DEF Empty, Persist, AfterCycle, threads, Applied, Spent, Held
<1>6. CASE Feed
  <2>1. item.at = "ended" /\ item'.at = "get" /\ UNCHANGED <<hist, marks>>
    BY <1>6 DEF Feed, Getting, Threads, Live
  <2>2. \A p \in Proxy : Spent(p)' = Spent(p)
    BY <2>1 DEF Spent, Held
  <2>3. QED
    BY <2>1, <2>2 DEF Applied
<1>7. CASE Join
  BY <1>7 DEF Join, threads, Applied, Spent, Held
<1>8. CASE Drain
  BY <1>8 DEF Drain, Persist, threads, Applied, Spent, Held
<1>9. CASE Decide
  BY <1>9 DEF Decide, Persist, Verdict, AfterCycle, threads, Applied, Spent, Held
<1>10. CASE Exit
  BY <1>10 DEF Exit, threads, Applied, Spent, Held
<1>11. CASE Leave
  BY <1>11 DEF Leave, threads, Applied, Spent, Held
<1>12. ASSUME NEW w \in Worker, Get(w)
      PROVE  Applied'
  BY <1>12 DEF Get, threads, Applied, Spent, Held
<1>13. ASSUME NEW w \in Worker, Finish(w)
      PROVE  Applied'
  <2>1. /\ hist'.applied = hist.applied /\ hist'.kills = hist.kills
           /\ hist'.faults = hist.faults
        /\ UNCHANGED <<marks, item>>
    BY <1>13, <1>0 DEF Finish, Hist, threads
  <2>2. \A p \in Proxy : Spent(p)' = Spent(p)
    BY <2>1 DEF Spent, Held
  <2>3. QED
    BY <2>1, <2>2 DEF Applied
<1>14. ASSUME NEW w \in Worker, Interrupt(w)
      PROVE  Applied'
  BY <1>14 DEF Interrupt, threads, Applied, Spent, Held
<1>15. CASE Apply
  <2>1. /\ results # <<>> /\ item.at = "get" /\ marks' = marks
        /\ hist'.kills = hist.kills /\ hist'.faults = hist.faults
    BY <1>15, <1>0 DEF Apply, Hist
  <2>2. CASE item' \in {Ended, item} /\ hist' = hist
    <3>1. \A p \in Proxy : Spent(p)' = Spent(p)
      BY <2>1, <2>2 DEF Spent, Held, Ended
    <3>2. QED
      BY <2>2, <3>1 DEF Applied
  <2>3. CASE /\ Head(results) # None /\ item' = [at |-> "mark", result |-> Head(results)]
             /\ hist' = [hist EXCEPT !.applied[Head(results).proxy] = @ + 1]
    <3>1. PICK q \in Proxy : /\ q = Head(results).proxy /\ Head(results) \in Result
                             /\ Head(results) = results[1] /\ 1 \in 1..Len(results)
      BY <2>1, <2>3, Tailing DEF Typed, TypeOK, Result
    <3>2. Queued(q)
      BY <2>3, <3>1 DEF Queued
    <3>3. q \notin marks
      BY <2>1, <3>2 DEF Threads, PlacesInv, OnePlace, Placed, Waits
    <3>4. Spent(q) = 0 /\ Spent(q)' = 1
      BY <2>1, <2>3, <3>1, <3>3 DEF Spent, Held
    <3>5. \A p \in Proxy : p # q => Spent(p)' = Spent(p)
      BY <2>1, <2>3, <3>1 DEF Spent, Held
    <3>6. /\ hist'.applied[q] = hist.applied[q] + 1
          /\ \A p \in Proxy : p # q => hist'.applied[p] = hist.applied[p]
      BY <1>0, <2>3, <3>1 DEF Hist
    <3>7. ASSUME NEW p \in Proxy PROVE hist'.applied[p] <= hist'.kills + hist'.faults + Spent(p)'
      <4>1. hist.applied[p] <= hist.kills + hist.faults + Spent(p)
        BY DEF Applied
      <4>2. CASE p = q
        BY <1>0, <2>1, <3>4, <3>6, <4>1, <4>2
      <4>3. CASE p # q
        BY <1>0, <2>1, <3>5, <3>6, <4>1, <4>3
      <4>4. QED
        BY <4>2, <4>3
    <3>8. QED
      BY <3>7 DEF Applied
  <2>4. QED
    BY <1>15, <2>2, <2>3 DEF Apply
<1>16. CASE Mark
  <2>1. marks' = marks \cup {item.result.proxy} /\ item.at = "mark" /\ item'.at = "tally"
        /\ hist' = hist
    BY <1>16 DEF Mark, Typed, TypeOK
  <2>2. \A p \in Proxy : Spent(p)' = Spent(p)
    BY <2>1 DEF Spent, Held
  <2>3. QED
    BY <2>1, <2>2 DEF Applied
<1>17. CASE Tally
  <2>1. UNCHANGED <<marks, hist>> /\ item.at = "tally" /\ item'.at = "get"
    BY <1>17 DEF Tally, Getting
  <2>2. \A p \in Proxy : Spent(p)' = Spent(p)
    BY <2>1 DEF Spent, Held
  <2>3. QED
    BY <2>1, <2>2 DEF Applied
<1>18. CASE Fault
  <2>1. hist'.faults = hist.faults + 1 /\ hist'.kills = hist.kills
        /\ hist'.applied = hist.applied
    BY <1>18, <1>0 DEF Fault, Hist
  <2>2. QED
    BY <1>0, <1>a, <2>1 DEF Applied
<1>19. CASE Start
  <2>1. hist' = NewHist
    BY <1>19 DEF Start
  <2>2. QED
    BY <1>a, <2>1 DEF NewHist, Applied
<1>20. CASE Resume
  BY <1>20 DEF Resume, Launch, Paused, threads, Applied, Spent, Held
<1>21. CASE Relaunch
  BY <1>21 DEF Relaunch, Launch, Paused, threads, Applied, Spent, Held
<1>22. ASSUME NEW a \in Action, Request(a)
      PROVE  Applied'
  BY <1>22 DEF Request, threads, Applied, Spent, Held
<1>23. CASE Signal
  BY <1>23 DEF Signal, threads, Applied, Spent, Held
<1>24. CASE Record
  BY <1>24 DEF Record, threads, Applied, Spent, Held
<1>25. CASE Kill
  <2>1. hist'.kills = hist.kills + 1 /\ hist'.faults = hist.faults
        /\ hist'.applied = hist.applied
    BY <1>25, <1>0 DEF Kill, Hist
  <2>2. QED
    BY <1>0, <1>a, <2>1 DEF Applied
<1>26. CASE BareSignal
  BY <1>26 DEF BareSignal, threads, Applied, Spent, Held
<1>27. CASE Reconcile
  BY <1>27 DEF Reconcile, threads, Applied, Spent, Held
<1>28. ASSUME NEW p \in Proxy, EditTable(p)
      PROVE  Applied'
  BY <1>28 DEF EditTable, threads, Applied, Spent, Held
<1>29. CASE UNCHANGED vars
  BY <1>29 DEF vars, threads, Applied, Spent, Held
<1>30. QED
  BY <1>1, <1>2, <1>3, <1>4, <1>5, <1>6, <1>7, <1>8, <1>9, <1>10, <1>11, <1>12,
     <1>13, <1>14, <1>15, <1>16, <1>17, <1>18, <1>19, <1>20, <1>21, <1>22, <1>23,
     <1>24, <1>25, <1>26, <1>27, <1>28, <1>29
     DEF Next, MainThread, WorkerThread, Processor
-----------------------------------------------------------------------------
IInv == Typed /\ Threads /\ PlacesInv /\ Counts /\ Covering /\ Statuses /\ Kept /\ Applied

LEMMA Invariant == Spec => []IInv
<1>1. Init => IInv
  <2> SUFFICES ASSUME Init PROVE IInv
    OBVIOUS
  <2>1. /\ main = "off" /\ session = None /\ marks = {} /\ hist = NewHist
           /\ item.at = "ended"
        /\ results = <<>> /\ \A w \in Worker : worker[w] = "ended"
    BY DEF Init, Ended
  <2>2. Typed
    BY TypeAtFirst
  <2>3. Threads
    BY <2>1 DEF Threads, Live
  <2>4. PlacesInv
    BY <2>1 DEF PlacesInv, OnePlace, TallyIn, Chosen, Live, Selected, Opened, NewHist
  <2>5. Counts
    BY <2>1 DEF Counts, Running, Selected, Opened
  <2>6. Covering
    BY <2>1 DEF Covering, Selected, Opened, Live
  <2>7. Statuses
    BY <2>1 DEF Statuses, Opened, CompletedCovers, FailureHasCause
  <2>8. Kept
    BY <2>1 DEF Kept
  <2>9. Applied
    BY <2>1 DEF Applied, NewHist, Spent, Held
  <2>10. QED
    BY <2>2, <2>3, <2>4, <2>5, <2>6, <2>7, <2>8, <2>9 DEF IInv
<1>2. IInv /\ [Next]_vars => IInv'
  <2> SUFFICES ASSUME IInv, [Next]_vars PROVE IInv'
    OBVIOUS
  <2>1. Typed'
    BY TypeKept DEF IInv
  <2>2. Threads' /\ PlacesInv'
    BY ThreadsInvariant, PlacesInvariant DEF IInv
  <2>3. Counts' /\ Covering'
    BY <2>1, <2>2, CountsInvariant, CoveringInvariant DEF IInv
  <2>4. Statuses'
    BY <2>1, StatusesInvariant DEF IInv
  <2>5. Kept' /\ Applied'
    BY <2>1, KeptInvariant, AppliedInvariant DEF IInv
  <2>6. QED
    BY <2>1, <2>2, <2>3, <2>4, <2>5 DEF IInv
<1>3. QED
  BY <1>1, <1>2, PTL DEF Spec
-----------------------------------------------------------------------------
(* The table, the session, the queues and the threads keep their types. *)
THEOREM TypeCorrect == Spec => []TypeOK
<1>1. IInv => TypeOK
  BY DEF IInv, Typed
<1>2. QED
  BY <1>1, Invariant, PTL

(* A session said to be completed has tested every proxy it selected that is   *)
(* still there and that the filters let through at its last resume; one said   *)
(* to have failed met a fault, a death, a deleted row or one filtered out.     *)
THEOREM StatusIsTold == Spec => []StatusTold
<1>1. IInv => StatusTold
  BY DEF IInv, Typed, Statuses, StatusTold
<1>2. QED
  BY <1>1, Invariant, PTL

(* Whatever the threads, pauses and signals do: when the processor has ended    *)
(* without an error, every result handed to it is recorded.                    *)
THEOREM NothingIsDropped == Spec => []NothingDropped
<1>1. IInv => NothingDropped
  <2> SUFFICES ASSUME IInv, main = "decide", ~run.failed, NEW p \in hist.finished
               PROVE  p \in marks \/ row[p] = "deleted"
    BY DEF NothingDropped
  <2>1. item.at = "ended" /\ results = <<>>
    BY DEF IInv, Threads, Live
  <2>2. Len(results) = 0
    BY <2>1
  <2>3. ~Queued(p) /\ ~Held(p)
    BY <2>1, <2>2 DEF Queued, Held
  <2>4. QED
    BY <2>3 DEF IInv, Kept
<1>2. QED
  BY <1>1, Invariant, PTL

(* A resume continues from counters that are those of the ids it leaves out,   *)
(* but for what deaths and faults took away between the two transactions.      *)
THEOREM CountsAreMarks == Spec => []CountsFollowMarks
<1>1. IInv => CountsFollowMarks
  <2> SUFFICES ASSUME IInv, session # None, main = "off"
               PROVE  /\ session.tested <= Cardinality(marks)
                      /\ Cardinality(marks) <= session.tested + hist.kills + hist.faults
    BY DEF CountsFollowMarks
  <2>1. item.at = "ended"
    BY DEF IInv, Threads, Live
  <2>2. /\ hist.kills \in Nat /\ hist.faults \in Nat /\ session.tested \in Nat
        /\ Cardinality(marks) \in Nat
    BY Sizes, RunAssumption DEF IInv, Typed, TypeOK, Hist, Session
  <2>3. QED
    BY <2>1, <2>2 DEF IInv, Counts, Tallying
<1>2. QED
  BY <1>1, Invariant, PTL

(* What was tested is not tested again by the next process of the session,     *)
(* unless a death or a fault lost the record.                                  *)
THEOREM ResultsAppliedOnce == Spec => []AppliedOnce
<1>1. IInv => AppliedOnce
  <2> SUFFICES ASSUME IInv, NEW p \in Proxy
               PROVE  hist.applied[p] <= 1 + hist.kills + hist.faults
    BY DEF AppliedOnce
  <2>1. hist.kills \in Nat /\ hist.faults \in Nat /\ hist.applied[p] \in Nat
    BY RunAssumption DEF IInv, Typed, TypeOK, Hist
  <2>2. Spent(p) \in {0, 1} /\ hist.applied[p] <= hist.kills + hist.faults + Spent(p)
    BY DEF Spent, IInv, Applied
  <2>3. QED
    BY <2>1, <2>2
<1>2. QED
  BY <1>1, Invariant, PTL
=============================================================================
