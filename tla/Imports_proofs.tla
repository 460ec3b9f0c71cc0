---------------------------- MODULE Imports_proofs ----------------------------
(***************************************************************************)
(* Proofs about the proxies table and the imports into it, for any finite  *)
(* sets of records, identities, writers, importers and sources.            *)
(***************************************************************************)
EXTENDS Imports, FiniteSetTheorems, TLAPS

-----------------------------------------------------------------------------
(* Records and their writers. *)
WriterKind == {"monitor", "mark", "test", "core_edit", "dashboard_edit"}

OpRecord ==
    [at : {"idle", "begun", "read", "done", "failed"}, kind : WriterKind, id : Id \cup {0},
     probed : Key \cup {None}, to : Key \cup {None}, seen : Record \cup {None}]

(* What a writer that is at work carries with it. *)
Carries(o) ==
    /\ Open(o) => op[o].id \in Id /\ op[o].probed \in Key
    /\ op[o].at = "begun" => op[o].kind \in {"monitor", "mark"}
    /\ op[o].at = "read" => op[o].seen \in Record
    /\ op[o].at = "read" /\ op[o].kind \in {"core_edit", "dashboard_edit"} => op[o].to \in Key

RecordsTyped ==
    /\ table \in [Id -> Record \cup {None}]
    /\ op \in [Writer -> OpRecord]
    /\ \A o \in Writer : Carries(o)

(* While no second writer has come between, what a writer read is still there. *)
CopiesAreCurrent ==
    \A o \in Writer : Open(o) /\ op[o].id \in Present \ torn =>
        /\ op[o].probed = table[op[o].id].key
        /\ op[o].at = "read" => op[o].seen = table[op[o].id]

RecordInv == RecordsTyped /\ CopiesAreCurrent /\ VerdictIsOwn /\ ChecksAddUp

LEMMA UntestedIsTyped ==
  \A k \in Key : Untested(k) \in Record /\ SpeaksOfItself(Untested(k)) /\ Untested(k).total = Untested(k).alive + Untested(k).fail
BY DEF Untested, Record, SpeaksOfItself

(* New records are added under numbers D, in one transaction. *)
LEMMA AddingKeepsIt ==
  ASSUME RecordInv, NEW D \in SUBSET Id, NEW f, \A i \in D : f[i] \in Key,
         table' = [i \in Id |-> IF i \in D THEN Untested(f[i]) ELSE table[i]],
         torn' = (torn \ D) \cup Overtaken(D), renamed' = renamed \ D, op' = op
  PROVE  RecordInv'
<1>1. RecordsTyped'
  BY UntestedIsTyped DEF RecordInv, RecordsTyped, Carries, Open
<1>2. CopiesAreCurrent'
  BY DEF RecordInv, CopiesAreCurrent, Overtaken, Open, Present, RecordsTyped, Carries
<1>3. VerdictIsOwn' /\ ChecksAddUp'
  BY UntestedIsTyped DEF RecordInv, VerdictIsOwn, ChecksAddUp, Present
<1>4. QED
  BY <1>1, <1>2, <1>3 DEF RecordInv

LEMMA InsertingKeepsIt ==
  ASSUME RecordInv, NEW k \in Key, Inserts(k)
  PROVE  RecordInv'
<1>1. PICK i \in Id : /\ table' = [table EXCEPT ![i] = Untested(k)]
                      /\ torn' = (torn \ {i}) \cup Overtaken({i})
                      /\ renamed' = renamed \ {i} /\ op' = op
  BY DEF Inserts, NextIds
<1> DEFINE f == [j \in {i} |-> k]
<1>2. table' = [j \in Id |-> IF j \in {i} THEN Untested(f[j]) ELSE table[j]]
  BY <1>1 DEF RecordInv, RecordsTyped
<1>3. {i} \in SUBSET Id /\ \A j \in {i} : f[j] \in Key
  OBVIOUS
<1> HIDE DEF f
<1>4. QED
  BY <1>1, <1>2, <1>3, AddingKeepsIt

LEMMA RemovingKeepsIt ==
  ASSUME RecordInv, NEW S, Removes(S)
  PROVE  RecordInv'
<1>1. RecordsTyped'
  BY DEF RecordInv, RecordsTyped, Removes, Carries, Open
<1>2. CopiesAreCurrent'
  BY DEF RecordInv, CopiesAreCurrent, Removes, Open, Present, RecordsTyped, Carries
<1>3. VerdictIsOwn' /\ ChecksAddUp'
  BY DEF RecordInv, VerdictIsOwn, ChecksAddUp, Present, Removes
<1>4. QED
  BY <1>1, <1>2, <1>3 DEF RecordInv

(* A step of a writer that leaves the table alone: it goes away, or carries *)
(* what is there now.                                                       *)
LEMMA ReadingKeepsIt ==
  ASSUME RecordInv, NEW o \in Writer, NEW r \in OpRecord, op' = [op EXCEPT ![o] = r],
         UNCHANGED <<table, torn, renamed>>,
         \/ r.at \notin {"begun", "read"}
         \/ /\ r.id \in Id /\ r.probed \in Key
            /\ r.id \in Present \ torn => r.probed = table[r.id].key
            /\ r.at = "read" => r.seen \in Record /\ r.seen = table[r.id]
            /\ r.at = "begun" => r.kind \in {"monitor", "mark"}
            /\ r.kind \in {"core_edit", "dashboard_edit"} => r.to \in Key
  PROVE  RecordInv'
<1>1. op'[o] = r /\ \A p \in Writer \ {o} : op'[p] = op[p]
  BY DEF RecordInv, RecordsTyped
<1>2. RecordsTyped'
  BY <1>1 DEF RecordInv, RecordsTyped, Carries, Open
<1>3. CopiesAreCurrent'
  BY <1>1 DEF RecordInv, CopiesAreCurrent, Open, Present
<1>4. VerdictIsOwn' /\ ChecksAddUp'
  BY DEF RecordInv, VerdictIsOwn, ChecksAddUp, Present
<1>5. QED
  BY <1>2, <1>3, <1>4 DEF RecordInv

(* What a writer makes of a record is a record; what it keeps of a sound one *)
(* stays sound.                                                              *)
LEMMA ResultsAreSound ==
  ASSUME NEW o, op[o].kind \in WriterKind, op[o].seen \in Record, op[o].probed \in Key,
         op[o].kind \in {"core_edit", "dashboard_edit"} => op[o].to \in Key,
         NEW new \in Results(o)
  PROVE  /\ new \in Record
         /\ op[o].seen.total = op[o].seen.alive + op[o].seen.fail => new.total = new.alive + new.fail
         /\ op[o].probed = op[o].seen.key /\ SpeaksOfItself(op[o].seen) =>
               \/ SpeaksOfItself(new)
               \/ op[o].kind = "dashboard_edit" /\ op[o].to # op[o].seen.key
               \/ op[o].kind = "monitor" /\ new.key # op[o].seen.key
<1> DEFINE s == op[o].seen
<1>a. s \in Record /\ Fallback \in [Key -> Key] /\ op[o].probed \in Key
  BY TableAssumption
<1>b. s = [key |-> s.key, verdict |-> s.verdict, alive |-> s.alive, fail |-> s.fail, total |-> s.total,
           counted |-> s.counted, measured |-> s.measured, moved |-> s.moved]
      /\ s.key \in Key /\ s.verdict \in Key \cup {None} /\ s.alive \in Nat /\ s.fail \in Nat /\ s.total \in Nat
      /\ s.counted \in SUBSET Key /\ s.measured \in SUBSET Key /\ s.moved \in BOOLEAN
  BY <1>a DEF Record
<1>1. CASE op[o].kind = "monitor"
  <2> DEFINE p == op[o].probed
  <2>1. new \in Probed(s, p)
    BY <1>1 DEF Results
  <2>2. CASE \E k \in {s.key, Fallback[s.key]} :
               new = [s EXCEPT !.alive = @ + 1, !.total = s.alive + 1 + s.fail, !.verdict = p, !.key = k,
                               !.counted = @ \cup {p}, !.measured = @ \cup {p}]
    <3>1. PICK k \in Key : new = [s EXCEPT !.alive = @ + 1, !.total = s.alive + 1 + s.fail, !.verdict = p,
                                          !.key = k, !.counted = @ \cup {p}, !.measured = @ \cup {p}]
      BY <1>a, <1>b, <2>2
    <3>2. new = [key |-> k, verdict |-> p, alive |-> s.alive + 1, fail |-> s.fail,
                 total |-> s.alive + 1 + s.fail, counted |-> s.counted \cup {p},
                 measured |-> s.measured \cup {p}, moved |-> s.moved]
      BY <1>b, <3>1
    <3>3. new \in Record
      BY <1>a, <1>b, <3>2 DEF Record
    <3>4. p = s.key /\ SpeaksOfItself(s) /\ new.key = s.key => SpeaksOfItself(new)
      BY <1>b, <3>2 DEF SpeaksOfItself
    <3>5. new.total = new.alive + new.fail
      BY <1>b, <3>2
    <3>6. QED
      BY <1>1, <3>3, <3>4, <3>5
  <2>3. CASE new = [s EXCEPT !.fail = @ + 1, !.total = s.alive + s.fail + 1, !.verdict = p,
                             !.counted = @ \cup {p}]
    <3>1. new = [key |-> s.key, verdict |-> p, alive |-> s.alive, fail |-> s.fail + 1,
                 total |-> s.alive + s.fail + 1, counted |-> s.counted \cup {p},
                 measured |-> s.measured, moved |-> s.moved]
      BY <1>b, <2>3
    <3>2. new \in Record
      BY <1>a, <1>b, <3>1 DEF Record
    <3>3. p = s.key /\ SpeaksOfItself(s) => SpeaksOfItself(new)
      BY <1>b, <3>1 DEF SpeaksOfItself
    <3>4. new.total = new.alive + new.fail
      BY <1>b, <3>1
    <3>5. QED
      BY <3>2, <3>3, <3>4
  <2>4. QED
    BY <2>1, <2>2, <2>3 DEF Probed
<1>2. CASE op[o].kind = "mark"
  <2> DEFINE p == op[o].probed
  <2>1. new \in Marked(s, p)
    BY <1>2 DEF Results
  <2>2. PICK a, f \in Nat :
          /\ new = [key |-> s.key, verdict |-> s.verdict, alive |-> a, fail |-> f, total |-> s.total + 1,
                    counted |-> s.counted \cup {p}, measured |-> s.measured, moved |-> s.moved]
          /\ a + f = s.alive + s.fail + 1
    <3>1. CASE new = [s EXCEPT !.alive = @ + 1, !.total = @ + 1, !.counted = @ \cup {p}]
      <4>1. new = [key |-> s.key, verdict |-> s.verdict, alive |-> s.alive + 1, fail |-> s.fail,
                   total |-> s.total + 1, counted |-> s.counted \cup {p}, measured |-> s.measured,
                   moved |-> s.moved]
        BY <1>b, <3>1
      <4>2. s.alive + 1 \in Nat /\ s.alive + 1 + s.fail = s.alive + s.fail + 1
        BY <1>b
      <4>3. QED
        BY <1>b, <4>1, <4>2
    <3>2. CASE new = [s EXCEPT !.fail = @ + 1, !.total = @ + 1, !.counted = @ \cup {p}]
      <4>1. new = [key |-> s.key, verdict |-> s.verdict, alive |-> s.alive, fail |-> s.fail + 1,
                   total |-> s.total + 1, counted |-> s.counted \cup {p}, measured |-> s.measured,
                   moved |-> s.moved]
        BY <1>b, <3>2
      <4>2. s.fail + 1 \in Nat /\ s.alive + (s.fail + 1) = s.alive + s.fail + 1
        BY <1>b
      <4>3. QED
        BY <1>b, <4>1, <4>2
    <3>3. QED
      BY <2>1, <3>1, <3>2 DEF Marked
  <2>3. new \in Record
    BY <1>a, <1>b, <2>2 DEF Record
  <2>4. p = s.key /\ SpeaksOfItself(s) => SpeaksOfItself(new)
    BY <1>b, <2>2 DEF SpeaksOfItself
  <2>5. s.total = s.alive + s.fail => new.total = new.alive + new.fail
    BY <1>b, <2>2
  <2>6. QED
    BY <2>3, <2>4, <2>5
<1>3. CASE op[o].kind = "test"
  <2>1. new \in TestedNow(s, op[o].probed)
    BY <1>3 DEF Results
  <2>2. new = [key |-> s.key, verdict |-> op[o].probed, alive |-> s.alive, fail |-> s.fail, total |-> s.total,
               counted |-> s.counted, measured |-> s.measured, moved |-> s.moved]
    BY <1>b, <2>1 DEF TestedNow
  <2>3. new \in Record
    BY <1>a, <1>b, <2>2 DEF Record
  <2>4. QED
    BY <1>b, <2>2, <2>3 DEF SpeaksOfItself
<1>4. CASE op[o].kind = "core_edit"
  <2> DEFINE k == op[o].to
  <2>1. k \in Key /\ new \in CoreEdited(s, k)
    BY <1>4 DEF Results
  <2>2. CASE k = s.key
    BY <1>a, <2>1, <2>2 DEF CoreEdited
  <2>3. CASE k # s.key
    <3>1. new = [Untested(k) EXCEPT !.measured = s.measured, !.moved = TRUE]
      BY <2>1, <2>3 DEF CoreEdited
    <3>2. new = [key |-> k, verdict |-> None, alive |-> 0, fail |-> 0, total |-> 0,
                 counted |-> {}, measured |-> s.measured, moved |-> TRUE]
      BY <3>1 DEF Untested
    <3>3. QED
      BY <1>b, <2>1, <3>2 DEF Record, SpeaksOfItself
  <2>4. QED
    BY <2>2, <2>3
<1>5. CASE op[o].kind = "dashboard_edit"
  <2>1. op[o].to \in Key /\ new \in DashboardEdited(s, op[o].to)
    BY <1>5 DEF Results
  <2>2. new = [key |-> op[o].to, verdict |-> s.verdict, alive |-> s.alive, fail |-> s.fail, total |-> s.total,
               counted |-> s.counted, measured |-> s.measured, moved |-> s.moved]
    BY <1>b, <2>1 DEF DashboardEdited
  <2>3. new \in Record
    BY <1>b, <2>1, <2>2 DEF Record
  <2>4. op[o].to = s.key => new = s
    BY <1>b, <2>2
  <2>5. QED
    BY <1>5, <1>b, <2>2, <2>3, <2>4
<1>6. QED
  BY <1>1, <1>2, <1>3, <1>4, <1>5 DEF WriterKind

(* The ORM writes the columns that differ: on the record that was read, the   *)
(* whole result; on any other record, something between the two.              *)
LEMMA WrittenIsBetween ==
  ASSUME NEW o, NEW now \in Record, NEW new \in Record, op[o].seen \in Record
  PROVE  /\ Written(o, now, new) \in Record
         /\ op[o].seen = now => Written(o, now, new) = new
<1> DEFINE Column == {"key", "verdict", "alive", "fail", "total", "counted", "measured", "moved"}
           late(f) == f = "verdict" /\ op[o].kind \in {"monitor", "test"}
           w == [f \in Column |-> IF new[f] # op[o].seen[f] \/ late(f) THEN new[f] ELSE now[f]]
<1>1. now = [f \in Column |-> now[f]] /\ new = [f \in Column |-> new[f]]
  BY DEF Record
<1>2. Written(o, now, new) = w
  BY <1>1 DEF Written
<1>3. op[o].seen = now => w = new
  <2> SUFFICES ASSUME op[o].seen = now
               PROVE  \A f \in Column : w[f] = new[f]
    BY <1>1
  <2>1. QED
    OBVIOUS
<1>4. w \in Record
  <2>1. \A f \in Column : w[f] \in {new[f], now[f]}
    OBVIOUS
  <2>2. w = [key |-> w["key"], verdict |-> w["verdict"], alive |-> w["alive"], fail |-> w["fail"],
             total |-> w["total"], counted |-> w["counted"], measured |-> w["measured"], moved |-> w["moved"]]
    OBVIOUS
  <2> HIDE DEF w, late
  <2>3. w["key"] \in Key /\ w["verdict"] \in Key \cup {None} /\ w["alive"] \in Nat /\ w["fail"] \in Nat
        /\ w["total"] \in Nat
    BY <2>1 DEF Record
  <2>4. w["counted"] \in SUBSET Key /\ w["measured"] \in SUBSET Key /\ w["moved"] \in BOOLEAN
    BY <2>1 DEF Record
  <2>5. QED
    BY <2>2, <2>3, <2>4 DEF Record
<1>5. QED
  BY <1>2, <1>3, <1>4

LEMMA WritingKeepsIt ==
  ASSUME RecordInv, NEW o \in Writer, Writes(o)
  PROVE  RecordInv'
<1> DEFINE i == op[o].id
<1>a. RecordsTyped /\ op[o].at = "read" /\ Open(o) /\ i \in Id
      /\ op[o].seen \in Record /\ op[o].probed \in Key /\ op[o].kind \in WriterKind
      /\ (op[o].kind \in {"core_edit", "dashboard_edit"} => op[o].to \in Key)
  BY DEF RecordInv, RecordsTyped, Carries, Open, Writes, OpRecord
<1>b. PICK new \in Results(o) :
        IF i \in Present /\ \A j \in Present \ {i} : table[j].key # Written(o, table[i], new).key
        THEN /\ table' = [table EXCEPT ![i] = Written(o, table[i], new)]
             /\ torn' = torn \cup {j \in {i} : \E p \in Writer \ {o} : Open(p) /\ op[p].id = i}
             /\ renamed' = IF \/ op[o].kind = "dashboard_edit" /\ op[o].to # op[o].seen.key
                              \/ op[o].kind = "monitor" /\ new.key # op[o].seen.key
                           THEN renamed \cup {i} ELSE renamed
             /\ Ends(o, "done")
        ELSE Ends(o, "failed") /\ UNCHANGED <<table, torn, renamed>>
  BY <1>a DEF Writes, RecordsTyped
<1>c. new \in Record
  BY <1>a, ResultsAreSound
<1>1. CASE i \in Present /\ \A j \in Present \ {i} : table[j].key # Written(o, table[i], new).key
  <2> DEFINE w == Written(o, table[i], new)
  <2>1. /\ table' = [table EXCEPT ![i] = w]
        /\ torn' = torn \cup {j \in {i} : \E p \in Writer \ {o} : Open(p) /\ op[p].id = i}
        /\ renamed' = IF \/ op[o].kind = "dashboard_edit" /\ op[o].to # op[o].seen.key
                         \/ op[o].kind = "monitor" /\ new.key # op[o].seen.key
                      THEN renamed \cup {i} ELSE renamed
        /\ op' = [op EXCEPT ![o] = [NoOp EXCEPT !.at = "done"]]
    BY <1>b, <1>1 DEF Ends
  <2>2. table[i] \in Record
    BY <1>a, <1>1 DEF Present, RecordsTyped
  <2>3. w \in Record /\ (op[o].seen = table[i] => w = new)
    BY <1>a, <1>c, <2>2, WrittenIsBetween
  <2>4. op'[o].at = "done" /\ op'[o] \in OpRecord /\ \A p \in Writer \ {o} : op'[p] = op[p]
    BY <1>a, <2>1 DEF RecordsTyped, NoOp, OpRecord, WriterKind
  <2> HIDE DEF w
  <2>5. table' \in [Id -> Record \cup {None}] /\ table'[i] = w /\ \A j \in Id \ {i} : table'[j] = table[j]
    BY <1>a, <2>1, <2>3 DEF RecordsTyped
  <2>6. RecordsTyped'
    BY <1>a, <2>1, <2>4, <2>5 DEF RecordsTyped, Carries, Open
  <2>7. CopiesAreCurrent'
    <3> SUFFICES ASSUME NEW p \in Writer, Open(p)', op'[p].id \in (Present \ torn)'
                 PROVE  /\ op'[p].probed = table'[op'[p].id].key
                        /\ op'[p].at = "read" => op'[p].seen = table'[op'[p].id]
      BY DEF CopiesAreCurrent
    <3>1. p # o /\ op'[p] = op[p]
      BY <2>4 DEF Open
    <3>2. op[p].id # i
      BY <2>1, <3>1 DEF Open
    <3>3. op[p].id \in Present \ torn
      BY <2>1, <2>5, <3>1, <3>2 DEF Present
    <3>4. QED
      BY <2>5, <3>1, <3>2, <3>3 DEF RecordInv, CopiesAreCurrent, Open, Present
  <2>8. CASE i \in torn
    <3>1. i \in torn' /\ \A j \in Id \ {i} : (j \in torn' <=> j \in torn) /\ (j \in renamed' <=> j \in renamed)
      BY <2>1, <2>8
    <3>2. VerdictIsOwn' /\ ChecksAddUp'
      BY <2>5, <3>1 DEF RecordInv, VerdictIsOwn, ChecksAddUp, Present
    <3>3. QED
      BY <2>6, <2>7, <3>2 DEF RecordInv
  <2>9. CASE i \notin torn
    <3>1. op[o].seen = table[i] /\ op[o].probed = table[i].key
      BY <1>a, <1>1, <2>9 DEF RecordInv, CopiesAreCurrent
    <3>2. w = new
      BY <2>3, <3>1
    <3>3. table[i].total = table[i].alive + table[i].fail
      BY <1>1, <2>9 DEF RecordInv, ChecksAddUp
    <3>4. new.total = new.alive + new.fail
      BY <1>a, <3>1, <3>3, ResultsAreSound
    <3>5. i \in renamed' \/ SpeaksOfItself(new)
      <4>1. CASE i \in renamed
        BY <2>1, <4>1
      <4>2. CASE i \notin renamed
        <5>1. SpeaksOfItself(table[i])
          BY <1>1, <2>9, <4>2 DEF RecordInv, VerdictIsOwn
        <5>2. \/ SpeaksOfItself(new)
              \/ op[o].kind = "dashboard_edit" /\ op[o].to # op[o].seen.key
              \/ op[o].kind = "monitor" /\ new.key # op[o].seen.key
          BY <1>a, <3>1, <5>1, ResultsAreSound
        <5>3. QED
          BY <2>1, <5>2
      <4>3. QED
        BY <4>1, <4>2
    <3>6. \A j \in Id \ {i} : (j \in torn' <=> j \in torn) /\ (j \in renamed' <=> j \in renamed)
      BY <2>1
    <3>7. VerdictIsOwn' /\ ChecksAddUp'
      BY <2>5, <3>2, <3>4, <3>5, <3>6 DEF RecordInv, VerdictIsOwn, ChecksAddUp, Present
    <3>8. QED
      BY <2>6, <2>7, <3>7 DEF RecordInv
  <2>10. QED
    BY <2>8, <2>9
<1>2. CASE ~(i \in Present /\ \A j \in Present \ {i} : table[j].key # Written(o, table[i], new).key)
  <2>1. op' = [op EXCEPT ![o] = [NoOp EXCEPT !.at = "failed"]] /\ UNCHANGED <<table, torn, renamed>>
    BY <1>b, <1>2 DEF Ends
  <2>2. [NoOp EXCEPT !.at = "failed"] \in OpRecord /\ [NoOp EXCEPT !.at = "failed"].at = "failed"
    BY DEF NoOp, OpRecord, WriterKind
  <2>3. QED
    BY <2>1, <2>2, ReadingKeepsIt
<1>3. QED
  BY <1>1, <1>2

(* The copy a monitor or a server takes. *)
LEMMA CopyIs ==
  ASSUME NEW kind, NEW i, NEW k
  PROVE  [NoOp EXCEPT !.at = "begun", !.kind = kind, !.id = i, !.probed = k]
           = [at |-> "begun", kind |-> kind, id |-> i, probed |-> k, to |-> None, seen |-> None]
<1> DEFINE a == [NoOp EXCEPT !.at = "begun"]
           b == [a EXCEPT !.kind = kind]
           c == [b EXCEPT !.id = i]
           d == [c EXCEPT !.probed = k]
<1>1. d = [NoOp EXCEPT !.at = "begun", !.kind = kind, !.id = i, !.probed = k]
  OBVIOUS
<1>2. a = [at |-> "begun", kind |-> "mark", id |-> 0, probed |-> None, to |-> None, seen |-> None]
  BY DEF NoOp
<1> HIDE DEF a
<1>3. b = [at |-> "begun", kind |-> kind, id |-> 0, probed |-> None, to |-> None, seen |-> None]
  BY <1>2
<1> HIDE DEF b
<1>4. c = [at |-> "begun", kind |-> kind, id |-> i, probed |-> None, to |-> None, seen |-> None]
  BY <1>3
<1> HIDE DEF c
<1>5. d = [at |-> "begun", kind |-> kind, id |-> i, probed |-> k, to |-> None, seen |-> None]
  BY <1>4
<1>6. QED
  BY <1>1, <1>5

LEMMA TableKeepsIt ==
  ASSUME RecordInv, TableNext
  PROVE  RecordInv'
<1>a. RecordsTyped
  BY DEF RecordInv
<1>1. ASSUME NEW k \in Key, CoreAdds(k) \/ RowImported(k) \/ DashboardAdds(k)
      PROVE  RecordInv'
  BY <1>1, InsertingKeepsIt DEF CoreAdds, RowImported, DashboardAdds
<1>2. ASSUME NEW S, Removes(S)
      PROVE  RecordInv'
  BY <1>2, RemovingKeepsIt
<1>3. ASSUME NEW o \in Writer, NEW kind \in Kind, NEW i \in Id, TakesCopy(o, kind, i)
      PROVE  RecordInv'
  <2> DEFINE r == [NoOp EXCEPT !.at = "begun", !.kind = kind, !.id = i, !.probed = table[i].key]
  <2>1. table[i].key \in Key /\ kind \in WriterKind /\ kind \in {"monitor", "mark"}
    BY <1>a, <1>3 DEF RecordsTyped, TakesCopy, Present, Record, WriterKind
  <2>2. r = [at |-> "begun", kind |-> kind, id |-> i, probed |-> table[i].key, to |-> None, seen |-> None]
    BY CopyIs
  <2>3. r \in OpRecord
    BY <2>1, <2>2 DEF OpRecord
  <2>4. op' = [op EXCEPT ![o] = r] /\ UNCHANGED <<table, torn, renamed>>
    BY <1>3 DEF TakesCopy
  <2>5. r.at = "begun" /\ r.id = i /\ r.probed = table[i].key /\ r.kind = kind
    BY <2>2
  <2> HIDE DEF r
  <2>6. QED
    BY <2>1, <2>3, <2>4, <2>5, ReadingKeepsIt
<1>4. ASSUME NEW o \in Writer, NEW kind \in Kind, NEW i \in Id, NEW k \in Key, TakesRecord(o, kind, i, k)
      PROVE  RecordInv'
  <2> DEFINE r == [at |-> "read", kind |-> kind, id |-> i, probed |-> table[i].key, to |-> k, seen |-> table[i]]
  <2>1. table[i] \in Record /\ table[i].key \in Key /\ kind \in WriterKind
    BY <1>a, <1>4 DEF RecordsTyped, TakesRecord, Present, Record, WriterKind
  <2>2. r \in OpRecord
    BY <2>1 DEF OpRecord
  <2>3. op' = [op EXCEPT ![o] = r] /\ UNCHANGED <<table, torn, renamed>>
    BY <1>4 DEF TakesRecord
  <2>4. r.at = "read" /\ r.id = i /\ r.probed = table[i].key /\ r.to = k /\ r.seen = table[i]
    OBVIOUS
  <2> HIDE DEF r
  <2>5. QED
    BY <2>1, <2>2, <2>3, <2>4, ReadingKeepsIt
<1>5. ASSUME NEW o \in Writer, Reads(o)
      PROVE  RecordInv'
  <2>a. op[o] \in OpRecord /\ op[o].at = "begun" /\ Open(o) /\ op[o].id \in Id /\ op[o].probed \in Key
    BY <1>a, <1>5 DEF Reads, RecordsTyped, Carries, Open
  <2>b. UNCHANGED <<table, torn, renamed>>
    BY <1>5 DEF Reads
  <2>1. CASE op[o].id \in Present
    <3> DEFINE r == [op[o] EXCEPT !.at = "read", !.seen = table[op[o].id]]
    <3>1. table[op[o].id] \in Record
      BY <1>a, <2>a, <2>1 DEF RecordsTyped, Present
    <3>2. r = [at |-> "read", kind |-> op[o].kind, id |-> op[o].id, probed |-> op[o].probed,
               to |-> op[o].to, seen |-> table[op[o].id]]
      <4> DEFINE here == [op[o] EXCEPT !.at = "read"]
      <4>1. here = [at |-> "read", kind |-> op[o].kind, id |-> op[o].id, probed |-> op[o].probed,
                    to |-> op[o].to, seen |-> op[o].seen]
        BY <2>a DEF OpRecord
      <4>2. r = [here EXCEPT !.seen = table[op[o].id]]
        OBVIOUS
      <4> HIDE DEF here
      <4>3. QED
        BY <4>1, <4>2
    <3>3. r \in OpRecord /\ r.id = op[o].id /\ r.probed = op[o].probed /\ r.seen = table[op[o].id]
          /\ r.kind = op[o].kind /\ r.to = op[o].to
      BY <2>a, <3>1, <3>2 DEF OpRecord
    <3>4. op' = [op EXCEPT ![o] = r]
      BY <1>5, <2>1 DEF Reads
    <3>5. r.id \in Present \ torn => r.probed = table[r.id].key
      BY <2>a, <3>3 DEF RecordInv, CopiesAreCurrent
    <3>7. op[o].kind \in {"monitor", "mark"} /\ r.at = "read"
      BY <1>a, <2>a, <3>2 DEF RecordsTyped, Carries
    <3> HIDE DEF r
    <3>6. QED
      BY <2>a, <2>b, <3>7, <3>1, <3>3, <3>4, <3>5, ReadingKeepsIt
  <2>2. CASE op[o].id \notin Present
    <3>1. op' = [op EXCEPT ![o] = [NoOp EXCEPT !.at = "done"]]
      BY <1>5, <2>2 DEF Reads
    <3>2. [NoOp EXCEPT !.at = "done"] \in OpRecord /\ [NoOp EXCEPT !.at = "done"].at = "done"
      BY DEF NoOp, OpRecord, WriterKind
    <3>3. QED
      BY <2>b, <3>1, <3>2, ReadingKeepsIt
  <2>3. QED
    BY <2>1, <2>2
<1>6. ASSUME NEW o \in Writer, GivesUp(o)
      PROVE  RecordInv'
  <2>1. [NoOp EXCEPT !.at = "failed"] \in OpRecord /\ [NoOp EXCEPT !.at = "failed"].at = "failed"
    BY DEF NoOp, OpRecord, WriterKind
  <2>2. QED
    BY <1>6, <2>1, ReadingKeepsIt DEF GivesUp, Ends
<1>7. /\ \A i : CoreDeletes(i) => RecordInv'
      /\ \A i, scope : DashboardDeletes(i, scope) => RecordInv'
      /\ \A S, scope : SelectionDeleted(S, scope) => RecordInv'
      /\ \A tested, scope : BulkDeletes(tested, scope) => RecordInv'
      /\ \A tested, limit : Purges(tested, limit) => RecordInv'
  BY <1>2 DEF CoreDeletes, DashboardDeletes, SelectionDeleted, BulkDeletes, Purges
<1>8. \A o \in Writer : Writes(o) => RecordInv'
  BY WritingKeepsIt
<1>9. QED
  <2>1. CASE \E k \in Key : CoreAdds(k) \/ RowImported(k) \/ DashboardAdds(k)
    BY <1>1, <2>1
  <2>2. CASE \E o \in Writer :
               \/ \E kind \in Kind, i \in Id : TakesCopy(o, kind, i) \/ \E k \in Key : TakesRecord(o, kind, i, k)
               \/ Reads(o) \/ Writes(o) \/ GivesUp(o)
    BY <1>3, <1>4, <1>5, <1>6, <1>8, <2>2
  <2>3. CASE \/ \E i \in Id : CoreDeletes(i)
             \/ \E scope \in Scopes :
                   \/ \E i \in Id : DashboardDeletes(i, scope)
                   \/ \E S \in {{i, j} : i, j \in Id} : SelectionDeleted(S, scope)
                   \/ \E tested \in BOOLEAN : BulkDeletes(tested, scope)
             \/ \E tested \in BOOLEAN : Purges(tested, 1)
    BY <1>7, <2>3
  <2>4. QED
    BY <2>1, <2>2, <2>3 DEF TableNext

-----------------------------------------------------------------------------
(* Importers and saved sources. *)
SavedSource == [name : Name, active : BOOLEAN, shown : Shown]
JobAt == {"idle", "read", "looked", "refused", "checked", "done"}
JobRecord ==
    [at : JobAt, source : Source \cup {Manual}, shown : Shown, keys : SUBSET Key, known : SUBSET Key,
     fetched : {"none", "completed", "partial", "failed"}, name : Name \cup {None}]
RunRecord ==
    [by : Importer, source : Source \cup {Manual}, status : {"completed", "partial", "failed"}, added : Nat]

(* What a request knows at each of its stages. *)
Sensible(j) ==
    /\ j.known \subseteq j.keys
    /\ j.at = "looked" => j.fetched \in {"completed", "partial"}
    /\ j.at = "refused" => j.source # Manual
    /\ j.at = "checked" => j.name \in Name

ImportTyped ==
    /\ sources \in [Source -> SavedSource \cup {None}]
    /\ job \in [Importer -> JobRecord]
    /\ \A m \in Importer : Sensible(job[m])
    /\ history \in Seq(RunRecord)
    /\ gave \in [Importer -> SUBSET Key]
    /\ since \in [Source -> Nat]
    /\ mixed \subseteq Source /\ alike \subseteq Name

(* The records the steps make of a request. *)
LEMMA GoneIs ==
  /\ NoJob = [at |-> "idle", source |-> Manual, shown |-> Never, keys |-> {}, known |-> {},
              fetched |-> "none", name |-> None]
  /\ Gone = [at |-> "done", source |-> Manual, shown |-> Never, keys |-> {}, known |-> {},
             fetched |-> "none", name |-> None]
BY DEF NoJob, Gone

LEMMA JobsMade ==
  ASSUME NEW s, NEW sh, NEW n
  PROVE  /\ [NoJob EXCEPT !.at = "read", !.source = s, !.shown = sh]
              = [at |-> "read", source |-> s, shown |-> sh, keys |-> {}, known |-> {},
                 fetched |-> "none", name |-> None]
         /\ [NoJob EXCEPT !.at = "checked", !.source = s, !.name = n]
              = [at |-> "checked", source |-> s, shown |-> Never, keys |-> {}, known |-> {},
                 fetched |-> "none", name |-> n]
<1> DEFINE a == [NoJob EXCEPT !.at = "read"]
           b == [a EXCEPT !.source = s]
           c == [b EXCEPT !.shown = sh]
           d == [NoJob EXCEPT !.at = "checked"]
           e == [d EXCEPT !.source = s]
           f == [e EXCEPT !.name = n]
<1>1. /\ c = [NoJob EXCEPT !.at = "read", !.source = s, !.shown = sh]
      /\ f = [NoJob EXCEPT !.at = "checked", !.source = s, !.name = n]
  OBVIOUS
<1>4. /\ a = [at |-> "read", source |-> Manual, shown |-> Never, keys |-> {}, known |-> {},
              fetched |-> "none", name |-> None]
      /\ d = [at |-> "checked", source |-> Manual, shown |-> Never, keys |-> {}, known |-> {},
              fetched |-> "none", name |-> None]
  BY GoneIs
<1> HIDE DEF a, d
<1>5. /\ b = [at |-> "read", source |-> s, shown |-> Never, keys |-> {}, known |-> {},
              fetched |-> "none", name |-> None]
      /\ e = [at |-> "checked", source |-> s, shown |-> Never, keys |-> {}, known |-> {},
              fetched |-> "none", name |-> None]
  BY <1>4
<1> HIDE DEF b, e
<1>6. /\ c = [at |-> "read", source |-> s, shown |-> sh, keys |-> {}, known |-> {},
              fetched |-> "none", name |-> None]
      /\ f = [at |-> "checked", source |-> s, shown |-> Never, keys |-> {}, known |-> {},
              fetched |-> "none", name |-> n]
  BY <1>5
<1>7. QED
  BY <1>1, <1>6

LEMMA JobLooked ==
  ASSUME NEW j \in JobRecord, NEW how, NEW K, NEW N
  PROVE  [j EXCEPT !.at = "looked", !.fetched = how, !.keys = K, !.known = N]
           = [at |-> "looked", source |-> j.source, shown |-> j.shown, keys |-> K, known |-> N,
              fetched |-> how, name |-> j.name]
<1> DEFINE a == [j EXCEPT !.at = "looked"]
           b == [a EXCEPT !.fetched = how]
           c == [b EXCEPT !.keys = K]
           d == [c EXCEPT !.known = N]
<1>1. d = [j EXCEPT !.at = "looked", !.fetched = how, !.keys = K, !.known = N]
  OBVIOUS
<1>2. a = [at |-> "looked", source |-> j.source, shown |-> j.shown, keys |-> j.keys, known |-> j.known,
           fetched |-> j.fetched, name |-> j.name]
  BY DEF JobRecord
<1> HIDE DEF a
<1>3. b = [at |-> "looked", source |-> j.source, shown |-> j.shown, keys |-> j.keys, known |-> j.known,
           fetched |-> how, name |-> j.name]
  BY <1>2
<1> HIDE DEF b
<1>4. c = [at |-> "looked", source |-> j.source, shown |-> j.shown, keys |-> K, known |-> j.known,
           fetched |-> how, name |-> j.name]
  BY <1>3
<1> HIDE DEF c
<1>5. d = [at |-> "looked", source |-> j.source, shown |-> j.shown, keys |-> K, known |-> N,
           fetched |-> how, name |-> j.name]
  BY <1>4
<1>6. QED
  BY <1>1, <1>5

LEMMA JobRefused ==
  ASSUME NEW j \in JobRecord, NEW sh
  PROVE  [j EXCEPT !.at = "refused", !.shown = sh]
           = [at |-> "refused", source |-> j.source, shown |-> sh, keys |-> j.keys, known |-> j.known,
              fetched |-> j.fetched, name |-> j.name]
<1> DEFINE a == [j EXCEPT !.at = "refused"]
           b == [a EXCEPT !.shown = sh]
<1>1. b = [j EXCEPT !.at = "refused", !.shown = sh]
  OBVIOUS
<1>2. a = [at |-> "refused", source |-> j.source, shown |-> j.shown, keys |-> j.keys, known |-> j.known,
           fetched |-> j.fetched, name |-> j.name]
  BY DEF JobRecord
<1> HIDE DEF a
<1>3. b = [at |-> "refused", source |-> j.source, shown |-> sh, keys |-> j.keys, known |-> j.known,
           fetched |-> j.fetched, name |-> j.name]
  BY <1>2
<1>4. QED
  BY <1>1, <1>3

LEMMA NeverShown == Never \in Shown
BY DEF Never, Shown

LEMMA GoneIsTyped == Gone \in JobRecord /\ Sensible(Gone) /\ Gone.at = "done"
BY GoneIs, NeverShown DEF JobRecord, JobAt, Sensible, Manual

(* A request whose changes are undone is over, or about to record a failure *)
(* of a saved source, with what the source shows now.                       *)
LEMMA UndoneIs ==
  ASSUME ImportTyped, NEW m \in Importer
  PROVE  /\ Undone(job[m]) \in JobRecord /\ Sensible(Undone(job[m]))
         /\ \/ Undone(job[m]) = Gone
            \/ /\ Undone(job[m]).at = "refused" /\ Undone(job[m]).source = job[m].source
               /\ job[m].source \in Saved
               /\ Undone(job[m]).shown = sources[job[m].source].shown
<1>1. CASE job[m].source \in Saved
  <2>1. job[m] \in JobRecord /\ job[m].source # Manual /\ sources[job[m].source].shown \in Shown
    BY <1>1, ImportAssumption DEF ImportTyped, Saved, SavedSource, Manual
  <2>2. Undone(job[m]) = [at |-> "refused", source |-> job[m].source, shown |-> sources[job[m].source].shown,
                          keys |-> job[m].keys, known |-> job[m].known,
                          fetched |-> job[m].fetched, name |-> job[m].name]
    BY <1>1, <2>1, JobRefused DEF Undone
  <2>3. job[m].known \subseteq job[m].keys
    BY DEF ImportTyped, Sensible
  <2>4. QED
    BY <1>1, <2>1, <2>2, <2>3 DEF JobRecord, JobAt, Sensible
<1>2. CASE job[m].source \notin Saved
  BY <1>2, GoneIsTyped DEF Undone
<1>3. QED
  BY <1>1, <1>2

(* The outcome of a run goes into the columns that differ from what its *)
(* request read.                                                        *)
LEMMA ShownIs ==
  ASSUME NEW j, j.shown \in Shown, NEW now \in Shown, NEW new \in Shown
  PROVE  /\ WrittenShown(j, now, new) \in Shown
         /\ j.shown = now => WrittenShown(j, now, new) = new
<1>1. now = [f \in {"status", "added"} |-> now[f]] /\ new = [f \in {"status", "added"} |-> new[f]]
  BY DEF Shown
<1>2. WrittenShown(j, now, new) = [f \in {"status", "added"} |-> IF new[f] # j.shown[f] THEN new[f] ELSE now[f]]
  BY <1>1 DEF WrittenShown
<1>3. QED
  BY <1>1, <1>2 DEF Shown

(* A finite set of numbers has a highest one: the one that fewest exceed. *)
LEMMA HighestIsThere ==
  ASSUME NEW S \in SUBSET Nat, IsFiniteSet(S), S # {}
  PROVE  \E i \in S : \A j \in S : j <= i
<1> DEFINE Above(i) == {j \in S : j > i}
           T == {Above(i) : i \in S}
<1>1. T \subseteq FiniteSubsetsOf(S) /\ T # {}
  <2>1. ASSUME NEW i \in S
        PROVE  Above(i) \in FiniteSubsetsOf(S)
    <3>1. Above(i) \in SUBSET S
      OBVIOUS
    <3>2. IsFiniteSet(Above(i))
      BY <3>1, FS_Subset
    <3>3. QED
      BY <3>1, <3>2 DEF FiniteSubsetsOf
  <2>2. QED
    BY <2>1
<1>2. PICK U \in T : \A V \in T : ~ (<<V, U>> \in StrictSubsetOrdering(S))
  BY <1>1, FS_StrictSubsetOrderingWellFounded, WFMin
<1>3. PICK i \in S : U = Above(i)
  BY <1>2
<1>4. ASSUME NEW j \in S, ~(j <= i)
      PROVE  FALSE
  <2>a. i \in Nat /\ j \in Nat /\ S \subseteq Nat
    OBVIOUS
  <2>b. \A n \in Nat : n > j => n > i
    BY <1>4, <2>a
  <2>c. j > i /\ ~(j > j)
    BY <1>4, <2>a
  <2>d. j \in Above(i) /\ j \notin Above(j)
    BY <2>c
  <2>e. \A n \in Above(j) : n \in S /\ n \in Nat /\ n > j
    BY <2>a
  <2>f. \A n \in Above(j) : n \in Above(i)
    BY <2>b, <2>e
  <2>1. j \in Above(i) /\ j \notin Above(j) /\ Above(j) \subseteq Above(i)
    BY <2>d, <2>f
  <2>2. <<Above(j), Above(i)>> \in StrictSubsetOrdering(S)
    BY <2>1 DEF StrictSubsetOrdering
  <2>3. QED
    BY <1>2, <1>3, <2>2
<1>5. QED
  BY <1>4

(* What a source should show after the history h, of which the first k runs *)
(* were another source's of its number.                                     *)
Own(h, k, s) == {i \in k + 1..Len(h) : h[i].source = s}
Last(h, k, s) ==
    IF Own(h, k, s) = {} THEN Never
    ELSE LET r == h[CHOOSE i \in Own(h, k, s) : \A j \in Own(h, k, s) : j <= i]
         IN  [status |-> r.status, added |-> r.added]

LEMMA LastShown == ShowsLastRun <=> \A s \in Saved \ mixed : sources[s].shown = Last(history, since[s], s)
BY DEF ShowsLastRun, Last, Own

LEMMA NothingSince ==
  ASSUME NEW h \in Seq(RunRecord), NEW s
  PROVE  Last(h, Len(h), s) = Never
<1>1. Len(h) \in Nat
  OBVIOUS
<1>2. Own(h, Len(h), s) = {}
  BY <1>1 DEF Own
<1>3. QED
  BY <1>2 DEF Last

LEMMA RunAppended ==
  ASSUME NEW h \in Seq(RunRecord), NEW r \in RunRecord, NEW k \in Nat, k <= Len(h), NEW s
  PROVE  Last(Append(h, r), k, s) =
            IF r.source = s THEN [status |-> r.status, added |-> r.added] ELSE Last(h, k, s)
<1> DEFINE g == Append(h, r)
           n == Len(h) + 1
<1>1. Len(h) \in Nat /\ n \in Nat /\ Len(g) = n /\ g[n] = r /\ \A i \in 1..Len(h) : g[i] = h[i]
  OBVIOUS
<1> HIDE DEF g, n
<1>2. CASE r.source = s
  <2>1. n \in Own(g, k, s) /\ \A j \in Own(g, k, s) : j <= n
    BY <1>1, <1>2 DEF Own, n
  <2>2. Own(g, k, s) \subseteq Nat
    BY <1>1 DEF Own
  <2>3. (CHOOSE i \in Own(g, k, s) : \A j \in Own(g, k, s) : j <= i) = n
    BY <1>1, <2>1, <2>2
  <2>4. QED
    BY <1>1, <1>2, <2>1, <2>3 DEF Last, g
<1>3. CASE r.source # s
  <2>1. Own(g, k, s) = Own(h, k, s)
    BY <1>1, <1>3 DEF Own, n
  <2>2. CASE Own(h, k, s) = {}
    BY <1>3, <2>1, <2>2 DEF Last, g
  <2>3. CASE Own(h, k, s) # {}
    <3> DEFINE last == CHOOSE i \in Own(h, k, s) : \A j \in Own(h, k, s) : j <= i
    <3>1. Own(h, k, s) \in SUBSET Nat /\ Own(h, k, s) \subseteq 1..Len(h)
      BY <1>1 DEF Own
    <3>a. IsFiniteSet(1..Len(h))
      BY <1>1, FS_Interval
    <3>2. IsFiniteSet(Own(h, k, s))
      BY <3>1, <3>a, FS_Subset
    <3>3. last \in Own(h, k, s)
      BY <2>3, <3>1, <3>2, HighestIsThere
    <3>4. g[last] = h[last]
      BY <1>1, <3>1, <3>3
    <3>5. QED
      BY <1>3, <2>1, <2>3, <3>4 DEF Last, g
  <2>4. QED
    BY <2>2, <2>3
<1>4. QED
  BY <1>2, <1>3

-----------------------------------------------------------------------------
(* A request is on record only when it is over, and once: so the keys it gave *)
(* are those the record tells of.                                             *)
HistoryInv ==
    /\ \A i \in 1..Len(history) : job[history[i].by].at = "done"
    /\ \A m \in Importer : job[m].at # "done" => gave[m] = {}
    /\ RunsTellTruth

(* Until a second run of its source ends, what a run read there is still shown. *)
ShownInv ==
    /\ \A m \in Importer, s \in Saved \ mixed : Runs(m, s) => job[m].shown = sources[s].shown
    /\ \A s \in Source : since[s] <= Len(history)
    /\ ShowsLastRun

(* A name that was looked for is still free, or was saved by another request *)
(* that had looked for it too.                                               *)
NamesInv ==
    /\ \A m \in Importer, t \in Saved :
          job[m].at = "checked" /\ t # job[m].source /\ sources[t].name = job[m].name => job[m].name \in alike
    /\ NamesDiffer

ImportInv == ImportTyped /\ HistoryInv /\ ShownInv /\ NamesInv

(* A request goes on without writing. *)
LEMMA JobMoves ==
  ASSUME ImportInv, NEW m \in Importer, NEW r \in JobRecord, Sensible(r),
         job' = [job EXCEPT ![m] = r], UNCHANGED <<sources, history, gave, mixed, since, alike>>,
         job[m].at # "done",
         \A s \in Saved \ mixed : r.at \in {"read", "looked", "refused"} /\ r.source = s => r.shown = sources[s].shown,
         \A t \in Saved : r.at = "checked" /\ t # r.source => sources[t].name # r.name
  PROVE  ImportInv'
<1>a. job'[m] = r /\ \A o \in Importer \ {m} : job'[o] = job[o]
  BY DEF ImportInv, ImportTyped
<1>1. ImportTyped'
  BY <1>a DEF ImportInv, ImportTyped
<1>2. HistoryInv'
  <2>a. \A i \in 1..Len(history) : history[i] \in RunRecord
    BY DEF ImportInv, ImportTyped
  <2>1. \A i \in 1..Len(history) : history[i].by \in Importer
    BY <2>a DEF RunRecord
  <2>2. QED
    BY <1>a, <2>1 DEF ImportInv, HistoryInv, RunsTellTruth
<1>3. ShownInv'
  <2>1. ShowsLastRun'
    BY DEF ImportInv, ShownInv, ShowsLastRun, Saved
  <2>2. QED
    BY <1>a, <2>1 DEF ImportInv, ShownInv, Runs, Saved
<1>4. NamesInv'
  BY <1>a DEF ImportInv, NamesInv, NamesDiffer, Saved
<1>5. QED
  BY <1>1, <1>2, <1>3, <1>4 DEF ImportInv

(* The history after a request is over. *)
LEMMA HistoryGrows ==
  ASSUME ImportTyped, HistoryInv, NEW m \in Importer, NEW r \in RunRecord, r.by = m, NEW K,
         job' = [job EXCEPT ![m] = Gone], history' = Append(history, r),
         gave' = [gave EXCEPT ![m] = K], job[m].at # "done",
         r.added = Cardinality(K), r.status = "failed" => K = {}
  PROVE  HistoryInv'
<1>h. history \in Seq(RunRecord)
  BY DEF ImportTyped
<1>i. /\ Len(history) \in Nat /\ Len(history') = Len(history) + 1 /\ history'[Len(history) + 1] = r
      /\ \A i \in 1..Len(history) : history'[i] = history[i] /\ history[i] \in RunRecord
  BY <1>h
<1>a. /\ Len(history) \in Nat /\ Len(history') = Len(history) + 1 /\ history'[Len(history) + 1] = r
      /\ \A i \in 1..Len(history) : history'[i] = history[i] /\ history[i].by \in Importer
  BY <1>i DEF RunRecord
<1>b. /\ gave'[m] = K /\ \A o \in Importer \ {m} : gave'[o] = gave[o]
      /\ job'[m].at = "done" /\ \A o \in Importer \ {m} : job'[o] = job[o]
  BY GoneIsTyped DEF ImportTyped
<1>c. \A i \in 1..Len(history) : history[i].by # m
  BY DEF HistoryInv
<1>d. \A i \in 1..Len(history') : i \in 1..Len(history) \/ i = Len(history) + 1
  BY <1>a
<1>e. Len(history) + 1 \in 1..Len(history')
  BY <1>a
<1>1. \A i \in 1..Len(history') : job'[history'[i].by].at = "done"
  BY <1>a, <1>b, <1>d DEF HistoryInv
<1>2. \A o \in Importer : job'[o].at # "done" => gave'[o] = {}
  BY <1>b DEF HistoryInv
<1>3. \A i \in 1..Len(history') :
         history'[i].added = IF history'[i].status = "failed" THEN 0 ELSE Cardinality(gave'[history'[i].by])
  <2>1. Cardinality({}) = 0
    BY FS_EmptySet
  <2>2. ASSUME NEW i \in 1..Len(history)
        PROVE  history'[i].added = IF history'[i].status = "failed" THEN 0 ELSE Cardinality(gave'[history'[i].by])
    <3>1. history'[i] = history[i] /\ gave'[history[i].by] = gave[history[i].by]
      BY <1>a, <1>b, <1>c
    <3>2. QED
      BY <3>1 DEF HistoryInv, RunsTellTruth
  <2>3. r.added = IF r.status = "failed" THEN 0 ELSE Cardinality(gave'[r.by])
    BY <1>b, <2>1
  <2>4. QED
    BY <1>a, <1>d, <2>2, <2>3
<1>4. \A i \in 1..Len(history') : history'[i].status = "failed" => gave'[history'[i].by] = {}
  BY <1>a, <1>b, <1>c, <1>d DEF HistoryInv, RunsTellTruth
<1>5. ASSUME NEW o \in Importer, gave'[o] # {}
      PROVE  \E i \in 1..Len(history') : history'[i].by = o
  <2>1. CASE o = m
    BY <1>a, <1>e, <2>1
  <2>2. CASE o # m
    <3>1. PICK i \in 1..Len(history) : history[i].by = o
      BY <1>b, <1>5, <2>2 DEF HistoryInv, RunsTellTruth
    <3>2. i \in 1..Len(history') /\ history'[i].by = o
      BY <1>a, <3>1
    <3>3. QED
      BY <3>2
  <2>3. QED
    BY <2>1, <2>2
<1>6. QED
  BY <1>1, <1>2, <1>3, <1>4, <1>5 DEF HistoryInv, RunsTellTruth

(* What sources show and what they are called, when a run of s ends. *)
LEMMA LastShownNext ==
  ShowsLastRun' <=> \A s \in Saved' \ mixed' : sources'[s].shown = Last(history', since'[s], s)
BY DEF ShowsLastRun, Last, Own

LEMMA SourceShows ==
  ASSUME ImportInv, NEW m \in Importer, NEW s \in Saved, Runs(m, s), NEW outcome \in Shown,
         ShowsOutcome(m, s, outcome), NEW r \in RunRecord, r.source = s,
         r.status = outcome.status, r.added = outcome.added,
         job' = [job EXCEPT ![m] = Gone], history' = Append(history, r),
         gave' \in [Importer -> SUBSET Key], UNCHANGED <<since, alike>>
  PROVE  ImportTyped' /\ ShownInv' /\ NamesInv'
<1> DEFINE new == WrittenShown(job[m], sources[s].shown, outcome)
<1>a. /\ s \in Source /\ sources[s] \in SavedSource /\ sources[s].shown \in Shown
      /\ job[m] \in JobRecord /\ job[m].shown \in Shown
  BY DEF ImportInv, ImportTyped, Saved, SavedSource, JobRecord
<1>b. new \in Shown /\ (job[m].shown = sources[s].shown => new = outcome)
  BY <1>a, ShownIs
<1>c. /\ sources' = [sources EXCEPT ![s] = [sources[s] EXCEPT !.shown = new]]
      /\ mixed' = mixed \cup {t \in {s} : \E o \in Importer \ {m} : Runs(o, t)}
  BY DEF ShowsOutcome
<1> HIDE DEF new
<1>d. [sources[s] EXCEPT !.shown = new] = [name |-> sources[s].name, active |-> sources[s].active, shown |-> new]
  BY <1>a DEF SavedSource
<1>e. /\ sources' \in [Source -> SavedSource \cup {None}]
      /\ sources'[s].shown = new /\ sources'[s].name = sources[s].name /\ sources'[s] \in SavedSource
      /\ \A t \in Source \ {s} : sources'[t] = sources[t]
  BY <1>a, <1>b, <1>c, <1>d DEF ImportInv, ImportTyped, SavedSource
<1>g. Saved' \subseteq Saved /\ \A t \in Saved : sources'[t].name = sources[t].name
  BY <1>a, <1>e DEF Saved
<1>h. /\ job'[m] = Gone /\ job'[m].at = "done" /\ \A o \in Importer \ {m} : job'[o] = job[o]
      /\ job' \in [Importer -> JobRecord] /\ \A o \in Importer : Sensible(job'[o])
  BY GoneIsTyped DEF ImportInv, ImportTyped
<1>i. /\ history \in Seq(RunRecord) /\ history' \in Seq(RunRecord)
      /\ Len(history) \in Nat /\ Len(history') = Len(history) + 1
  BY DEF ImportInv, ImportTyped
<1>j. \A t \in Source : since[t] \in Nat /\ since[t] <= Len(history)
  BY DEF ImportInv, ImportTyped, ShownInv
<1>1. ImportTyped'
  BY <1>a, <1>c, <1>e, <1>h, <1>i DEF ImportInv, ImportTyped
<1>2. ASSUME NEW o \in Importer, NEW t \in Saved \ mixed', Runs(o, t)'
      PROVE  job'[o].shown = sources'[t].shown
  <2>1. o # m /\ Runs(o, t)
    BY <1>h, <1>2 DEF Runs
  <2>2. t # s /\ t \notin mixed
    BY <1>c, <2>1
  <2>3. QED
    BY <1>e, <1>h, <2>1, <2>2 DEF ImportInv, ShownInv, Saved
<1>3. ASSUME NEW t \in Saved \ mixed'
      PROVE  sources'[t].shown = Last(history', since[t], t)
  <2>1. t \in Saved \ mixed /\ sources[t].shown = Last(history, since[t], t)
    BY <1>c, LastShown DEF ImportInv, ShownInv
  <2>2. t \in Source
    BY <2>1 DEF Saved
  <2>3. Last(history', since[t], t) =
           IF r.source = t THEN [status |-> r.status, added |-> r.added] ELSE Last(history, since[t], t)
    BY <1>i, <1>j, <2>2, RunAppended
  <2>4. CASE t # s
    BY <1>e, <2>1, <2>2, <2>3, <2>4
  <2>5. CASE t = s
    <3>1. job[m].shown = sources[s].shown
      BY <2>1, <2>5 DEF ImportInv, ShownInv
    <3>2. outcome = [status |-> r.status, added |-> r.added]
      BY DEF Shown
    <3>3. QED
      BY <1>b, <1>e, <2>3, <2>5, <3>1, <3>2
  <2>6. QED
    BY <2>4, <2>5
<1>4. ShownInv'
  BY <1>2, <1>3, <1>g, <1>i, <1>j, LastShownNext DEF ShownInv
<1>5. NamesInv'
  BY <1>g, <1>h DEF ImportInv, NamesInv, NamesDiffer
<1>6. QED
  BY <1>1, <1>4, <1>5

(* A run of no source is recorded, and no source shows it. *)
LEMMA ManualRuns ==
  ASSUME ImportInv, NEW m \in Importer, NEW r \in RunRecord, r.source = Manual,
         job' = [job EXCEPT ![m] = Gone], history' = Append(history, r),
         gave' \in [Importer -> SUBSET Key], UNCHANGED <<sources, mixed, since, alike>>
  PROVE  ImportTyped' /\ ShownInv' /\ NamesInv'
<1>h. /\ job'[m] = Gone /\ job'[m].at = "done" /\ \A o \in Importer \ {m} : job'[o] = job[o]
      /\ job' \in [Importer -> JobRecord] /\ \A o \in Importer : Sensible(job'[o])
  BY GoneIsTyped DEF ImportInv, ImportTyped
<1>i. /\ history \in Seq(RunRecord) /\ history' \in Seq(RunRecord)
      /\ Len(history) \in Nat /\ Len(history') = Len(history) + 1
  BY DEF ImportInv, ImportTyped
<1>j. \A t \in Source : since[t] \in Nat /\ since[t] <= Len(history)
  BY DEF ImportInv, ImportTyped, ShownInv
<1>g. Saved' = Saved
  BY DEF Saved
<1>1. ImportTyped'
  BY <1>h, <1>i DEF ImportInv, ImportTyped
<1>2. ASSUME NEW o \in Importer, NEW t \in Saved \ mixed, Runs(o, t)'
      PROVE  job'[o].shown = sources[t].shown
  <2>1. o # m /\ Runs(o, t)
    BY <1>h, <1>2 DEF Runs
  <2>2. QED
    BY <1>h, <2>1 DEF ImportInv, ShownInv
<1>3. ASSUME NEW t \in Saved \ mixed
      PROVE  sources[t].shown = Last(history', since[t], t)
  <2>1. sources[t].shown = Last(history, since[t], t)
    BY LastShown DEF ImportInv, ShownInv
  <2>2. t \in Source /\ t # Manual
    BY ImportAssumption DEF Saved, Manual
  <2>3. Last(history', since[t], t) =
           IF r.source = t THEN [status |-> r.status, added |-> r.added] ELSE Last(history, since[t], t)
    BY <1>i, <1>j, <2>2, RunAppended
  <2>4. QED
    BY <2>1, <2>2, <2>3
<1>4. ShownInv'
  BY <1>2, <1>3, <1>g, <1>i, <1>j, LastShownNext DEF ShownInv
<1>5. NamesInv'
  BY <1>g, <1>h DEF ImportInv, NamesInv, NamesDiffer
<1>6. QED
  BY <1>1, <1>4, <1>5

(* The steps of a request. *)
LEMMA BeginsKeepsIt ==
  ASSUME ImportInv, NEW m \in Importer, NEW s \in Source \cup {Manual}, Begins(m, s)
  PROVE  ImportInv'
<1> DEFINE sh == IF s = Manual THEN Never ELSE sources[s].shown
           r == [NoJob EXCEPT !.at = "read", !.source = s, !.shown = sh]
<1>1. sh \in Shown
  BY NeverShown DEF Begins, ImportInv, ImportTyped, Saved, SavedSource
<1>2. s \in Saved => sh = sources[s].shown
  BY ImportAssumption DEF Saved, Manual
<1>3. job' = [job EXCEPT ![m] = r] /\ UNCHANGED <<sources, history, gave, mixed, since, alike>> /\ job[m].at = "idle"
  BY DEF Begins
<1> HIDE DEF sh
<1>4. r = [at |-> "read", source |-> s, shown |-> sh, keys |-> {}, known |-> {}, fetched |-> "none", name |-> None]
  BY JobsMade
<1>5. r \in JobRecord /\ Sensible(r) /\ r.at = "read" /\ r.source = s /\ r.shown = sh
  BY <1>1, <1>4 DEF JobRecord, JobAt, Sensible
<1> HIDE DEF r
<1>6. QED
  BY <1>2, <1>3, <1>5, JobMoves

LEMMA UndoingKeepsIt ==
  ASSUME ImportInv, NEW m \in Importer, job[m].at # "done",
         job' = [job EXCEPT ![m] = Undone(job[m])], UNCHANGED <<sources, history, gave, mixed, since, alike>>
  PROVE  ImportInv'
<1>1. /\ Undone(job[m]) \in JobRecord /\ Sensible(Undone(job[m]))
      /\ \/ Undone(job[m]) = Gone
         \/ /\ Undone(job[m]).at = "refused" /\ Undone(job[m]).source = job[m].source
            /\ job[m].source \in Saved
            /\ Undone(job[m]).shown = sources[job[m].source].shown
  BY UndoneIs DEF ImportInv
<1>2. QED
  BY <1>1, GoneIsTyped, JobMoves

LEMMA LooksKeepsIt ==
  ASSUME ImportInv, NEW m \in Importer, NEW fetched \in Fetched, Looks(m, fetched)
  PROVE  ImportInv'
<1>a. job[m].at = "read" /\ job[m] \in JobRecord /\ UNCHANGED <<sources, history, gave, mixed, since, alike>>
  BY DEF Looks, ImportInv, ImportTyped
<1>1. CASE fetched.how = "failed"
  <2>1. job' = [job EXCEPT ![m] = Undone(job[m])]
    BY <1>1 DEF Looks
  <2>2. QED
    BY <1>a, <2>1, UndoingKeepsIt
<1>2. CASE fetched.how # "failed"
  <2> DEFINE known == fetched.keys \cap Keys
             r == [job[m] EXCEPT !.at = "looked", !.fetched = fetched.how, !.keys = fetched.keys, !.known = known]
  <2>1. job' = [job EXCEPT ![m] = r]
    BY <1>2 DEF Looks
  <2>2. fetched.keys \in SUBSET Key /\ fetched.how \in {"completed", "partial"}
    BY <1>2 DEF Fetched
  <2>3. known \subseteq fetched.keys
    OBVIOUS
  <2> HIDE DEF known
  <2>4. r = [at |-> "looked", source |-> job[m].source, shown |-> job[m].shown, keys |-> fetched.keys,
             known |-> known, fetched |-> fetched.how, name |-> job[m].name]
    <3> DEFINE j == job[m]
               K == fetched.keys
               how == fetched.how
    <3>1. j \in JobRecord
      BY <1>a
    <3> HIDE DEF j, K, how
    <3>2. [j EXCEPT !.at = "looked", !.fetched = how, !.keys = K, !.known = known]
            = [at |-> "looked", source |-> j.source, shown |-> j.shown, keys |-> K, known |-> known,
               fetched |-> how, name |-> j.name]
      BY <3>1, JobLooked
    <3>3. QED
      BY <3>2 DEF j, K, how
  <2>5. /\ r \in JobRecord /\ Sensible(r)
        /\ r.at = "looked" /\ r.source = job[m].source /\ r.shown = job[m].shown
    BY <1>a, <2>2, <2>3, <2>4 DEF JobRecord, JobAt, Sensible
  <2> HIDE DEF r
  <2>6. \A s \in Saved \ mixed : r.source = s => r.shown = sources[s].shown
    BY <1>a, <2>5 DEF ImportInv, ShownInv, Runs
  <2>7. QED
    BY <1>a, <2>1, <2>5, <2>6, JobMoves
<1>3. QED
  BY <1>1, <1>2

LEMMA CommitsKeepsIt ==
  ASSUME ImportInv, NEW m \in Importer, Commits(m)
  PROVE  ImportInv'
<1> DEFINE j == job[m]
           K == New(j)
           r == Recorded(m, j.source, Outcome(j))
<1>a. j \in JobRecord /\ Sensible(j) /\ j.at = "looked" /\ j.fetched \in {"completed", "partial"}
  BY DEF Commits, ImportInv, ImportTyped, Sensible
<1>b. K \in SUBSET Key /\ IsFiniteSet(K)
  BY <1>a, FS_Subset, ImportAssumption DEF New, JobRecord
<1>c. Cardinality(K) \in Nat
  BY <1>b, FS_CardinalityType
<1>1. CASE K \cap Keys # {} \/ j.source \notin Saved \cup {Manual}
  <2>1. job' = [job EXCEPT ![m] = Undone(job[m])] /\ UNCHANGED <<sources, history, gave, mixed, since, alike>>
    BY <1>1 DEF Commits
  <2>2. QED
    BY <1>a, <2>1, UndoingKeepsIt
<1>2. CASE ~(K \cap Keys # {} \/ j.source \notin Saved \cup {Manual})
  <2>1. /\ gave' = [gave EXCEPT ![m] = K]
        /\ history' = Append(history, r)
        /\ IF j.source = Manual THEN UNCHANGED <<sources, mixed>> ELSE ShowsOutcome(m, j.source, Outcome(j))
        /\ job' = [job EXCEPT ![m] = Gone]
        /\ UNCHANGED <<since, alike>>
    BY <1>2 DEF Commits
  <2>2. r = [by |-> m, source |-> j.source, status |-> j.fetched, added |-> Cardinality(K)]
        /\ Outcome(j) = [status |-> j.fetched, added |-> Cardinality(K)]
    BY DEF Recorded, Outcome
  <2>3. r \in RunRecord /\ Outcome(j) \in Shown
    BY <1>a, <1>c, <2>2 DEF RunRecord, JobRecord, Shown
  <2>8. r.source = j.source /\ r.status = Outcome(j).status /\ r.added = Outcome(j).added
    BY <2>2
  <2>4. gave' \in [Importer -> SUBSET Key]
    BY <1>b, <2>1 DEF ImportInv, ImportTyped
  <2>5. HistoryInv'
    BY <1>a, <2>1, <2>2, <2>3, HistoryGrows DEF ImportInv
  <2>6. ImportTyped' /\ ShownInv' /\ NamesInv'
    <3>1. CASE j.source = Manual
      BY <2>1, <2>2, <2>3, <2>4, <3>1, ManualRuns
    <3>2. CASE j.source # Manual
      <4>1. j.source \in Saved /\ Runs(m, j.source)
        BY <1>2, <1>a, <3>2 DEF Runs
      <4>2. QED
        <5> DEFINE outcome == Outcome(j)
        <5>1. ShowsOutcome(m, j.source, outcome) /\ outcome \in Shown
              /\ r.status = outcome.status /\ r.added = outcome.added
          BY <2>1, <2>3, <2>8, <3>2
        <5> HIDE DEF outcome, r
        <5>2. QED
          BY <2>1, <2>3, <2>4, <2>8, <4>1, <5>1, SourceShows
    <3>3. QED
      BY <3>1, <3>2
  <2>7. QED
    BY <2>5, <2>6 DEF ImportInv
<1>3. QED
  BY <1>1, <1>2

LEMMA FailureKeepsIt ==
  ASSUME ImportInv, NEW m \in Importer, RecordsFailure(m)
  PROVE  ImportInv'
<1> DEFINE s == job[m].source
           outcome == [status |-> "failed", added |-> 0]
           r == Recorded(m, s, outcome)
<1>a. /\ job[m] \in JobRecord /\ job[m].at = "refused" /\ job' = [job EXCEPT ![m] = Gone]
      /\ UNCHANGED <<gave, since, alike>> /\ gave[m] = {}
  BY DEF RecordsFailure, ImportInv, ImportTyped, HistoryInv
<1>1. CASE s \in Saved
  <2>1. history' = Append(history, r) /\ ShowsOutcome(m, s, outcome)
    BY <1>1 DEF RecordsFailure
  <2>2. r = [by |-> m, source |-> s, status |-> "failed", added |-> 0] /\ outcome \in Shown
    BY DEF Recorded, Shown
  <2>3. r \in RunRecord
    BY <1>a, <2>2 DEF RunRecord, JobRecord
  <2>4. gave' = [gave EXCEPT ![m] = {}] /\ gave' \in [Importer -> SUBSET Key]
    BY <1>a DEF ImportInv, ImportTyped
  <2>5. HistoryInv'
    BY <1>a, <2>1, <2>2, <2>3, <2>4, HistoryGrows, FS_EmptySet DEF ImportInv
  <2>6. Runs(m, s)
    BY <1>a DEF Runs
  <2>7. ImportTyped' /\ ShownInv' /\ NamesInv'
    BY <1>1, <1>a, <2>1, <2>2, <2>3, <2>4, <2>6, SourceShows
  <2>8. QED
    BY <2>5, <2>7 DEF ImportInv
<1>2. CASE s \notin Saved
  <2>1. UNCHANGED <<history, sources, mixed>>
    BY <1>2 DEF RecordsFailure
  <2>2. QED
    BY <1>a, <2>1, GoneIsTyped, JobMoves
<1>3. QED
  BY <1>1, <1>2

LEMMA ChecksNameKeepsIt ==
  ASSUME ImportInv, NEW m \in Importer, NEW s \in Source \cup {Manual}, NEW n \in Name, ChecksName(m, s, n)
  PROVE  ImportInv'
<1> DEFINE r == [NoJob EXCEPT !.at = "checked", !.source = s, !.name = n]
<1>1. job' = [job EXCEPT ![m] = r] /\ UNCHANGED <<sources, history, gave, mixed, since, alike>> /\ job[m].at = "idle"
  BY DEF ChecksName
<1>2. r = [at |-> "checked", source |-> s, shown |-> Never, keys |-> {}, known |-> {}, fetched |-> "none", name |-> n]
  BY JobsMade
<1>3. r \in JobRecord /\ Sensible(r) /\ r.at = "checked" /\ r.source = s /\ r.name = n
  BY <1>2, NeverShown DEF JobRecord, JobAt, Sensible
<1> HIDE DEF r
<1>4. \A t \in Saved : t # s => sources[t].name # n
  BY DEF ChecksName, NamesBut
<1>5. QED
  BY <1>1, <1>3, <1>4, JobMoves

(* Sources that are turned on or off, or deleted. *)
LEMMA SourcesStay ==
  ASSUME ImportInv, sources' \in [Source -> SavedSource \cup {None}], Saved' \subseteq Saved,
         \A t \in Saved' : sources'[t].name = sources[t].name /\ sources'[t].shown = sources[t].shown,
         UNCHANGED <<job, history, gave, mixed, since, alike>>
  PROVE  ImportInv'
<1>1. ImportTyped'
  BY DEF ImportInv, ImportTyped
<1>2. HistoryInv'
  BY DEF ImportInv, HistoryInv, RunsTellTruth
<1>3. ShownInv'
  BY LastShown, LastShownNext DEF ImportInv, ShownInv, Runs
<1>4. NamesInv'
  BY DEF ImportInv, NamesInv, NamesDiffer
<1>5. QED
  BY <1>1, <1>2, <1>3, <1>4 DEF ImportInv

LEMMA SetsActiveKeepsIt ==
  ASSUME ImportInv, NEW s \in Source, NEW active \in BOOLEAN, SetsActive(s, active)
  PROVE  ImportInv'
<1>1. s \in Saved /\ sources[s] \in SavedSource /\ sources \in [Source -> SavedSource \cup {None}]
  BY DEF SetsActive, ImportInv, ImportTyped, Saved
<1>2. sources' = [sources EXCEPT ![s] = [sources[s] EXCEPT !.active = active]]
      /\ UNCHANGED <<job, history, gave, mixed, since, alike>>
  BY DEF SetsActive
<1>3. [sources[s] EXCEPT !.active = active]
        = [name |-> sources[s].name, active |-> active, shown |-> sources[s].shown]
  BY <1>1 DEF SavedSource
<1>4. /\ sources' \in [Source -> SavedSource \cup {None}]
      /\ sources'[s].name = sources[s].name /\ sources'[s].shown = sources[s].shown
      /\ \A t \in Source \ {s} : sources'[t] = sources[t]
  BY <1>1, <1>2, <1>3 DEF SavedSource
<1>5. /\ Saved' \subseteq Saved
      /\ \A t \in Saved' : sources'[t].name = sources[t].name /\ sources'[t].shown = sources[t].shown
  BY <1>1, <1>4 DEF Saved
<1>6. QED
  BY <1>2, <1>4, <1>5, SourcesStay

LEMMA DeletesKeepsIt ==
  ASSUME ImportInv, NEW s \in Source, DeletesSource(s)
  PROVE  ImportInv'
<1>1. sources' \in [Source -> SavedSource \cup {None}] /\ UNCHANGED <<job, history, gave, mixed, since, alike>>
  BY DEF DeletesSource, ImportInv, ImportTyped
<1>2. /\ Saved' \subseteq Saved
      /\ \A t \in Saved' : sources'[t] = sources[t]
  BY DEF DeletesSource, ImportInv, ImportTyped, Saved
<1>3. QED
  BY <1>1, <1>2, SourcesStay

(* A request that saves source s has looked for its name before. *)
LEMMA SavingKeepsIt ==
  ASSUME ImportInv, NEW m \in Importer, job[m].at = "checked", NEW s \in Source, NEW r \in SavedSource,
         r.name = job[m].name, sources' = [sources EXCEPT ![s] = r],
         \/ s \in Saved /\ job[m].source = s /\ r.shown = sources[s].shown /\ UNCHANGED <<mixed, since>>
         \/ /\ s \notin Saved /\ job[m].source = Manual /\ r.shown = Never
            /\ since' = [since EXCEPT ![s] = Len(history)]
            /\ mixed' = (mixed \ {s}) \cup {t \in {s} : \E o \in Importer \ {m} : Runs(o, t)},
         alike' = alike \cup {n \in {job[m].name} : \E o \in Importer \ {m} : job[o].at = "checked" /\ job[o].name = n},
         job' = [job EXCEPT ![m] = Gone], UNCHANGED <<history, gave>>
  PROVE  ImportInv'
<1>a. /\ sources' \in [Source -> SavedSource \cup {None}]
      /\ sources'[s] = r /\ \A t \in Source \ {s} : sources'[t] = sources[t]
  BY DEF ImportInv, ImportTyped
<1>b. Saved' \subseteq Saved \cup {s} /\ Saved \subseteq Source
  BY <1>a DEF Saved
<1>c. /\ job'[m] = Gone /\ job'[m].at = "done" /\ \A o \in Importer \ {m} : job'[o] = job[o]
      /\ job' \in [Importer -> JobRecord] /\ \A o \in Importer : Sensible(job'[o])
  BY GoneIsTyped DEF ImportInv, ImportTyped
<1>d. history \in Seq(RunRecord) /\ Len(history) \in Nat
  BY DEF ImportInv, ImportTyped
<1>e. /\ since' \in [Source -> Nat] /\ mixed' \subseteq Source
      /\ \A t \in Source \ {s} : since'[t] = since[t] /\ (t \in mixed' <=> t \in mixed)
      /\ \A t \in Source : since'[t] <= Len(history)
  <2>1. since \in [Source -> Nat] /\ mixed \subseteq Source /\ \A t \in Source : since[t] <= Len(history)
    BY DEF ImportInv, ImportTyped, ShownInv
  <2>2. CASE UNCHANGED <<mixed, since>>
    BY <2>1, <2>2
  <2>3. CASE /\ since' = [since EXCEPT ![s] = Len(history)]
             /\ mixed' = (mixed \ {s}) \cup {t \in {s} : \E o \in Importer \ {m} : Runs(o, t)}
    <3>1. since' \in [Source -> Nat] /\ since'[s] = Len(history) /\ \A t \in Source \ {s} : since'[t] = since[t]
      BY <1>d, <2>1, <2>3
    <3>2. mixed' \subseteq Source /\ \A t \in Source \ {s} : t \in mixed' <=> t \in mixed
      BY <2>1, <2>3
    <3>3. \A t \in Source : since'[t] <= Len(history)
      BY <1>d, <2>1, <3>1
    <3>4. QED
      BY <3>1, <3>2, <3>3
  <2>4. QED
    BY <2>2, <2>3
<1>f. job[m].name \in Name /\ \A t \in Saved : t # job[m].source /\ sources[t].name = job[m].name => job[m].name \in alike
  BY DEF ImportInv, ImportTyped, Sensible, NamesInv
<1>1. ImportTyped'
  BY <1>a, <1>c, <1>d, <1>e, <1>f DEF ImportInv, ImportTyped
<1>2. HistoryInv'
  <2>1. \A i \in 1..Len(history) : history[i] \in RunRecord
    BY <1>d
  <2>2. \A i \in 1..Len(history) : history[i].by \in Importer
    BY <2>1 DEF RunRecord
  <2>3. QED
    BY <1>c, <2>2 DEF ImportInv, HistoryInv, RunsTellTruth
<1>3. ASSUME NEW o \in Importer, NEW t \in Saved' \ mixed', Runs(o, t)'
      PROVE  job'[o].shown = sources'[t].shown
  <2>1. o # m /\ Runs(o, t)
    BY <1>c, <1>3 DEF Runs
  <2>2. CASE t # s
    BY <1>a, <1>b, <1>c, <1>e, <2>1, <2>2 DEF ImportInv, ShownInv
  <2>3. CASE t = s
    BY <1>a, <1>c, <2>1, <2>3 DEF ImportInv, ShownInv
  <2>4. QED
    BY <2>2, <2>3
<1>4. ASSUME NEW t \in Saved' \ mixed'
      PROVE  sources'[t].shown = Last(history, since'[t], t)
  <2>1. CASE t # s
    BY <1>a, <1>b, <1>e, <2>1, LastShown DEF ImportInv, ShownInv
  <2>2. CASE t = s /\ s \in Saved
    BY <1>a, <2>2, LastShown DEF ImportInv, ShownInv
  <2>3. CASE t = s /\ s \notin Saved
    <3>1. since'[s] = Len(history)
      BY <2>3 DEF ImportInv, ImportTyped
    <3>2. QED
      BY <1>a, <1>d, <2>3, <3>1, NothingSince
  <2>4. QED
    BY <2>1, <2>2, <2>3
<1>5. ShownInv'
  BY <1>3, <1>4, <1>e, LastShownNext DEF ShownInv
<1>6. ASSUME NEW o \in Importer, NEW t \in Saved', job'[o].at = "checked", t # job'[o].source,
             sources'[t].name = job'[o].name
      PROVE  job'[o].name \in alike'
  <2>1. o # m /\ job'[o] = job[o]
    BY <1>c, <1>6
  <2>2. CASE t # s
    BY <1>6, <1>a, <1>b, <2>1, <2>2 DEF ImportInv, NamesInv
  <2>3. CASE t = s
    BY <1>6, <1>a, <2>1, <2>3
  <2>4. QED
    BY <2>2, <2>3
<1>7. ASSUME NEW t \in Saved', NEW u \in Saved', sources'[t].name = sources'[u].name, t # u
      PROVE  sources'[t].name \in alike'
  <2>1. ASSUME NEW v \in Saved', v # s, sources'[v].name = r.name
        PROVE  r.name \in alike'
    <3>1. v \in Saved /\ sources[v].name = job[m].name
      BY <1>a, <1>b, <2>1
    <3>2. v # job[m].source
      BY <2>1, <3>1, <1>b, ImportAssumption DEF Manual
    <3>3. QED
      BY <1>f, <3>1, <3>2
  <2>2. CASE t = s \/ u = s
    BY <1>7, <1>a, <2>1, <2>2
  <2>3. CASE t # s /\ u # s
    <3>1. t \in Saved /\ u \in Saved /\ sources'[t] = sources[t] /\ sources'[u] = sources[u]
      BY <1>a, <1>b, <2>3
    <3>2. QED
      BY <1>7, <3>1 DEF ImportInv, NamesInv, NamesDiffer
  <2>4. QED
    BY <2>2, <2>3
<1>8. NamesInv'
  BY <1>6, <1>7 DEF NamesInv, NamesDiffer
<1>9. QED
  BY <1>1, <1>2, <1>5, <1>8 DEF ImportInv

LEMMA SavesKeepsIt ==
  ASSUME ImportInv, NEW m \in Importer, Saves(m)
  PROVE  ImportInv'
<1> DEFINE s == job[m].source
           n == job[m].name
<1>a. /\ job[m].at = "checked" /\ n \in Name /\ s \in Source \cup {Manual}
      /\ alike' = alike \cup {k \in {n} : \E o \in Importer \ {m} : job[o].at = "checked" /\ job[o].name = k}
      /\ job' = [job EXCEPT ![m] = Gone] /\ UNCHANGED <<history, gave>>
  BY DEF Saves, ImportInv, ImportTyped, Sensible, JobRecord
<1>1. CASE s \in Saved /\ (\E active \in BOOLEAN :
                              sources' = [sources EXCEPT ![s].name = n, ![s].active = active])
           /\ UNCHANGED <<mixed, since>>
  <2>1. PICK active \in BOOLEAN : sources' = [sources EXCEPT ![s].name = n, ![s].active = active]
    BY <1>1
  <2>2. s \in Source /\ sources[s] \in SavedSource /\ sources \in [Source -> SavedSource \cup {None}]
    BY <1>1 DEF Saved, ImportInv, ImportTyped
  <2> DEFINE mid == [sources EXCEPT ![s].name = n]
             r == [name |-> n, active |-> active, shown |-> sources[s].shown]
  <2>3. sources' = [mid EXCEPT ![s].active = active]
    BY <2>1
  <2>4. mid = [sources EXCEPT ![s] = [name |-> n, active |-> sources[s].active, shown |-> sources[s].shown]]
    <3>1. [sources[s] EXCEPT !.name = n] = [name |-> n, active |-> sources[s].active, shown |-> sources[s].shown]
      BY <2>2 DEF SavedSource
    <3>2. mid = [sources EXCEPT ![s] = [sources[s] EXCEPT !.name = n]]
      OBVIOUS
    <3>3. QED
      BY <3>1, <3>2
  <2> HIDE DEF mid
  <2>5. sources' = [sources EXCEPT ![s] = r]
    <3>1. mid[s] = [name |-> n, active |-> sources[s].active, shown |-> sources[s].shown]
      BY <2>2, <2>4
    <3>2. [mid[s] EXCEPT !.active = active] = r
      BY <3>1
    <3>3. sources' = [mid EXCEPT ![s] = r]
      BY <2>3, <3>2
    <3> HIDE DEF r
    <3>4. QED
      BY <2>2, <2>4, <3>3
  <2>6. r \in SavedSource /\ r.name = job[m].name /\ r.shown = sources[s].shown
    BY <1>a, <2>2 DEF SavedSource
  <2> HIDE DEF r
  <2>7. QED
    BY <1>1, <1>a, <2>2, <2>5, <2>6, SavingKeepsIt
<1>2. CASE s = Manual /\ \E t \in NextSource :
                /\ sources' = [sources EXCEPT ![t] = [name |-> n, active |-> TRUE, shown |-> Never]]
                /\ since' = [since EXCEPT ![t] = Len(history)]
                /\ mixed' = (mixed \ {t}) \cup {u \in {t} : \E o \in Importer \ {m} : Runs(o, u)}
  <2>1. PICK t \in NextSource :
                /\ sources' = [sources EXCEPT ![t] = [name |-> n, active |-> TRUE, shown |-> Never]]
                /\ since' = [since EXCEPT ![t] = Len(history)]
                /\ mixed' = (mixed \ {t}) \cup {u \in {t} : \E o \in Importer \ {m} : Runs(o, u)}
    BY <1>2
  <2> DEFINE r == [name |-> n, active |-> TRUE, shown |-> Never]
  <2>2. r \in SavedSource /\ r.name = job[m].name /\ r.shown = Never
    BY <1>a, NeverShown DEF SavedSource
  <2>3. sources' = [sources EXCEPT ![t] = r]
    BY <2>1
  <2>4. t \in Source /\ t \notin Saved
    BY ImportAssumption DEF NextSource, Saved
  <2> HIDE DEF r
  <2>5. QED
    <3>1. /\ t \notin Saved /\ job[m].source = Manual /\ r.shown = Never
          /\ since' = [since EXCEPT ![t] = Len(history)]
          /\ mixed' = (mixed \ {t}) \cup {u \in {t} : \E o \in Importer \ {m} : Runs(o, u)}
      BY <1>2, <2>1, <2>2, <2>4
    <3>2. QED
      BY <1>a, <2>2, <2>3, <2>4, <3>1, SavingKeepsIt
<1>3. CASE UNCHANGED <<sources, mixed, since>>
  <2>a. /\ job'[m] = Gone /\ job'[m].at = "done" /\ \A o \in Importer \ {m} : job'[o] = job[o]
        /\ job' \in [Importer -> JobRecord] /\ \A o \in Importer : Sensible(job'[o])
    BY <1>a, GoneIsTyped DEF ImportInv, ImportTyped
  <2>b. alike \subseteq alike' /\ alike' \subseteq Name
    BY <1>a DEF ImportInv, ImportTyped
  <2>1. ImportTyped'
    BY <1>3, <1>a, <2>a, <2>b DEF ImportInv, ImportTyped
  <2>2. HistoryInv'
    <3>1. history \in Seq(RunRecord)
      BY DEF ImportInv, ImportTyped
    <3>2. \A i \in 1..Len(history) : history[i] \in RunRecord
      BY <3>1
    <3>3. \A i \in 1..Len(history) : history[i].by \in Importer
      BY <3>2 DEF RunRecord
    <3>4. QED
      BY <1>a, <2>a, <3>3 DEF ImportInv, HistoryInv, RunsTellTruth
  <2>3. ShownInv'
    BY <1>3, <1>a, <2>a, LastShown, LastShownNext DEF ImportInv, ShownInv, Runs, Saved
  <2>4. NamesInv'
    BY <1>3, <2>a, <2>b DEF ImportInv, NamesInv, NamesDiffer, Saved
  <2>5. QED
    BY <2>1, <2>2, <2>3, <2>4 DEF ImportInv
<1>4. QED
  BY <1>1, <1>2, <1>3 DEF Saves

-----------------------------------------------------------------------------
(* Every step. *)
LEMMA ImportStartsSound == Init => ImportInv
<1> SUFFICES ASSUME Init
             PROVE  ImportInv
  OBVIOUS
<1>1. PICK n \in Name \cup {None} :
          sources = [s \in Source |-> IF s = 1 /\ n # None THEN [name |-> n, active |-> TRUE, shown |-> Never]
                                                          ELSE None]
  BY DEF Init, ImportInit
<1>2. /\ job \in [Importer -> {NoJob, Gone}] /\ history = <<>> /\ gave = [m \in Importer |-> {}]
      /\ mixed = {} /\ since = [s \in Source |-> 0] /\ alike = {}
  BY DEF Init, ImportInit
<1>3. NoJob \in JobRecord /\ Sensible(NoJob) /\ NoJob.at = "idle"
  BY GoneIs, NeverShown DEF JobRecord, JobAt, Sensible, Manual
<1>4. sources \in [Source -> SavedSource \cup {None}] /\ \A s \in Saved : s = 1 /\ sources[s].shown = Never
  BY <1>1, NeverShown DEF SavedSource, Saved
<1>5. /\ job \in [Importer -> JobRecord]
      /\ \A m \in Importer : Sensible(job[m]) /\ job[m].at \in {"idle", "done"}
  BY <1>2, <1>3, GoneIsTyped
<1>6. ImportTyped
  BY <1>2, <1>4, <1>5 DEF ImportTyped
<1>7. HistoryInv
  BY <1>2 DEF HistoryInv, RunsTellTruth
<1>8. ShownInv
  <2>1. \A s \in Source : Last(history, since[s], s) = Never
    <3>1. history \in Seq(RunRecord) /\ Len(history) = 0
      BY <1>2
    <3>2. QED
      BY <1>2, <3>1, NothingSince
  <2>2. ShowsLastRun
    BY <1>4, <2>1, LastShown DEF Saved
  <2>3. \A s \in Source : since[s] <= Len(history)
    BY <1>2
  <2>4. \A m \in Importer, s \in Saved : ~ Runs(m, s)
    BY <1>5 DEF Runs
  <2>5. QED
    BY <2>2, <2>3, <2>4 DEF ShownInv
<1>9. NamesInv
  BY <1>4, <1>5 DEF NamesInv, NamesDiffer
<1>10. QED
  BY <1>6, <1>7, <1>8, <1>9 DEF ImportInv

LEMMA ImportStep ==
  ASSUME ImportInv, [ImportNext]_vars
  PROVE  ImportInv'
<1>a. CASE UNCHANGED importVars
  <2>1. ImportTyped'
    BY <1>a DEF ImportInv, ImportTyped, importVars
  <2>2. HistoryInv'
    BY <1>a DEF ImportInv, HistoryInv, RunsTellTruth, importVars
  <2>3. ShownInv'
    BY <1>a, LastShown, LastShownNext DEF ImportInv, ShownInv, Runs, Saved, importVars
  <2>4. NamesInv'
    BY <1>a DEF ImportInv, NamesInv, NamesDiffer, Saved, importVars
  <2>5. QED
    BY <2>1, <2>2, <2>3, <2>4 DEF ImportInv
<1>1. ASSUME NEW m \in Importer, NEW s \in Source \cup {Manual}, Begins(m, s)
      PROVE  ImportInv'
  BY <1>1, BeginsKeepsIt
<1>2. ASSUME NEW m \in Importer, NEW s \in Source \cup {Manual}, NEW n \in Name, ChecksName(m, s, n)
      PROVE  ImportInv'
  BY <1>2, ChecksNameKeepsIt
<1>3. ASSUME NEW m \in Importer,
             \/ Commits(m)
             \/ \E s \in Source : DashboardRuns(m, s) \/ CoreRuns(m, s)
             \/ DashboardImports(m) \/ CoreImports(m)
             \/ \E fetched \in Fetched : Looks(m, fetched)
             \/ RecordsFailure(m)
             \/ \E n \in Name : DashboardAddsSource(m, n) \/ CoreAddsSource(m, n)
             \/ \E s \in Source, n \in Name : EditsSource(m, s, n)
             \/ Saves(m)
      PROVE  ImportInv'
  BY <1>1, <1>2, <1>3, CommitsKeepsIt, LooksKeepsIt, FailureKeepsIt, SavesKeepsIt
     DEF DashboardRuns, CoreRuns, DashboardImports, CoreImports, DashboardAddsSource, CoreAddsSource, EditsSource
<1>4. ASSUME NEW s \in Source, DeletesSource(s) \/ \E active \in BOOLEAN : SetsActive(s, active)
      PROVE  ImportInv'
  BY <1>4, DeletesKeepsIt, SetsActiveKeepsIt
<1>5. QED
  BY <1>a, <1>3, <1>4 DEF ImportNext, vars

(* The same steps, seen from the table. *)
LEMMA NumbersAreNew ==
  ASSUME NEW n \in Nat
  PROVE  /\ Numbers(n) \subseteq Id \ Present
         /\ IsFiniteSet(Numbers(n)) /\ Cardinality(Numbers(n)) <= n
<1> DEFINE S == {i \in Id : \A j \in Present : j < i}
           Below(i) == {j \in S : j < i}
           N == Numbers(n)
<1>1. N = {i \in S : Cardinality(Below(i)) < n}
  BY DEF Numbers
<1>2. Id \subseteq Nat /\ IsFiniteSet(Id)
  BY TableAssumption
<1>3. N \subseteq Id \ Present
  <2>1. \A i \in Id : ~(i < i)
    BY <1>2
  <2>2. QED
    BY <1>1, <2>1
<1>4. IsFiniteSet(N)
  BY <1>2, <1>3, FS_Subset
<1>5. CASE N = {}
  BY <1>3, <1>5, FS_EmptySet
<1>6. CASE N # {}
  <2> HIDE DEF N
  <2>1. PICK i \in N : \A j \in N : j <= i
    BY <1>2, <1>3, <1>4, <1>6, HighestIsThere
  <2>2. N \ {i} \subseteq Below(i)
    <3>1. N \subseteq S /\ N \subseteq Nat
      BY <1>1, <1>2, <1>3
    <3>2. ASSUME NEW j \in N \ {i}
          PROVE  j < i
      BY <2>1, <3>1
    <3>3. QED
      BY <3>1, <3>2
  <2>3. IsFiniteSet(Below(i)) /\ Cardinality(Below(i)) < n
    <3>1. Below(i) \in SUBSET Id
      OBVIOUS
    <3>2. QED
      BY <1>1, <1>2, <3>1, FS_Subset
  <2> HIDE DEF Below
  <2>4. Cardinality(N \ {i}) <= Cardinality(Below(i))
    BY <2>2, <2>3, FS_Subset
  <2>5. Cardinality(N \ {i}) = Cardinality(N) - 1
    BY <1>4, FS_RemoveElement
  <2>6. Cardinality(N) \in Nat /\ Cardinality(Below(i)) \in Nat
    BY <1>4, <2>3, FS_CardinalityType
  <2>7. Cardinality(N) <= n
    BY <2>3, <2>4, <2>5, <2>6
  <2>8. QED
    BY <1>3, <1>4, <2>7 DEF N
<1>7. QED
  BY <1>5, <1>6

(* Each of the keys of an import gets a record, and one only. *)
LEMMA PlacedOnce ==
  ASSUME NEW K \in SUBSET Key, IsFiniteSet(K), NEW f \in Placed(K)
  PROVE  /\ DOMAIN f \subseteq Id \ Present
         /\ \A i \in DOMAIN f : f[i] \in K
         /\ \A i, j \in DOMAIN f : f[i] = f[j] => i = j
<1> DEFINE N == Numbers(Cardinality(K))
<1>1. Cardinality(K) \in Nat
  BY FS_CardinalityType
<1>2. N \subseteq Id \ Present /\ IsFiniteSet(N) /\ Cardinality(N) <= Cardinality(K)
  BY <1>1, NumbersAreNew
<1> HIDE DEF N
<1>3. f \in [N -> K] /\ \A k \in K : \E i \in N : f[i] = k
  BY DEF Placed, N
<1>4. f \in Surjection(N, K)
  BY <1>3 DEF Surjection
<1>5. Cardinality(N) \in Nat
  BY <1>2, FS_CardinalityType
<1>6. Cardinality(K) <= Cardinality(N)
  BY <1>2, <1>4, FS_Surjection
<1>7. Cardinality(N) = Cardinality(K)
  BY <1>1, <1>2, <1>5, <1>6
<1>8. f \in Injection(N, K)
  BY <1>2, <1>4, <1>7, FS_SurjSameCardinalityImpliesInj
<1>9. \A i, j \in N : f[i] = f[j] => i = j
  BY <1>3, <1>8 DEF Injection, IsInjective
<1>10. QED
  BY <1>2, <1>3, <1>9

(* What the commit of an import does to the table. *)
LEMMA CommitAdds ==
  ASSUME ImportInv, NEW m \in Importer, Commits(m)
  PROVE  \/ UNCHANGED tableVars
         \/ \E D \in SUBSET (Id \ Present) : \E f :
               /\ \A i \in D : f[i] \in Key \ Keys
               /\ \A i, j \in D : f[i] = f[j] => i = j
               /\ table' = [i \in Id |-> IF i \in D THEN Untested(f[i]) ELSE table[i]]
               /\ torn' = (torn \ D) \cup Overtaken(D)
               /\ renamed' = renamed \ D
               /\ op' = op
<1> DEFINE j == job[m]
           K == New(j)
<1>1. CASE K \cap Keys # {} \/ j.source \notin Saved \cup {Manual}
  BY <1>1 DEF Commits
<1>2. CASE ~(K \cap Keys # {} \/ j.source \notin Saved \cup {Manual})
  <2>1. PICK f \in Placed(K) :
               /\ table' = [i \in Id |-> IF i \in DOMAIN f THEN Untested(f[i]) ELSE table[i]]
               /\ torn' = (torn \ DOMAIN f) \cup Overtaken(DOMAIN f)
               /\ renamed' = renamed \ DOMAIN f
               /\ op' = op
    BY <1>2 DEF Commits
  <2>2. K \in SUBSET Key
    BY DEF ImportInv, ImportTyped, JobRecord, New
  <2>3. IsFiniteSet(K)
    BY <2>2, FS_Subset, ImportAssumption
  <2>4. /\ DOMAIN f \subseteq Id \ Present
        /\ \A i \in DOMAIN f : f[i] \in K
        /\ \A h, i \in DOMAIN f : f[h] = f[i] => h = i
    BY <2>2, <2>3, PlacedOnce
  <2>5. \A i \in DOMAIN f : f[i] \in Key \ Keys
    BY <1>2, <2>2, <2>4
  <2> HIDE DEF K
  <2>6. QED
    BY <2>1, <2>4, <2>5
<1>3. QED
  BY <1>1, <1>2

LEMMA RecordStep ==
  ASSUME ImportInv, RecordInv, [ImportNext]_vars
  PROVE  RecordInv'
<1>1. CASE UNCHANGED tableVars
  BY <1>1 DEF tableVars, RecordInv, RecordsTyped, CopiesAreCurrent, VerdictIsOwn, ChecksAddUp, Carries, Open, Present
<1>2. CASE TableNext
  BY <1>2, TableKeepsIt
<1>3. ASSUME NEW m \in Importer, Commits(m)
      PROVE  RecordInv'
  <2>1. CASE \E D \in SUBSET (Id \ Present) : \E f :
               /\ \A i \in D : f[i] \in Key \ Keys
               /\ \A i, j \in D : f[i] = f[j] => i = j
               /\ table' = [i \in Id |-> IF i \in D THEN Untested(f[i]) ELSE table[i]]
               /\ torn' = (torn \ D) \cup Overtaken(D)
               /\ renamed' = renamed \ D
               /\ op' = op
    <3>1. PICK D \in SUBSET (Id \ Present) : \E f :
               /\ \A i \in D : f[i] \in Key \ Keys
               /\ table' = [i \in Id |-> IF i \in D THEN Untested(f[i]) ELSE table[i]]
               /\ torn' = (torn \ D) \cup Overtaken(D)
               /\ renamed' = renamed \ D
               /\ op' = op
      BY <2>1
    <3>2. D \in SUBSET Id
      OBVIOUS
    <3>3. QED
      BY <3>1, <3>2, AddingKeepsIt
  <2>2. QED
    BY <1>1, <1>3, <2>1, CommitAdds
<1>4. QED
  BY <1>1, <1>2, <1>3 DEF ImportNext, vars

LEMMA RecordsStartSound == Init => RecordInv
<1> SUFFICES ASSUME Init
             PROVE  RecordInv
  OBVIOUS
<1>1. PICK k \in Key : table = [i \in Id |-> IF i = 1 THEN Untested(k) ELSE None]
  BY DEF Init, TableInit
<1>2. op \in [Writer -> {NoOp, Away}]
  BY DEF Init, TableInit
<1>3. NoOp \in OpRecord /\ NoOp.at = "idle" /\ Away \in OpRecord /\ Away.at = "done"
  BY DEF NoOp, Away, OpRecord, WriterKind
<1>4. op \in [Writer -> OpRecord] /\ \A o \in Writer : op[o].at \in {"idle", "done"}
  BY <1>2, <1>3
<1>5. table \in [Id -> Record \cup {None}]
      /\ \A i \in Present : table[i] = Untested(k)
  BY <1>1, UntestedIsTyped DEF Present
<1>6. RecordsTyped
  BY <1>4, <1>5 DEF RecordsTyped, Carries, Open
<1>7. CopiesAreCurrent
  BY <1>4 DEF CopiesAreCurrent, Open
<1>8. VerdictIsOwn /\ ChecksAddUp
  BY <1>1, <1>5, UntestedIsTyped DEF VerdictIsOwn, ChecksAddUp
<1>9. QED
  BY <1>6, <1>7, <1>8 DEF RecordInv

-----------------------------------------------------------------------------
(* No identity has two records; a record counts no more than the writers that *)
(* are done, of which some have added a success and others a failure.         *)
Unique == \A i, j \in Present : table[i].key = table[j].key => i = j

Within(r, a, f) == r.alive <= a /\ r.fail <= f /\ r.total <= a + f

Counted(A, F) ==
    /\ A \cap F = {} /\ \A o \in A \cup F : op[o].at = "done"
    /\ \A i \in Present : Within(table[i], Cardinality(A), Cardinality(F))
    /\ \A o \in Writer : op[o].at = "read" => Within(op[o].seen, Cardinality(A), Cardinality(F))

CountInv == \E A, F \in SUBSET Writer : Counted(A, F)

TableInv == Unique /\ CountInv /\ torn \subseteq Id /\ renamed \subseteq Id

LEMMA CardinalitiesAre ==
  ASSUME NEW A \in SUBSET Writer, NEW F \in SUBSET Writer, A \cap F = {}
  PROVE  /\ IsFiniteSet(A) /\ IsFiniteSet(F)
         /\ Cardinality(A) \in Nat /\ Cardinality(F) \in Nat /\ Cardinality(Writer) \in Nat
         /\ Cardinality(A) + Cardinality(F) <= Cardinality(Writer)
<1>1. IsFiniteSet(A) /\ IsFiniteSet(F) /\ IsFiniteSet(Writer)
  BY FS_Subset, TableAssumption
<1>2. Cardinality(A) \in Nat /\ Cardinality(F) \in Nat /\ Cardinality(Writer) \in Nat
  BY <1>1, FS_CardinalityType
<1>3. Cardinality(A \cup F) = Cardinality(A) + Cardinality(F)
  <2>1. Cardinality(A \cup F) = Cardinality(A) + Cardinality(F) - Cardinality(A \cap F)
    BY <1>1, FS_Union
  <2>2. Cardinality(A \cap F) = 0
    BY FS_EmptySet
  <2>3. QED
    BY <1>2, <2>1, <2>2
<1>4. A \cup F \in SUBSET Writer
  OBVIOUS
<1>5. Cardinality(A \cup F) <= Cardinality(Writer)
  BY <1>1, <1>4, FS_Subset
<1>6. QED
  BY <1>1, <1>2, <1>3, <1>5

LEMMA UntestedWithin ==
  ASSUME NEW k, NEW a \in Nat, NEW f \in Nat
  PROVE  Within(Untested(k), a, f)
BY DEF Within, Untested

(* A writer makes of a record one more success, or one more failure, at most. *)
LEMMA ResultsWithin ==
  ASSUME NEW o, op[o].kind \in WriterKind, op[o].seen \in Record, NEW a \in Nat, NEW f \in Nat,
         Within(op[o].seen, a, f), NEW new \in Results(o)
  PROVE  Within(new, a + 1, f) \/ Within(new, a, f + 1)
<1> DEFINE s == op[o].seen
<1>a. s.alive \in Nat /\ s.fail \in Nat /\ s.total \in Nat /\ s \in Record
  BY DEF Record
<1>b. Within(s, a + 1, f)
  BY <1>a DEF Within
<1>1. CASE op[o].kind = "monitor"
  <2>1. new \in Probed(s, op[o].probed)
    BY <1>1 DEF Results
  <2>2. \/ new.alive = s.alive + 1 /\ new.fail = s.fail /\ new.total = s.alive + 1 + s.fail
        \/ new.alive = s.alive /\ new.fail = s.fail + 1 /\ new.total = s.alive + s.fail + 1
    BY <1>a, <2>1 DEF Probed, Record
  <2>3. QED
    BY <1>a, <2>2 DEF Within
<1>2. CASE op[o].kind = "mark"
  <2>1. new \in Marked(s, op[o].probed)
    BY <1>2 DEF Results
  <2>2. \/ new.alive = s.alive + 1 /\ new.fail = s.fail /\ new.total = s.total + 1
        \/ new.alive = s.alive /\ new.fail = s.fail + 1 /\ new.total = s.total + 1
    BY <1>a, <2>1 DEF Marked, Record
  <2>3. QED
    BY <1>a, <2>2 DEF Within
<1>3. CASE op[o].kind = "test"
  <2>1. new = [s EXCEPT !.verdict = op[o].probed]
    BY <1>3 DEF Results, TestedNow
  <2>2. new.alive = s.alive /\ new.fail = s.fail /\ new.total = s.total
    BY <1>a, <2>1 DEF Record
  <2>3. QED
    BY <1>b, <2>2 DEF Within
<1>4. CASE op[o].kind = "core_edit"
  <2>1. new = s \/ new = [Untested(op[o].to) EXCEPT !.measured = s.measured, !.moved = TRUE]
    BY <1>4 DEF Results, CoreEdited
  <2>2. CASE new = s
    BY <1>b, <2>2
  <2>3. CASE new = [Untested(op[o].to) EXCEPT !.measured = s.measured, !.moved = TRUE]
    <3>1. new.alive = 0 /\ new.fail = 0 /\ new.total = 0
      BY <2>3 DEF Untested
    <3>2. QED
      BY <3>1 DEF Within
  <2>4. QED
    BY <2>1, <2>2, <2>3
<1>5. CASE op[o].kind = "dashboard_edit"
  <2>1. new = [s EXCEPT !.key = op[o].to]
    BY <1>5 DEF Results, DashboardEdited
  <2>2. new.alive = s.alive /\ new.fail = s.fail /\ new.total = s.total
    BY <1>a, <2>1 DEF Record
  <2>3. QED
    BY <1>b, <2>2 DEF Within
<1>6. QED
  BY <1>1, <1>2, <1>3, <1>4, <1>5 DEF WriterKind

LEMMA WrittenWithin ==
  ASSUME NEW o, NEW now \in Record, NEW new \in Record, NEW a \in Nat, NEW f \in Nat,
         Within(now, a, f), Within(new, a, f)
  PROVE  Within(Written(o, now, new), a, f)
<1> DEFINE Column == {"key", "verdict", "alive", "fail", "total", "counted", "measured", "moved"}
<1>1. now = [c \in Column |-> now[c]]
  BY DEF Record
<1>2. Written(o, now, new) = [c \in Column |->
                               IF new[c] # op[o].seen[c] \/ (c = "verdict" /\ op[o].kind \in {"monitor", "test"})
                               THEN new[c] ELSE now[c]]
  BY <1>1 DEF Written
<1>3. QED
  BY <1>2 DEF Within

LEMMA WithinMore ==
  ASSUME NEW r \in Record, NEW a \in Nat, NEW f \in Nat, NEW x \in Nat, NEW y \in Nat,
         Within(r, a, f), a <= x, f <= y
  PROVE  Within(r, x, y)
BY DEF Within, Record

(* Records are added, with nothing counted. *)
LEMMA AddingCounts ==
  ASSUME RecordsTyped, TableInv, NEW D \in SUBSET (Id \ Present), NEW f,
         \A i \in D : f[i] \in Key \ Keys, \A i, j \in D : f[i] = f[j] => i = j,
         table' = [i \in Id |-> IF i \in D THEN Untested(f[i]) ELSE table[i]],
         torn' = (torn \ D) \cup Overtaken(D), renamed' = renamed \ D, op' = op
  PROVE  TableInv'
<1>1. /\ \A i \in D : table'[i] = Untested(f[i]) /\ table'[i].key = f[i]
      /\ \A i \in Id \ D : table'[i] = table[i]
      /\ Present' \subseteq Present \cup D /\ Present \subseteq Id /\ Present' \subseteq Id
  BY DEF Present, Untested
<1>2. Unique'
  <2>1. \A i \in Present : table[i].key \in Keys
    BY DEF Keys
  <2>2. QED
    BY <1>1, <2>1 DEF TableInv, Unique
<1>3. CountInv'
  <2>1. PICK A \in SUBSET Writer, F \in SUBSET Writer : Counted(A, F)
    BY DEF TableInv, CountInv
  <2>2. Cardinality(A) \in Nat /\ Cardinality(F) \in Nat
    BY <2>1, CardinalitiesAre DEF Counted
  <2>3. \A i \in Present' : Within(table'[i], Cardinality(A), Cardinality(F))
    BY <1>1, <2>1, <2>2, UntestedWithin DEF Counted
  <2>4. Counted(A, F)'
    BY <2>1, <2>3 DEF Counted
  <2>5. QED
    BY <2>4 DEF CountInv
<1>4. QED
  BY <1>2, <1>3 DEF TableInv, Overtaken

LEMMA RemovingCounts ==
  ASSUME RecordsTyped, TableInv, NEW S, Removes(S)
  PROVE  TableInv'
<1>1. /\ UNCHANGED <<op, torn, renamed>> /\ Present' \subseteq Present
      /\ \A i \in Present' : table'[i] = table[i]
  BY DEF Removes, Present
<1>2. Unique'
  BY <1>1 DEF TableInv, Unique
<1>3. PICK A \in SUBSET Writer, F \in SUBSET Writer : Counted(A, F)
  BY DEF TableInv, CountInv
<1>4. Counted(A, F)'
  BY <1>1, <1>3 DEF Counted
<1>5. QED
  BY <1>1, <1>2, <1>4 DEF TableInv, CountInv

(* A writer reads the record, or goes away. *)
LEMMA ReadingCounts ==
  ASSUME RecordsTyped, TableInv, NEW o \in Writer, NEW r, op' = [op EXCEPT ![o] = r],
         UNCHANGED <<table, torn, renamed>>, op[o].at # "done",
         r.at = "read" => \E i \in Present : r.seen = table[i]
  PROVE  TableInv'
<1>1. op'[o] = r /\ \A p \in Writer \ {o} : op'[p] = op[p]
  BY DEF RecordsTyped
<1>2. Present' = Present
  BY DEF Present
<1>3. PICK A \in SUBSET Writer, F \in SUBSET Writer : Counted(A, F)
  BY DEF TableInv, CountInv
<1>4. Counted(A, F)'
  BY <1>1, <1>2, <1>3 DEF Counted
<1>5. QED
  BY <1>2, <1>4 DEF TableInv, CountInv, Unique

(* A writer that writes joins those who added a success, or a failure. *)
LEMMA WritingCounts ==
  ASSUME RecordsTyped, TableInv, NEW o \in Writer, Writes(o)
  PROVE  TableInv'
<1> DEFINE i == op[o].id
<1>a. /\ op[o].at = "read" /\ i \in Id /\ op[o].seen \in Record
      /\ op[o].probed \in Key /\ op[o].kind \in WriterKind
      /\ (op[o].kind \in {"core_edit", "dashboard_edit"} => op[o].to \in Key)
  BY DEF RecordsTyped, Carries, Open, Writes, OpRecord
<1>b. PICK new \in Results(o) :
        IF i \in Present /\ \A j \in Present \ {i} : table[j].key # Written(o, table[i], new).key
        THEN /\ table' = [table EXCEPT ![i] = Written(o, table[i], new)]
             /\ torn' = torn \cup {j \in {i} : \E p \in Writer \ {o} : Open(p) /\ op[p].id = i}
             /\ renamed' = IF \/ op[o].kind = "dashboard_edit" /\ op[o].to # op[o].seen.key
                              \/ op[o].kind = "monitor" /\ new.key # op[o].seen.key
                           THEN renamed \cup {i} ELSE renamed
             /\ Ends(o, "done")
        ELSE Ends(o, "failed") /\ UNCHANGED <<table, torn, renamed>>
  BY <1>a DEF Writes, RecordsTyped
<1>c. new \in Record
  BY <1>a, ResultsAreSound
<1>1. CASE i \in Present /\ \A j \in Present \ {i} : table[j].key # Written(o, table[i], new).key
  <2> DEFINE w == Written(o, table[i], new)
  <2>1. /\ table' = [table EXCEPT ![i] = w]
        /\ torn' \subseteq torn \cup {i}
        /\ renamed' \subseteq renamed \cup {i}
        /\ op' = [op EXCEPT ![o] = [NoOp EXCEPT !.at = "done"]]
    BY <1>b, <1>1 DEF Ends
  <2>2. table[i] \in Record
    BY <1>a, <1>1 DEF Present, RecordsTyped
  <2>3. w \in Record
    BY <1>a, <1>c, <2>2, WrittenIsBetween
  <2>4. op'[o].at = "done" /\ \A p \in Writer \ {o} : op'[p] = op[p]
    BY <2>1 DEF RecordsTyped, NoOp
  <2>5. PICK A \in SUBSET Writer, F \in SUBSET Writer : Counted(A, F)
    BY DEF TableInv, CountInv
  <2> DEFINE a == Cardinality(A)
             f == Cardinality(F)
  <2>6. a \in Nat /\ f \in Nat /\ IsFiniteSet(A) /\ IsFiniteSet(F)
    BY <2>5, CardinalitiesAre DEF Counted
  <2>7. o \notin A \cup F
    BY <1>a, <2>5 DEF Counted
  <2>8. Cardinality(A \cup {o}) = a + 1 /\ Cardinality(F \cup {o}) = f + 1
    BY <2>6, <2>7, FS_AddElement
  <2>9. Within(new, a + 1, f) \/ Within(new, a, f + 1)
    BY <1>a, <2>5, <2>6, ResultsWithin DEF Counted
  <2>10. ASSUME NEW x \in Nat, NEW y \in Nat, a <= x, f <= y, Within(new, x, y)
         PROVE  Within(w, x, y)
    <3>1. Within(table[i], a, f)
      BY <1>1, <2>5 DEF Counted
    <3>2. Within(table[i], x, y)
      BY <2>2, <2>6, <2>10, <3>1, WithinMore
    <3>3. QED
      BY <1>a, <1>c, <2>2, <2>10, <3>2, WrittenWithin
  <2>11. \A j \in Present \ {i} : table[j].key # w.key
    BY <1>1
  <2> HIDE DEF w
  <2>12. /\ Present' \subseteq Present /\ table'[i] = w
         /\ \A j \in Present \ {i} : table'[j] = table[j]
    BY <1>1, <1>a, <2>1 DEF Present, RecordsTyped
  <2>13. Unique'
    BY <2>11, <2>12 DEF TableInv, Unique
  <2>14. ASSUME NEW B \in SUBSET Writer, NEW G \in SUBSET Writer, B \cap G = {}, B \cup G = A \cup F \cup {o},
                a <= Cardinality(B), f <= Cardinality(G), Within(w, Cardinality(B), Cardinality(G))
         PROVE  CountInv'
    <3>1. Cardinality(B) \in Nat /\ Cardinality(G) \in Nat
      BY <2>14, CardinalitiesAre
    <3>2. \A p \in B \cup G : op'[p].at = "done"
      BY <2>4, <2>5, <2>14 DEF Counted
    <3>3. \A j \in Present' : Within(table'[j], Cardinality(B), Cardinality(G))
      <4>1. ASSUME NEW j \in Present \ {i}
            PROVE  Within(table[j], Cardinality(B), Cardinality(G))
        <5>1. table[j] \in Record /\ Within(table[j], a, f)
          BY <2>5 DEF RecordsTyped, Present, Counted
        <5>2. QED
          BY <2>6, <2>14, <3>1, <5>1, WithinMore
      <4>2. QED
        BY <2>12, <2>14, <4>1
    <3>4. \A p \in Writer : op'[p].at = "read" => Within(op'[p].seen, Cardinality(B), Cardinality(G))
      <4>1. ASSUME NEW p \in Writer, op'[p].at = "read"
            PROVE  Within(op'[p].seen, Cardinality(B), Cardinality(G))
        <5>1. p # o /\ op'[p] = op[p]
          BY <2>4, <4>1
        <5>2. op[p].seen \in Record /\ Within(op[p].seen, a, f)
          BY <2>5, <4>1, <5>1 DEF RecordsTyped, Carries, Counted
        <5>3. QED
          BY <2>6, <2>14, <3>1, <5>1, <5>2, WithinMore
      <4>2. QED
        BY <4>1
    <3>5. Counted(B, G)'
      BY <2>14, <3>2, <3>3, <3>4 DEF Counted
    <3>6. QED
      BY <3>5 DEF CountInv
  <2>15. CountInv'
    <3>1. A \cap F = {}
      BY <2>5 DEF Counted
    <3>2. CASE Within(new, a + 1, f)
      <4>1. Within(w, a + 1, f)
        BY <2>6, <2>10, <3>2
      <4>2. (A \cup {o}) \cap F = {} /\ (A \cup {o}) \cup F = A \cup F \cup {o} /\ A \cup {o} \in SUBSET Writer
        BY <2>7, <3>1
      <4>3. a <= Cardinality(A \cup {o}) /\ f <= Cardinality(F)
        BY <2>6, <2>8
      <4>4. QED
        BY <2>8, <2>14, <4>1, <4>2, <4>3
    <3>3. CASE Within(new, a, f + 1)
      <4>1. Within(w, a, f + 1)
        BY <2>6, <2>10, <3>3
      <4>2. A \cap (F \cup {o}) = {} /\ A \cup (F \cup {o}) = A \cup F \cup {o} /\ F \cup {o} \in SUBSET Writer
        BY <2>7, <3>1
      <4>3. a <= Cardinality(A) /\ f <= Cardinality(F \cup {o})
        BY <2>6, <2>8
      <4>4. QED
        BY <2>8, <2>14, <4>1, <4>2, <4>3
    <3>4. QED
      BY <2>9, <3>2, <3>3
  <2>16. QED
    BY <1>a, <2>1, <2>13, <2>15 DEF TableInv
<1>2. CASE ~(i \in Present /\ \A j \in Present \ {i} : table[j].key # Written(o, table[i], new).key)
  <2>1. op' = [op EXCEPT ![o] = [NoOp EXCEPT !.at = "failed"]] /\ UNCHANGED <<table, torn, renamed>>
    BY <1>b, <1>2 DEF Ends
  <2>2. [NoOp EXCEPT !.at = "failed"].at = "failed"
    BY DEF NoOp
  <2>3. QED
    BY <1>a, <2>1, <2>2, ReadingCounts
<1>3. QED
  BY <1>1, <1>2

LEMMA TableCounts ==
  ASSUME RecordsTyped, TableInv, TableNext
  PROVE  TableInv'
<1>1. ASSUME NEW k \in Key, CoreAdds(k) \/ RowImported(k) \/ DashboardAdds(k)
      PROVE  TableInv'
  <2>1. Inserts(k)
    BY <1>1 DEF CoreAdds, RowImported, DashboardAdds
  <2>2. PICK i \in NextIds : /\ table' = [table EXCEPT ![i] = Untested(k)]
                             /\ torn' = (torn \ {i}) \cup Overtaken({i})
                             /\ renamed' = renamed \ {i} /\ op' = op /\ k \notin Keys
    BY <2>1 DEF Inserts
  <2> DEFINE f == [j \in {i} |-> k]
  <2>3. table' = [j \in Id |-> IF j \in {i} THEN Untested(f[j]) ELSE table[j]]
    BY <2>2 DEF RecordsTyped
  <2>4. /\ {i} \in SUBSET (Id \ Present) /\ \A j \in {i} : f[j] \in Key \ Keys
        /\ \A g, h \in {i} : f[g] = f[h] => g = h
    BY <2>2, TableAssumption DEF NextIds
  <2> HIDE DEF f
  <2>5. QED
    BY <2>2, <2>3, <2>4, AddingCounts
<1>2. ASSUME NEW S, Removes(S)
      PROVE  TableInv'
  BY <1>2, RemovingCounts
<1>3. /\ \A i : CoreDeletes(i) => TableInv'
      /\ \A i, scope : DashboardDeletes(i, scope) => TableInv'
      /\ \A S, scope : SelectionDeleted(S, scope) => TableInv'
      /\ \A tested, scope : BulkDeletes(tested, scope) => TableInv'
      /\ \A tested, limit : Purges(tested, limit) => TableInv'
  BY <1>2 DEF CoreDeletes, DashboardDeletes, SelectionDeleted, BulkDeletes, Purges
<1>4. ASSUME NEW o \in Writer, NEW kind \in Kind, NEW i \in Id, TakesCopy(o, kind, i)
      PROVE  TableInv'
  <2> DEFINE r == [NoOp EXCEPT !.at = "begun", !.kind = kind, !.id = i, !.probed = table[i].key]
  <2>1. op' = [op EXCEPT ![o] = r] /\ UNCHANGED <<table, torn, renamed>> /\ op[o].at = "idle"
    BY <1>4 DEF TakesCopy
  <2>2. r.at = "begun"
    BY CopyIs
  <2> HIDE DEF r
  <2>3. QED
    BY <2>1, <2>2, ReadingCounts
<1>5. ASSUME NEW o \in Writer, NEW kind \in Kind, NEW i \in Id, NEW k \in Key, TakesRecord(o, kind, i, k)
      PROVE  TableInv'
  <2> DEFINE r == [at |-> "read", kind |-> kind, id |-> i, probed |-> table[i].key, to |-> k, seen |-> table[i]]
  <2>1. op' = [op EXCEPT ![o] = r] /\ UNCHANGED <<table, torn, renamed>> /\ op[o].at = "idle" /\ i \in Present
    BY <1>5 DEF TakesRecord
  <2>2. r.seen = table[i]
    OBVIOUS
  <2> HIDE DEF r
  <2>3. QED
    BY <2>1, <2>2, ReadingCounts
<1>6. ASSUME NEW o \in Writer, Reads(o)
      PROVE  TableInv'
  <2> DEFINE r == IF op[o].id \in Present THEN [op[o] EXCEPT !.at = "read", !.seen = table[op[o].id]]
                                          ELSE [NoOp EXCEPT !.at = "done"]
  <2>1. op' = [op EXCEPT ![o] = r] /\ UNCHANGED <<table, torn, renamed>> /\ op[o].at = "begun"
    BY <1>6 DEF Reads
  <2>2. r.at = "read" => \E i \in Present : r.seen = table[i]
    <3>1. CASE op[o].id \in Present
      <4>1. op[o] \in OpRecord
        BY DEF RecordsTyped
      <4>2. r.seen = table[op[o].id]
        BY <3>1, <4>1 DEF OpRecord
      <4>3. QED
        BY <3>1, <4>2
    <3>2. CASE op[o].id \notin Present
      BY <3>2 DEF NoOp
    <3>3. QED
      BY <3>1, <3>2
  <2> HIDE DEF r
  <2>3. QED
    BY <2>1, <2>2, ReadingCounts
<1>7. ASSUME NEW o \in Writer, GivesUp(o)
      PROVE  TableInv'
  <2>1. [NoOp EXCEPT !.at = "failed"].at = "failed"
    BY DEF NoOp
  <2>2. QED
    BY <1>7, <2>1, ReadingCounts DEF GivesUp, Ends, Open
<1>8. \A o \in Writer : Writes(o) => TableInv'
  BY WritingCounts
<1>9. QED
  <2>1. CASE \E o \in Writer :
               \/ \E kind \in Kind, i \in Id : TakesCopy(o, kind, i) \/ \E k \in Key : TakesRecord(o, kind, i, k)
               \/ Reads(o) \/ Writes(o) \/ GivesUp(o)
    BY <1>4, <1>5, <1>6, <1>7, <1>8, <2>1
  <2>2. CASE \/ \E i \in Id : CoreDeletes(i)
             \/ \E scope \in Scopes :
                   \/ \E i \in Id : DashboardDeletes(i, scope)
                   \/ \E S \in {{i, j} : i, j \in Id} : SelectionDeleted(S, scope)
                   \/ \E tested \in BOOLEAN : BulkDeletes(tested, scope)
             \/ \E tested \in BOOLEAN : Purges(tested, 1)
    BY <1>3, <2>2
  <2>3. QED
    BY <1>1, <2>1, <2>2 DEF TableNext

LEMMA TableStartsSound == Init => TableInv
<1> SUFFICES ASSUME Init
             PROVE  TableInv
  OBVIOUS
<1>1. PICK k \in Key : table = [i \in Id |-> IF i = 1 THEN Untested(k) ELSE None]
  BY DEF Init, TableInit
<1>2. op \in [Writer -> {NoOp, Away}] /\ torn = {} /\ renamed = {}
  BY DEF Init, TableInit
<1>3. \A o \in Writer : op[o].at # "read"
  BY <1>2 DEF NoOp, Away
<1>4. \A i \in Present : i = 1 /\ table[i] = Untested(k)
  BY <1>1 DEF Present
<1>5. Cardinality({}) = 0
  BY FS_EmptySet
<1>6. Counted({}, {})
  BY <1>3, <1>4, <1>5, UntestedWithin DEF Counted
<1>7. QED
  BY <1>2, <1>4, <1>6 DEF TableInv, Unique, CountInv

LEMMA TableStep ==
  ASSUME ImportInv, RecordInv, TableInv, [ImportNext]_vars
  PROVE  TableInv'
<1>a. RecordsTyped
  BY DEF RecordInv
<1>1. CASE UNCHANGED tableVars
  BY <1>1 DEF tableVars, TableInv, Unique, CountInv, Counted, Present
<1>2. CASE TableNext
  BY <1>a, <1>2, TableCounts
<1>3. ASSUME NEW m \in Importer, Commits(m)
      PROVE  TableInv'
  <2>1. CASE UNCHANGED tableVars
    BY <1>1, <2>1
  <2>2. CASE \E D \in SUBSET (Id \ Present) : \E f :
               /\ \A i \in D : f[i] \in Key \ Keys
               /\ \A i, j \in D : f[i] = f[j] => i = j
               /\ table' = [i \in Id |-> IF i \in D THEN Untested(f[i]) ELSE table[i]]
               /\ torn' = (torn \ D) \cup Overtaken(D)
               /\ renamed' = renamed \ D
               /\ op' = op
    BY <1>a, <2>2, AddingCounts
  <2>3. QED
    BY <1>3, <2>1, <2>2, CommitAdds
<1>4. QED
  BY <1>1, <1>2, <1>3 DEF ImportNext, vars

-----------------------------------------------------------------------------
LEMMA AllInvariants == Spec => [](ImportInv /\ RecordInv /\ TableInv)
<1>1. Init => ImportInv /\ RecordInv /\ TableInv
  BY ImportStartsSound, RecordsStartSound, TableStartsSound
<1>2. (ImportInv /\ RecordInv /\ TableInv) /\ [ImportNext]_vars => (ImportInv /\ RecordInv /\ TableInv)'
  BY ImportStep, RecordStep, TableStep
<1>3. QED
  BY <1>1, <1>2, PTL DEF Spec

(* What a record says of itself was found out about the identity it has,   *)
(* whoever tests, edits, deletes and imports at once (process_result of    *)
(* the runner, the test and edit requests, update_proxy): a copy that no   *)
(* second writer has overtaken is still what the table holds.              *)
THEOREM VerdictsStayOwn == Spec => []VerdictIsOwn
<1>1. RecordInv => VerdictIsOwn
  BY DEF RecordInv
<1>2. QED
  BY <1>1, AllInvariants, PTL

(* The checks of a record are its successes and failures while no two writers *)
(* are at work on it, although servers and monitors count in different ways.  *)
THEOREM ChecksStayCounted == Spec => []ChecksAddUp
<1>1. RecordInv => ChecksAddUp
  BY DEF RecordInv
<1>2. QED
  BY <1>1, AllInvariants, PTL

(* The recorded runs, the outcomes and names that sources show, the         *)
(* identities and the counters of the table are what the requests did       *)
(* (import_run, _record_failed_run and the source requests): an import that *)
(* commits finds a number for each new key, and no key is given twice.      *)
THEOREM ImportsStayTrue == Spec => []ImportsTellTruth
<1>1. ImportInv /\ RecordInv /\ TableInv => ImportsTellTruth
  <2> SUFFICES ASSUME ImportInv, RecordInv, TableInv
               PROVE  ImportsTellTruth
    OBVIOUS
  <2>1. TableTypeOK
    <3>1. PICK A \in SUBSET Writer, F \in SUBSET Writer : Counted(A, F)
      BY DEF TableInv, CountInv
    <3>2. /\ Cardinality(A) \in Nat /\ Cardinality(F) \in Nat /\ Cardinality(Writer) \in Nat
          /\ Cardinality(A) + Cardinality(F) <= Cardinality(Writer)
      BY <3>1, CardinalitiesAre DEF Counted
    <3>3. ASSUME NEW i \in Present
          PROVE  table[i] \in Record /\ {table[i].alive, table[i].fail, table[i].total} \subseteq Count
      <4>1. table[i] \in Record /\ Within(table[i], Cardinality(A), Cardinality(F))
        BY <3>1 DEF Counted, RecordInv, RecordsTyped, Present
      <4>2. table[i].alive \in Nat /\ table[i].fail \in Nat /\ table[i].total \in Nat
        BY <4>1 DEF Record
      <4>3. table[i].alive \in Count /\ table[i].fail \in Count /\ table[i].total \in Count
        BY <3>2, <4>1, <4>2 DEF Within, Count
      <4>4. QED
        BY <4>1, <4>3
    <3>4. \A o \in Writer : op[o].at \in {"idle", "begun", "read", "done", "failed"}
      BY DEF RecordInv, RecordsTyped, OpRecord
    <3>5. QED
      BY <3>3, <3>4 DEF TableTypeOK, TableInv, Unique
  <2>2. ImportTypeOK
    <3>1. \A s \in Saved : sources[s] \in SavedSource
      BY DEF ImportInv, ImportTyped, Saved
    <3>2. \A s \in Saved : /\ DOMAIN sources[s] = {"name", "active", "shown"}
                           /\ sources[s].name \in Name /\ sources[s].shown \in Shown
      BY <3>1 DEF SavedSource
    <3>3. \A m \in Importer : job[m] \in JobRecord /\ job[m].known \subseteq job[m].keys /\ gave[m] \subseteq Key
      BY DEF ImportInv, ImportTyped, Sensible
    <3>4. history \in Seq(RunRecord)
      BY DEF ImportInv, ImportTyped
    <3>5. \A i \in 1..Len(history) : history[i] \in RunRecord
      BY <3>4
    <3>6. \A i \in 1..Len(history) : history[i].by \in Importer
      BY <3>5 DEF RunRecord
    <3>7. mixed \subseteq Source /\ alike \subseteq Name
      BY DEF ImportInv, ImportTyped
    <3>8. \A m \in Importer : /\ job[m].at \in {"idle", "read", "looked", "refused", "checked", "done"}
                              /\ job[m].source \in Source \cup {Manual}
      BY <3>3 DEF JobRecord, JobAt
    <3>9. QED
      BY <3>2, <3>3, <3>6, <3>7, <3>8 DEF ImportTypeOK
  <2>3. RunsTellTruth /\ ShowsLastRun /\ NamesDiffer
    BY DEF ImportInv, HistoryInv, ShownInv, NamesInv
  <2>4. QED
    BY <2>1, <2>2, <2>3 DEF ImportsTellTruth, TypeOK
<1>2. QED
  BY <1>1, AllInvariants, PTL
=============================================================================
