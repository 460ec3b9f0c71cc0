----------------------------- MODULE Restore_proofs -----------------------------
(***************************************************************************)
(* Proofs about restores and cleanings, for any finite sets of facts,      *)
(* processes and requests and any number of files: the looks at .runtime   *)
(* that come before a restore of the command line and before a cleaning,   *)
(* and then the database file and the processes that use it: what          *)
(* restores, backups, migrations, cleanings and writers may do to each     *)
(* other, wherever each is cut off.                                        *)
(***************************************************************************)
EXTENDS Restore, TLAPS


(* What the argument needs to know of the shape of the state. *)
LookShape ==
    /\ owners \in [Monitor -> Nat]
    /\ claimed \subseteq Monitor /\ gap \subseteq Monitor
    /\ DOMAIN door = Door
    /\ \A d \in Door : DOMAIN door[d] = DOMAIN NotCome

(* Once a request has looked, whoever runs has started since. *)
LooksHold == \A d \in Door : door[d].kind \in LookedFor => Running \subseteq gap

(* A process that nobody overtook has the claim of its monitor to itself. *)
ClaimsHold == \A m \in Monitor : owners[m] > 0 /\ m \notin gap => m \in claimed /\ owners[m] = 1

LookInv == LookShape /\ LooksHold /\ ClaimsHold

(* Who has looked has found nobody, or lists those it did not see. *)
LEMMA LooksList == FindsNobody => Running \subseteq gap' /\ gap \subseteq gap' /\ gap' \subseteq gap \cup Running
BY DEF FindsNobody

(* A step that leaves the processes alone keeps the invariant, if a request *)
(* that comes to have looked has listed whom it did not see.                *)
LEMMA RequestsLook ==
  ASSUME LookInv, NEW d \in Door, NEW request,
         UNCHANGED <<owners, claimed>>, gap \subseteq gap', gap' \subseteq Monitor,
         door' = [door EXCEPT ![d] = request],
         DOMAIN request = DOMAIN NotCome,
         request.kind \in LookedFor => door[d].kind \in LookedFor \/ Running \subseteq gap'
  PROVE  LookInv'
<1>1. LookShape'
  BY DEF LookInv, LookShape
<1>2. LooksHold'
  <2> SUFFICES ASSUME NEW e \in Door, door'[e].kind \in LookedFor
               PROVE  Running \subseteq gap'
    BY DEF LooksHold, Running
  <2>1. CASE e = d
    <3>1. door[d].kind \in LookedFor \/ Running \subseteq gap'
      BY <2>1 DEF LookInv, LookShape
    <3>2. QED
      BY <3>1 DEF LookInv, LooksHold
  <2>2. CASE e # d
    BY <2>2 DEF LookInv, LookShape, LooksHold
  <2>3. QED
    BY <2>1, <2>2
<1>3. ClaimsHold'
  BY DEF LookInv, ClaimsHold
<1>4. QED
  BY <1>1, <1>2, <1>3 DEF LookInv

(* A request that does not look is of no account. *)
LEMMA RequestsKeepIt ==
  ASSUME LookInv, NEW d \in Door, NEW request,
         UNCHANGED <<owners, claimed, gap>>,
         door' = [door EXCEPT ![d] = request],
         DOMAIN request = DOMAIN NotCome,
         request.kind \in LookedFor => door[d].kind \in LookedFor
  PROVE  LookInv'
BY RequestsLook DEF LookInv, LookShape

(* Nor does a step that touches neither requests nor processes disturb it. *)
LEMMA OthersKeepIt ==
  ASSUME LookInv, UNCHANGED <<owners, claimed, gap, door>>
  PROVE  LookInv'
BY DEF LookInv, LookShape, LooksHold, ClaimsHold, Running

(* Only what a request is at changes: its kind stays. *)
LEMMA AdvancingKeepsIt ==
  ASSUME LookInv, NEW d \in Door, NEW at, At(d, at), UNCHANGED <<owners, claimed, gap>>
  PROVE  LookInv'
<1> DEFINE request == [door[d] EXCEPT !.at = at]
<1>1. door' = [door EXCEPT ![d] = request]
  BY DEF At
<1>2. DOMAIN request = DOMAIN NotCome /\ request.kind = door[d].kind
  BY DEF LookInv, LookShape, NotCome
<1> HIDE DEF request
<1>3. QED
  BY <1>1, <1>2, RequestsKeepIt

LEMMA EndingKeepsIt ==
  ASSUME LookInv, NEW d \in Door, door' = [door EXCEPT ![d] = Over], UNCHANGED <<owners, claimed, gap>>
  PROVE  LookInv'
<1>1. DOMAIN Over = DOMAIN NotCome /\ Over.kind = "none"
  BY DEF Over, NotCome
<1>2. QED
  BY <1>1, RequestsKeepIt DEF LookedFor

LEMMA LooksAreKept == RestoreSpec => []LookInv
<1>1. RestoreInit => LookInv
  BY DEF RestoreInit, LookInv, LookShape, LooksHold, ClaimsHold, NotCome, LookedFor
<1>2. LookInv /\ [RestoreNext]_restoreVars => LookInv'
  <2> SUFFICES ASSUME LookInv, [RestoreNext]_restoreVars
               PROVE  LookInv'
    OBVIOUS
  <2>1. ASSUME NEW p \in Proc, Connects(p)
        PROVE  LookInv'
    BY <2>1, OthersKeepIt DEF Connects, seenVars
  <2>2. ASSUME NEW p \in Proc, Commits(p)
        PROVE  LookInv'
    BY <2>2, OthersKeepIt DEF Commits
  <2>3. ASSUME NEW p \in Proc, NEW f \in Fact, Begins(p, f)
        PROVE  LookInv'
    BY <2>3, OthersKeepIt DEF Begins, seenVars
  <2>4. ASSUME NEW m \in Monitor, Starts(m)
        PROVE  LookInv'
    <3>1. LookShape'
      BY <2>4 DEF LookInv, LookShape, Starts
    <3>2. LooksHold'
      BY <2>4 DEF LookInv, LookShape, LooksHold, Starts, Running
    <3>3. ClaimsHold'
      BY <2>4 DEF LookInv, LookShape, ClaimsHold, Starts
    <3>4. QED
      BY <3>1, <3>2, <3>3 DEF LookInv
  <2>5. ASSUME NEW m \in Monitor, NEW inOrder \in BOOLEAN, Leaves(m, inOrder)
        PROVE  LookInv'
    <3>1. owners' = [owners EXCEPT ![m] = @ - 1] /\ owners[m] > 0
          /\ claimed' \subseteq claimed /\ claimed \subseteq claimed' \cup {m}
          /\ UNCHANGED <<door, gap>>
      BY <2>5 DEF Leaves
    <3>2. LookShape'
      BY <3>1 DEF LookInv, LookShape
    <3>3. LooksHold'
      BY <3>1 DEF LookInv, LookShape, LooksHold, Running
    <3>4. ClaimsHold'
      BY <3>1 DEF LookInv, LookShape, ClaimsHold
    <3>5. QED
      BY <3>2, <3>3, <3>4 DEF LookInv
  <2>6. CASE BacksUp
    BY <2>6, OthersKeepIt DEF BacksUp, procVars, seenVars
  <2>7. ASSUME NEW b \in saved, DeletesBackup(b)
        PROVE  LookInv'
    BY <2>7, OthersKeepIt DEF DeletesBackup, procVars
  <2>8. ASSUME NEW d \in Door, NEW pick,
               CommandLooks(d, pick) \/ ImportLooks(d, pick) \/ ScriptLooks(d, pick)
        PROVE  LookInv'
    <3>1. PICK kind \in {"cli", "dashboard", "script"} : LooksToRestore(d, kind, pick)
      BY <2>8 DEF CommandLooks, ImportLooks, ScriptLooks
    <3> DEFINE request == [NotCome EXCEPT !.at = "looked", !.kind = kind, !.pick = pick]
    <3>2. DOMAIN request = DOMAIN NotCome /\ request.kind = kind
      BY DEF NotCome
    <3>3. /\ kind \in LookedFor => Running \subseteq gap'
          /\ gap \subseteq gap' /\ gap' \subseteq gap \cup Running
      BY <3>1, LooksList DEF LooksToRestore, LookedFor
    <3>4. door' = [door EXCEPT ![d] = request] /\ UNCHANGED <<owners, claimed>>
      BY <3>1 DEF LooksToRestore, procVars
    <3> HIDE DEF request
    <3>5. gap' \subseteq Monitor
      BY <3>3 DEF LookInv, LookShape, Running
    <3>6. QED
      BY <3>2, <3>3, <3>4, <3>5, RequestsLook
  <2>9. ASSUME NEW d \in Door, SavesFirst(d)
        PROVE  LookInv'
    <3> DEFINE request == [door[d] EXCEPT !.at = "saved", !.before = files[path].facts]
    <3>1. door' = [door EXCEPT ![d] = request] /\ UNCHANGED <<owners, claimed, gap>>
      BY <2>9 DEF SavesFirst, procVars, seenVars
    <3>2. DOMAIN request = DOMAIN NotCome /\ request.kind = door[d].kind
      BY DEF LookInv, LookShape, NotCome
    <3> HIDE DEF request
    <3>3. QED
      BY <3>1, <3>2, RequestsKeepIt
  <2>10. ASSUME NEW d \in Door,
                GivesUp(d) \/ RenamesShared(d) \/ SchemaEnsured(d) \/ RollsBack(d)
         PROVE  LookInv'
    BY <2>10, EndingKeepsIt DEF GivesUp, RenamesShared, SchemaEnsured, RollsBack, procVars, seenVars
  <2>11. ASSUME NEW d \in Door, CopyBegins(d)
         PROVE  LookInv'
    <3> DEFINE request == [door[d] EXCEPT !.at = "copying", !.mine = temp']
    <3>1. door' = [door EXCEPT ![d] = request] /\ UNCHANGED <<owners, claimed, gap>>
      BY <2>11 DEF CopyBegins, procVars
    <3>2. DOMAIN request = DOMAIN NotCome /\ request.kind = door[d].kind
      BY DEF LookInv, LookShape, NotCome
    <3> HIDE DEF request
    <3>3. QED
      BY <3>1, <3>2, RequestsKeepIt
  <2>12. ASSUME NEW d \in Door, CopyEnds(d) \/ SchemaFails(d)
         PROVE  LookInv'
    BY <2>12, AdvancingKeepsIt DEF CopyEnds, SchemaFails, procVars, seenVars
  <2>13. ASSUME NEW d \in Door, Stages(d)
         PROVE  LookInv'
    <3> DEFINE request == [door[d] EXCEPT !.at = "staged", !.mine = made + 1]
    <3>1. door' = [door EXCEPT ![d] = request] /\ UNCHANGED <<owners, claimed, gap>>
      BY <2>13 DEF Stages, procVars, seenVars
    <3>2. DOMAIN request = DOMAIN NotCome /\ request.kind = door[d].kind
      BY DEF LookInv, LookShape, NotCome
    <3> HIDE DEF request
    <3>3. QED
      BY <3>1, <3>2, RequestsKeepIt
  <2>14. ASSUME NEW d \in Door, Disposes(d)
         PROVE  LookInv'
    BY <2>14, OthersKeepIt DEF Disposes, seenVars
  <2>15. ASSUME NEW d \in Door, Renames(d)
         PROVE  LookInv'
    <3>1. CASE door[d].kind = "script"
      BY <2>15, <3>1, EndingKeepsIt DEF Renames, procVars
    <3>2. CASE door[d].kind # "script"
      BY <2>15, <3>2, AdvancingKeepsIt DEF Renames, procVars
    <3>3. QED
      BY <3>1, <3>2
  <2>16. ASSUME NEW d \in Door, NEW replaces, MigrationBegins(d, replaces)
         PROVE  LookInv'
    <3> DEFINE request == [NotCome EXCEPT !.at = "migrating", !.kind = "migrate"]
    <3>1. door' = [door EXCEPT ![d] = request] /\ UNCHANGED <<owners, claimed, gap>>
      BY <2>16 DEF MigrationBegins, procVars
    <3>2. DOMAIN request = DOMAIN NotCome /\ request.kind \notin LookedFor
      BY DEF NotCome, LookedFor
    <3> HIDE DEF request
    <3>3. QED
      BY <3>1, <3>2, RequestsKeepIt
  <2>17. ASSUME NEW d \in Door, NEW batch, MigratesBatch(d, batch)
         PROVE  LookInv'
    BY <2>17, EndingKeepsIt DEF MigratesBatch, procVars
  <2>18. ASSUME NEW d \in Door, NEW old, SweepLooks(d) \/ TidyLooks(d, old)
         PROVE  LookInv'
    <3>1. PICK kind, list : LooksToClean(d, kind, list)
      BY <2>18 DEF SweepLooks, TidyLooks
    <3> DEFINE request == [NotCome EXCEPT !.at = "cleaning", !.kind = kind, !.list = list]
    <3>2. /\ door' = [door EXCEPT ![d] = request] /\ UNCHANGED <<owners, claimed>>
          /\ Running \subseteq gap' /\ gap \subseteq gap' /\ gap' \subseteq gap \cup Running
      BY <3>1, LooksList DEF LooksToClean, procVars
    <3>3. DOMAIN request = DOMAIN NotCome
      BY DEF NotCome
    <3> HIDE DEF request
    <3>4. gap' \subseteq Monitor
      BY <3>2 DEF LookInv, LookShape, Running
    <3>5. QED
      BY <3>2, <3>3, <3>4, RequestsLook
  <2>19. ASSUME NEW d \in Door, Sweeps(d) \/ Tidies(d)
         PROVE  LookInv'
    <3>1. /\ claimed' \subseteq claimed /\ UNCHANGED <<owners, gap>>
          /\ door' = [door EXCEPT ![d] = Over] /\ door[d].kind \in LookedFor
      BY <2>19 DEF Sweeps, Tidies, Removes, seenVars, LookedFor
    <3>2. LookShape' /\ LooksHold'
      <4>1. Over.kind = "none" /\ DOMAIN Over = DOMAIN NotCome
        BY DEF Over, NotCome
      <4>2. QED
        BY <3>1, <4>1 DEF LookInv, LookShape, LooksHold, Running
    <3>3. Running \subseteq gap
      BY <3>1 DEF LookInv, LooksHold
    <3>4. ClaimsHold'
      BY <3>1, <3>3 DEF ClaimsHold, Running
    <3>5. QED
      BY <3>2, <3>4 DEF LookInv
  <2>20. CASE UNCHANGED restoreVars
    BY <2>20, OthersKeepIt DEF restoreVars, procVars, seenVars
  <2>21. CASE PlaysJournal
    BY <2>21, OthersKeepIt DEF PlaysJournal, procVars
  <2>22. QED
    BY <2>1, <2>2, <2>3, <2>4, <2>5, <2>6, <2>7, <2>8, <2>9, <2>10, <2>11, <2>12, <2>13, <2>14,
       <2>15, <2>16, <2>17, <2>18, <2>19, <2>20, <2>21 DEF RestoreNext
<1>3. QED
  BY <1>1, <1>2, PTL DEF RestoreSpec

-----------------------------------------------------------------------------
(* However restores, cleanings, starts and deaths follow each other, a monitor *)
(* has two processes only if one was started after a request of the command    *)
(* line or of the dashboard had looked for those that run, or ran when such a  *)
(* look failed and took it for gone.                                           *)
THEOREM OneProcessEach == RestoreSpec => []OneProcess
<1>1. LookInv => OneProcess
  BY DEF LookInv, LookShape, ClaimsHold, OneProcess
<1>2. QED
  BY <1>1, LooksAreKept, PTL

(* secproxy backup restore puts a file in place under no process but those *)
(* that were started after it had looked, or that its look failed to see.  *)
THEOREM CommandRestoresAlone == RestoreSpec => RestoredAlone
<1>1. LookInv => \A d \in Door : door[d].kind = "cli" /\ door[d].at = "staged" /\ path' # path => Running \subseteq gap
  BY DEF LookInv, LooksHold, LookedFor
<1>2. QED
  BY <1>1, LooksAreKept, PTL DEF RestoredAlone

-----------------------------------------------------------------------------
(* The database file. *)
Stage == {"idle", "looked", "saved", "copying", "staged", "replaced", "failing", "migrating", "cleaning", "ended"}

Request(n) == [at : Stage, kind : Kinds \cup {"none"}, pick : Content, mine : 0..n,
               before : SUBSET Fact, list : SUBSET Monitor]

(* RestoreTypeOK with the shape of the functions that it leaves open. *)
DiskTyped ==
    /\ files \in [1..MaxFile -> Content] /\ saved \subseteq Content
    /\ made \in 1..MaxFile /\ path \in 1..made /\ temp \in 0..made /\ journal \in 0..made

ProcsTyped ==
    /\ open \in [Proc -> 0..made] /\ txn \in [Proc -> Fact \cup {Nothing}]
    /\ owners \in [Monitor -> 0..2] /\ claimed \subseteq Monitor

DoorsTyped ==
    /\ door \in [Door -> Request(made)]
    /\ \A d \in Door : door[d].at \in {"copying", "staged"} => door[d].mine # 0

SeenTyped ==
    /\ acked \subseteq Fact /\ spent \subseteq Fact /\ gap \subseteq Monitor
    /\ shared \subseteq {"copy", "undo", "journal"} /\ restored \in BOOLEAN

Types == DiskTyped /\ ProcsTyped /\ DoorsTyped /\ SeenTyped

LEMMA ContentsTyped ==
  /\ \A form \in {"ours", "other", "torn"}, facts \in SUBSET Fact : [facts |-> facts, form |-> form] \in Content
  /\ \A form \in {"ours", "other", "torn"} : Empty(form) \in Content
  /\ \A c \in Content : c.facts \in SUBSET Fact
BY DEF Empty, Content

LEMMA ForeignTyped == Foreign \subseteq Content
BY ContentsTyped DEF Foreign

LEMMA RequestsTyped ==
  /\ \A n \in Nat : NotCome \in Request(n) /\ Over \in Request(n)
  /\ \A n, k \in Nat : n <= k => Request(n) \subseteq Request(k)
  /\ \A n \in Nat : \A r \in Request(n), s \in Stage : [r EXCEPT !.at = s] \in Request(n)
  /\ \A n \in Nat : \A r \in Request(n), k \in Kinds : [r EXCEPT !.kind = k] \in Request(n)
  /\ \A n \in Nat : \A r \in Request(n), c \in Content : [r EXCEPT !.pick = c] \in Request(n)
  /\ \A n \in Nat : \A r \in Request(n), f \in 0..n : [r EXCEPT !.mine = f] \in Request(n)
  /\ \A n \in Nat : \A r \in Request(n), b \in SUBSET Fact : [r EXCEPT !.before = b] \in Request(n)
  /\ \A n \in Nat : \A r \in Request(n), l \in SUBSET Monitor : [r EXCEPT !.list = l] \in Request(n)
<1>1. ASSUME NEW n \in Nat
      PROVE  NotCome \in Request(n) /\ Over \in Request(n)
  BY ContentsTyped DEF NotCome, Over, Request, Stage
<1>2. ASSUME NEW n \in Nat, NEW k \in Nat, NEW r \in Request(n), n <= k
      PROVE  r \in Request(k)
  BY <1>2 DEF Request
<1>3. ASSUME NEW n \in Nat, NEW s \in Stage, NEW r \in Request(n)
      PROVE  [r EXCEPT !.at = s] \in Request(n)
  BY DEF Request
<1>4. ASSUME NEW n \in Nat, NEW k \in Kinds, NEW r \in Request(n)
      PROVE  [r EXCEPT !.kind = k] \in Request(n)
  BY DEF Request
<1>5. ASSUME NEW n \in Nat, NEW c \in Content, NEW r \in Request(n)
      PROVE  [r EXCEPT !.pick = c] \in Request(n)
  BY DEF Request
<1>6. ASSUME NEW n \in Nat, NEW f \in 0..n, NEW r \in Request(n)
      PROVE  [r EXCEPT !.mine = f] \in Request(n)
  BY DEF Request
<1>7. ASSUME NEW n \in Nat, NEW b \in SUBSET Fact, NEW r \in Request(n)
      PROVE  [r EXCEPT !.before = b] \in Request(n)
  BY DEF Request
<1>8. ASSUME NEW n \in Nat, NEW l \in SUBSET Monitor, NEW r \in Request(n)
      PROVE  [r EXCEPT !.list = l] \in Request(n)
  BY DEF Request
<1>9. QED
  BY <1>1, <1>2, <1>3, <1>4, <1>5, <1>6, <1>7, <1>8

LEMMA MadeIsNat == DiskTyped => made \in Nat
BY RestoreAssumption DEF DiskTyped

(* What a step leaves alone keeps its type, as files only become more. *)
LEMMA ProcsStay ==
  ASSUME ProcsTyped, made \in Nat, made' \in Nat, made <= made', UNCHANGED procVars
  PROVE  ProcsTyped'
BY DEF ProcsTyped, procVars

LEMMA DoorsStay ==
  ASSUME DoorsTyped, UNCHANGED <<made, door>>
  PROVE  DoorsTyped'
BY DEF DoorsTyped

LEMMA DoorMoves ==
  ASSUME DoorsTyped, made \in Nat, made' \in Nat, made <= made',
         NEW d \in Door, NEW request \in Request(made'), door' = [door EXCEPT ![d] = request],
         request.at \in {"copying", "staged"} => request.mine # 0
  PROVE  DoorsTyped'
<1>1. \A e \in Door : door[e] \in Request(made')
  BY RequestsTyped DEF DoorsTyped
<1>2. QED
  BY <1>1 DEF DoorsTyped

LEMMA DoorAdvances ==
  ASSUME DoorsTyped, made \in Nat, UNCHANGED made, NEW d \in Door, NEW s \in Stage, At(d, s),
         s \in {"copying", "staged"} => door[d].mine # 0
  PROVE  DoorsTyped'
<1> DEFINE request == [door[d] EXCEPT !.at = s]
<1>1. request \in Request(made)
  BY RequestsTyped DEF DoorsTyped
<1>2. request.at = s /\ request.mine = door[d].mine
  BY DEF DoorsTyped, Request
<1>3. door' = [door EXCEPT ![d] = request]
  BY DEF At
<1> HIDE DEF request
<1>4. request \in Request(made') /\ made' \in Nat /\ made <= made'
  BY <1>1
<1>5. QED
  BY <1>2, <1>3, <1>4, DoorMoves

LEMMA DoorEnds ==
  ASSUME DoorsTyped, made \in Nat, made' \in Nat, made <= made', NEW d \in Door, door' = [door EXCEPT ![d] = Over]
  PROVE  DoorsTyped'
<1>1. Over \in Request(made')
  BY RequestsTyped
<1>2. Over.at = "ended"
  BY DEF Over, NotCome
<1>3. QED
  BY <1>1, <1>2, DoorMoves

LEMMA DiskStays == DiskTyped /\ UNCHANGED diskVars => DiskTyped'
BY DEF DiskTyped, diskVars

LEMMA SeenStays == SeenTyped /\ UNCHANGED seenVars => SeenTyped'
BY DEF SeenTyped, seenVars

(* The next file made. *)
LEMMA FileMade ==
  ASSUME DiskTyped, NEW content \in Content, NewFile(content)
  PROVE  /\ files' \in [1..MaxFile -> Content] /\ made' \in 1..MaxFile /\ made' = made + 1
         /\ made \in Nat /\ made' \in Nat
BY RestoreAssumption DEF DiskTyped, NewFile

(* A process stores a fact in the file it has open. *)
LEMMA FactsStored ==
  ASSUME DiskTyped, NEW n, NEW facts \in SUBSET Fact, files' = [files EXCEPT ![n].facts = @ \cup facts]
  PROVE  files' \in [1..MaxFile -> Content]
<1>1. ASSUME n \in 1..MaxFile
      PROVE  [files[n] EXCEPT !.facts = @ \cup facts] \in Content
  BY <1>1 DEF DiskTyped, Content
<1>2. QED
  BY <1>1 DEF DiskTyped

LEMMA TypesKept == RestoreSpec => []Types
<1>1. RestoreInit => Types
  <2> SUFFICES ASSUME RestoreInit PROVE Types
    OBVIOUS
  <2>1. DiskTyped
    BY ContentsTyped, RestoreAssumption DEF RestoreInit, DiskTyped
  <2>2. ProcsTyped
    BY DEF RestoreInit, ProcsTyped
  <2>3. DoorsTyped
    <3>1. NotCome \in Request(made)
      BY <2>1, MadeIsNat, RequestsTyped
    <3>2. NotCome.at = "idle"
      BY DEF NotCome
    <3>3. QED
      BY <3>1, <3>2 DEF RestoreInit, DoorsTyped
  <2>4. SeenTyped
    BY DEF RestoreInit, SeenTyped
  <2>5. QED
    BY <2>1, <2>2, <2>3, <2>4 DEF Types
<1>2. Types /\ [RestoreNext]_restoreVars => Types'
  <2> SUFFICES ASSUME DiskTyped, ProcsTyped, DoorsTyped, SeenTyped, [RestoreNext]_restoreVars
               PROVE  DiskTyped' /\ ProcsTyped' /\ DoorsTyped' /\ SeenTyped'
    BY DEF Types
  <2>a. made \in Nat
    BY MadeIsNat
  <2>1. ASSUME NEW p \in Proc, Connects(p)
        PROVE  DiskTyped' /\ ProcsTyped' /\ DoorsTyped' /\ SeenTyped'
    <3>1. DiskTyped' /\ SeenTyped' /\ DoorsTyped'
      BY <2>1, DiskStays, SeenStays, DoorsStay DEF Connects, diskVars
    <3>2. ProcsTyped'
      BY <2>1, <2>a DEF Connects, diskVars, ProcsTyped, DiskTyped
    <3>3. QED
      BY <3>1, <3>2
  <2>2. ASSUME NEW p \in Proc, Commits(p)
        PROVE  DiskTyped' /\ ProcsTyped' /\ DoorsTyped' /\ SeenTyped'
    <3>1. {txn[p]} \in SUBSET Fact
      BY <2>2 DEF Commits, ProcsTyped
    <3>2. DiskTyped'
      <4>1. files' \in [1..MaxFile -> Content]
        BY <2>2, <3>1, FactsStored DEF Commits
      <4>2. UNCHANGED <<made, path, temp, saved>> /\ journal' = 0
        BY <2>2 DEF Commits
      <4>3. QED
        BY <2>a, <4>1, <4>2 DEF DiskTyped
    <3>3. ProcsTyped'
      BY <2>2 DEF Commits, ProcsTyped
    <3>4. DoorsTyped'
      BY <2>2, DoorsStay DEF Commits
    <3>5. SeenTyped'
      BY <2>2, <3>1 DEF Commits, SeenTyped
    <3>6. QED
      BY <3>2, <3>3, <3>4, <3>5
  <2>3. ASSUME NEW p \in Proc, NEW f \in Fact, Begins(p, f)
        PROVE  DiskTyped' /\ ProcsTyped' /\ DoorsTyped' /\ SeenTyped'
    <3>1. DiskTyped' /\ SeenTyped' /\ DoorsTyped'
      BY <2>3, <2>a, SeenStays, DoorsStay DEF Begins, DiskTyped
    <3>2. ProcsTyped'
      BY <2>3 DEF Begins, ProcsTyped
    <3>3. QED
      BY <3>1, <3>2
  <2>4. ASSUME NEW m \in Monitor, Starts(m)
        PROVE  DiskTyped' /\ ProcsTyped' /\ DoorsTyped' /\ SeenTyped'
    <3>1. DiskTyped' /\ DoorsTyped'
      BY <2>4, DiskStays, DoorsStay DEF Starts, diskVars
    <3>2. ProcsTyped'
      BY <2>4 DEF Starts, diskVars, ProcsTyped
    <3>3. SeenTyped'
      BY <2>4 DEF Starts, SeenTyped
    <3>4. QED
      BY <3>1, <3>2, <3>3
  <2>5. ASSUME NEW m \in Monitor, NEW inOrder \in BOOLEAN, Leaves(m, inOrder)
        PROVE  DiskTyped' /\ ProcsTyped' /\ DoorsTyped' /\ SeenTyped'
    <3>1. DiskTyped' /\ SeenTyped' /\ DoorsTyped'
      <4>1. files' \in [1..MaxFile -> Content]
        <5>1. files' = files \/ files' = [files EXCEPT ![open[m]] = Empty("torn")]
          BY <2>5 DEF Leaves
        <5>2. QED
          BY <5>1, ContentsTyped DEF DiskTyped
      <4>2. /\ UNCHANGED <<made, path, temp, saved, door>> /\ journal' \in {0, journal}
            /\ UNCHANGED <<acked, spent, gap, restored>> /\ shared' \in {shared, shared \cup {"journal"}}
        BY <2>5 DEF Leaves
      <4>3. QED
        BY <2>a, <4>1, <4>2, DoorsStay DEF DiskTyped, SeenTyped
    <3>2. open' \in [Proc -> 0..made] /\ txn' \in [Proc -> Fact \cup {Nothing}] /\ made' = made
      BY <2>5, <2>a DEF Leaves, ProcsTyped
    <3>3. owners' \in [Monitor -> 0..2] /\ claimed' \subseteq Monitor
      BY <2>5 DEF Leaves, ProcsTyped
    <3>4. QED
      BY <3>1, <3>2, <3>3 DEF ProcsTyped
  <2>6. CASE BacksUp
    <3>1. DiskTyped'
      <4>1. files[path] \in Content
        BY <2>a, RestoreAssumption DEF DiskTyped
      <4>2. QED
        BY <2>6, <4>1 DEF BacksUp, DiskTyped
    <3>2. QED
      BY <2>6, <2>a, <3>1, ProcsStay, DoorsStay, SeenStays DEF BacksUp
  <2>7. ASSUME NEW b \in saved, DeletesBackup(b)
        PROVE  DiskTyped' /\ ProcsTyped' /\ DoorsTyped' /\ SeenTyped'
    <3>1. DiskTyped'
      BY <2>7 DEF DeletesBackup, DiskTyped
    <3>2. b.facts \in SUBSET Fact
      BY ContentsTyped DEF DiskTyped
    <3>3. SeenTyped'
      BY <2>7, <3>2 DEF DeletesBackup, SeenTyped
    <3>4. QED
      BY <2>7, <2>a, <3>1, <3>3, ProcsStay, DoorsStay DEF DeletesBackup
  <2>8. ASSUME NEW d \in Door, NEW pick \in saved \cup Foreign,
               CommandLooks(d, pick) \/ ImportLooks(d, pick) \/ ScriptLooks(d, pick)
        PROVE  DiskTyped' /\ ProcsTyped' /\ DoorsTyped' /\ SeenTyped'
    <3>1. PICK kind \in {"cli", "dashboard", "script"} : LooksToRestore(d, kind, pick)
      BY <2>8 DEF CommandLooks, ImportLooks, ScriptLooks
    <3> DEFINE request == [NotCome EXCEPT !.at = "looked", !.kind = kind, !.pick = pick]
    <3>2. pick \in Content
      BY ForeignTyped DEF DiskTyped
    <3>3. request \in Request(made)
      <4>1. NotCome \in Request(made)
        BY <2>a, RequestsTyped
      <4>2. [NotCome EXCEPT !.at = "looked"] \in Request(made)
        BY <2>a, <4>1, RequestsTyped, "looked" \in Stage DEF Stage
      <4>3. [[NotCome EXCEPT !.at = "looked"] EXCEPT !.kind = kind] \in Request(made)
        BY <2>a, <4>2, RequestsTyped, kind \in Kinds DEF Kinds
      <4>4. QED
        BY <2>a, <3>2, <4>3, RequestsTyped
    <3>4. request.at = "looked"
      BY DEF NotCome
    <3>5. door' = [door EXCEPT ![d] = request] /\ UNCHANGED <<diskVars, procVars>> /\ UNCHANGED made
      BY <3>1 DEF LooksToRestore, diskVars
    <3> HIDE DEF request
    <3>6. request \in Request(made') /\ made' \in Nat /\ made <= made'
      BY <2>a, <3>3, <3>5
    <3>7. DoorsTyped'
      BY <2>a, <3>4, <3>5, <3>6, DoorMoves
    <3>8. SeenTyped'
      BY <3>1, LooksList DEF LooksToRestore, SeenTyped, Running
    <3>9. QED
      BY <2>a, <3>5, <3>6, <3>7, <3>8, DiskStays, ProcsStay
  <2>9. ASSUME NEW d \in Door, SavesFirst(d)
        PROVE  DiskTyped' /\ ProcsTyped' /\ DoorsTyped' /\ SeenTyped'
    <3> DEFINE request == [door[d] EXCEPT !.at = "saved", !.before = files[path].facts]
    <3>1. files[path] \in Content /\ files[path].facts \in SUBSET Fact
      BY ContentsTyped, <2>a, RestoreAssumption DEF DiskTyped
    <3>2. request \in Request(made) /\ request.at = "saved"
      BY <3>1 DEF Request, Stage, DoorsTyped
    <3>3. door' = [door EXCEPT ![d] = request] /\ UNCHANGED <<made, procVars>>
      BY <2>9 DEF SavesFirst
    <3> HIDE DEF request
    <3>4. request \in Request(made') /\ made' \in Nat /\ made <= made'
      BY <2>a, <3>2, <3>3
    <3>5. DoorsTyped'
      BY <2>a, <3>2, <3>3, <3>4, DoorMoves
    <3>6. ProcsTyped'
      BY <2>a, <3>3, <3>4, ProcsStay
    <3>7. DiskTyped' /\ SeenTyped'
      BY <2>9, <3>1 DEF SavesFirst, Backup, DiskTyped, SeenTyped
    <3>8. QED
      BY <3>5, <3>6, <3>7
  <2>10. ASSUME NEW d \in Door, GivesUp(d)
         PROVE  DiskTyped' /\ ProcsTyped' /\ DoorsTyped' /\ SeenTyped'
    <3>1. DiskTyped'
      BY <2>10, ContentsTyped DEF GivesUp, DiskTyped
    <3>2. SeenTyped'
      BY <2>10 DEF GivesUp, SeenTyped
    <3>3. /\ door' = [door EXCEPT ![d] = Over] /\ UNCHANGED procVars
          /\ made' \in Nat /\ made <= made'
      BY <2>10, <2>a DEF GivesUp
    <3>4. DoorsTyped'
      BY <2>a, <3>3, DoorEnds
    <3>5. ProcsTyped'
      BY <2>a, <3>3, ProcsStay
    <3>6. QED
      BY <3>1, <3>2, <3>4, <3>5
  <2>11. ASSUME NEW d \in Door, CopyBegins(d)
         PROVE  DiskTyped' /\ ProcsTyped' /\ DoorsTyped' /\ SeenTyped'
    <3>1. /\ files' \in [1..MaxFile -> Content] /\ made' \in 1..MaxFile /\ made' \in Nat /\ made <= made'
          /\ temp' \in 1..made'
      <4>1. CASE temp = 0
        BY <2>11, <4>1, <2>a, ContentsTyped, FileMade DEF CopyBegins
      <4>2. CASE temp # 0
        <5>1. files' = [files EXCEPT ![temp] = Empty("torn")] /\ UNCHANGED <<made, temp>>
          BY <2>11, <4>2 DEF CopyBegins
        <5>2. temp \in 1..MaxFile /\ temp \in 1..made
          BY <4>2, <2>a, RestoreAssumption DEF DiskTyped
        <5>3. Empty("torn") \in Content
          BY ContentsTyped
        <5>4. files' \in [1..MaxFile -> Content]
          BY <5>1, <5>3 DEF DiskTyped
        <5>5. QED
          BY <5>1, <5>2, <5>4, <2>a DEF DiskTyped
      <4>3. QED
        BY <4>1, <4>2
    <3> DEFINE request == [door[d] EXCEPT !.at = "copying", !.mine = temp']
    <3>2. request \in Request(made') /\ request.at = "copying" /\ request.mine # 0
      <4>1. door[d] \in Request(made')
        BY <2>a, <3>1, RequestsTyped DEF DoorsTyped
      <4>2. [door[d] EXCEPT !.at = "copying"] \in Request(made')
        BY <3>1, <4>1, RequestsTyped, "copying" \in Stage DEF Stage
      <4>3. temp' \in 0..made' /\ temp' # 0
        BY <3>1
      <4>4. request \in Request(made')
        BY <3>1, <4>2, <4>3, RequestsTyped
      <4>5. request.at = "copying" /\ request.mine = temp'
        BY <4>1 DEF Request
      <4> HIDE DEF request
      <4>6. QED
        BY <4>3, <4>4, <4>5
    <3>3. door' = [door EXCEPT ![d] = request] /\ UNCHANGED procVars
      BY <2>11 DEF CopyBegins
    <3> HIDE DEF request
    <3>4. DoorsTyped' /\ ProcsTyped'
      BY <2>a, <3>1, <3>2, <3>3, DoorMoves, ProcsStay
    <3>5. DiskTyped' /\ SeenTyped'
      BY <2>11, <2>a, <3>1 DEF CopyBegins, DiskTyped, SeenTyped
    <3>6. QED
      BY <3>4, <3>5
  <2>12. ASSUME NEW d \in Door, CopyEnds(d)
         PROVE  DiskTyped' /\ ProcsTyped' /\ DoorsTyped' /\ SeenTyped'
    <3>1. door[d].pick \in Content /\ door[d].mine # 0
      BY <2>12 DEF CopyEnds, DoorsTyped, Request
    <3>2. DiskTyped'
      BY <2>12, <3>1 DEF CopyEnds, DiskTyped
    <3>3. QED
      BY <2>12, <2>a, <3>1, <3>2, DoorAdvances, ProcsStay, SeenStays DEF CopyEnds, Stage
  <2>13. ASSUME NEW d \in Door, RenamesShared(d)
         PROVE  DiskTyped' /\ ProcsTyped' /\ DoorsTyped' /\ SeenTyped'
    <3>1. DiskTyped'
      BY <2>13, <2>a DEF RenamesShared, DiskTyped
    <3>2. SeenTyped'
      BY <2>13 DEF RenamesShared, SeenTyped
    <3>3. /\ door' = [door EXCEPT ![d] = Over] /\ UNCHANGED procVars
          /\ made' \in Nat /\ made <= made'
      BY <2>13, <2>a DEF RenamesShared
    <3>4. DoorsTyped'
      BY <2>a, <3>3, DoorEnds
    <3>5. ProcsTyped'
      BY <2>a, <3>3, ProcsStay
    <3>6. QED
      BY <3>1, <3>2, <3>4, <3>5
  <2>14. ASSUME NEW d \in Door, Stages(d)
         PROVE  DiskTyped' /\ ProcsTyped' /\ DoorsTyped' /\ SeenTyped'
    <3>1. door[d].pick \in Content
      BY DEF DoorsTyped, Request
    <3>2. files' \in [1..MaxFile -> Content] /\ made' \in 1..MaxFile /\ made' = made + 1 /\ made' \in Nat
      BY <2>14, <3>1, FileMade DEF Stages
    <3> DEFINE request == [door[d] EXCEPT !.at = "staged", !.mine = made + 1]
    <3>3. request \in Request(made') /\ request.mine # 0
      <4>1. door[d] \in Request(made')
        BY <2>a, <3>2, RequestsTyped DEF DoorsTyped
      <4>2. [door[d] EXCEPT !.at = "staged"] \in Request(made')
        BY <3>2, <4>1, RequestsTyped, "staged" \in Stage DEF Stage
      <4>3. made + 1 \in 0..made' /\ made + 1 # 0
        BY <2>a, <3>2
      <4>4. request \in Request(made')
        BY <3>2, <4>2, <4>3, RequestsTyped
      <4>5. request.mine = made + 1
        BY <4>1 DEF Request
      <4> HIDE DEF request
      <4>6. QED
        BY <4>3, <4>4, <4>5
    <3>4. door' = [door EXCEPT ![d] = request] /\ UNCHANGED <<procVars, seenVars, path, temp, saved, journal>>
      BY <2>14 DEF Stages
    <3> HIDE DEF request
    <3>5. made <= made'
      BY <2>a, <3>2
    <3>6. DoorsTyped'
      BY <2>a, <3>2, <3>3, <3>4, <3>5, DoorMoves
    <3>7. ProcsTyped' /\ SeenTyped'
      BY <2>a, <3>2, <3>4, <3>5, ProcsStay, SeenStays
    <3>8. DiskTyped'
      BY <2>a, <3>2, <3>4 DEF DiskTyped
    <3>9. QED
      BY <3>6, <3>7, <3>8
  <2>15. ASSUME NEW d \in Door, Disposes(d)
         PROVE  DiskTyped' /\ ProcsTyped' /\ DoorsTyped' /\ SeenTyped'
    <3>1. DiskTyped' /\ SeenTyped' /\ DoorsTyped'
      BY <2>15, DiskStays, SeenStays, DoorsStay DEF Disposes, diskVars
    <3>2. open' = [open EXCEPT ![Dashboard] = 0] /\ UNCHANGED <<made, txn, owners, claimed>>
      BY <2>15 DEF Disposes, diskVars
    <3>3. ProcsTyped'
      <4>1. 0 \in 0..made
        BY <2>a
      <4>2. open' \in [Proc -> 0..made]
        BY <3>2, <4>1 DEF ProcsTyped
      <4>3. QED
        BY <3>2, <4>2 DEF ProcsTyped
    <3>4. QED
      BY <3>1, <3>3
  <2>16. ASSUME NEW d \in Door, Renames(d)
         PROVE  DiskTyped' /\ ProcsTyped' /\ DoorsTyped' /\ SeenTyped'
    <3>1. door[d].mine \in 1..made
      BY <2>16, <2>a DEF Renames, DoorsTyped, Request
    <3>2. DiskTyped'
      BY <2>16, <3>1 DEF Renames, DiskTyped
    <3>3. DoorsTyped'
      <4>1. CASE door[d].kind = "script"
        BY <2>16, <4>1, <2>a, DoorEnds DEF Renames
      <4>2. CASE door[d].kind # "script"
        BY <2>16, <4>2, <2>a, DoorAdvances DEF Renames, Stage
      <4>3. QED
        BY <4>1, <4>2
    <3>4. ProcsTyped' /\ SeenTyped'
      <4>1. UNCHANGED procVars /\ made' \in Nat /\ made <= made'
        BY <2>16, <2>a DEF Renames
      <4>2. ProcsTyped'
        BY <2>a, <4>1, ProcsStay
      <4>3. SeenTyped'
        BY <2>16 DEF Renames, SeenTyped
      <4>4. QED
        BY <4>2, <4>3
    <3>5. QED
      BY <3>2, <3>3, <3>4
  <2>17. ASSUME NEW d \in Door, SchemaEnsured(d)
         PROVE  DiskTyped' /\ ProcsTyped' /\ DoorsTyped' /\ SeenTyped'
    <3>1. UNCHANGED <<diskVars, procVars, made>>
      BY <2>17 DEF SchemaEnsured, diskVars
    <3>2. SeenTyped'
      BY <2>17 DEF SchemaEnsured, SeenTyped
    <3>3. door' = [door EXCEPT ![d] = Over] /\ made' \in Nat /\ made <= made'
      BY <2>17, <2>a, <3>1 DEF SchemaEnsured
    <3>4. DoorsTyped'
      BY <2>a, <3>3, DoorEnds
    <3>5. QED
      BY <2>a, <3>1, <3>2, <3>3, <3>4, DiskStays, ProcsStay
  <2>18. ASSUME NEW d \in Door, SchemaFails(d)
         PROVE  DiskTyped' /\ ProcsTyped' /\ DoorsTyped' /\ SeenTyped'
    <3>1. UNCHANGED <<diskVars, procVars, seenVars, made>>
      BY <2>18 DEF SchemaFails, diskVars
    <3>2. QED
      BY <2>18, <2>a, <3>1, DiskStays, ProcsStay, SeenStays, DoorAdvances DEF SchemaFails, Stage
  <2>19. ASSUME NEW d \in Door, RollsBack(d)
         PROVE  DiskTyped' /\ ProcsTyped' /\ DoorsTyped' /\ SeenTyped'
    <3>1. [facts |-> door[d].before, form |-> "ours"] \in Content
      BY ContentsTyped DEF DoorsTyped, Request
    <3>2. files' \in [1..MaxFile -> Content] /\ made' \in 1..MaxFile /\ made' = made + 1 /\ made' \in Nat
      BY <2>19, <3>1, FileMade DEF RollsBack
    <3>3. DiskTyped'
      BY <2>19, <2>a, <3>2 DEF RollsBack, DiskTyped
    <3>4. door' = [door EXCEPT ![d] = Over] /\ made <= made' /\ UNCHANGED <<procVars, seenVars>>
      BY <2>19, <2>a, <3>2 DEF RollsBack
    <3>5. DoorsTyped'
      BY <2>a, <3>2, <3>4, DoorEnds
    <3>6. QED
      BY <2>a, <3>2, <3>3, <3>4, <3>5, ProcsStay, SeenStays
  <2>20. ASSUME NEW d \in Door, NEW replaces \in BOOLEAN, MigrationBegins(d, replaces)
         PROVE  DiskTyped' /\ ProcsTyped' /\ DoorsTyped' /\ SeenTyped'
    <3>1. path \in 1..MaxFile /\ files[path] \in Content /\ files[path].facts \in SUBSET Fact
      BY ContentsTyped, <2>a, RestoreAssumption DEF DiskTyped
    <3>2. [files[path] EXCEPT !.facts = {}] \in Content
      BY <3>1 DEF Content
    <3>3. DiskTyped'
      <4>1. files' \in [1..MaxFile -> Content]
        BY <2>20, <3>1, <3>2 DEF MigrationBegins, DiskTyped
      <4>2. QED
        BY <2>20, <4>1 DEF MigrationBegins, DiskTyped
    <3>4. SeenTyped'
      BY <2>20, <3>1 DEF MigrationBegins, SeenTyped
    <3> DEFINE request == [NotCome EXCEPT !.at = "migrating", !.kind = "migrate"]
    <3>5. request \in Request(made)
      <4>1. NotCome \in Request(made)
        BY <2>a, RequestsTyped
      <4>2. [NotCome EXCEPT !.at = "migrating"] \in Request(made)
        BY <2>a, <4>1, RequestsTyped, "migrating" \in Stage DEF Stage
      <4>3. QED
        BY <2>a, <4>2, RequestsTyped, "migrate" \in Kinds DEF Kinds
    <3>6. request.at = "migrating"
      BY DEF NotCome
    <3>7. door' = [door EXCEPT ![d] = request] /\ UNCHANGED <<made, procVars>>
      BY <2>20 DEF MigrationBegins
    <3> HIDE DEF request
    <3>8. request \in Request(made') /\ made' \in Nat /\ made <= made'
      BY <2>a, <3>5, <3>7
    <3>9. DoorsTyped'
      BY <2>a, <3>6, <3>7, <3>8, DoorMoves
    <3>10. ProcsTyped'
      BY <2>a, <3>7, <3>8, ProcsStay
    <3>11. QED
      BY <3>3, <3>4, <3>9, <3>10
  <2>21. ASSUME NEW d \in Door, NEW batch \in SUBSET Fact, MigratesBatch(d, batch)
         PROVE  DiskTyped' /\ ProcsTyped' /\ DoorsTyped' /\ SeenTyped'
    <3>1. DiskTyped'
      BY <2>21, FactsStored DEF MigratesBatch, DiskTyped
    <3>2. SeenTyped'
      BY <2>21 DEF MigratesBatch, SeenTyped
    <3>3. /\ door' = [door EXCEPT ![d] = Over] /\ UNCHANGED procVars
          /\ made' \in Nat /\ made <= made'
      BY <2>21, <2>a DEF MigratesBatch
    <3>4. DoorsTyped'
      BY <2>a, <3>3, DoorEnds
    <3>5. ProcsTyped'
      BY <2>a, <3>3, ProcsStay
    <3>6. QED
      BY <3>1, <3>2, <3>4, <3>5
  <2>22. ASSUME NEW d \in Door, NEW old \in SUBSET Monitor, SweepLooks(d) \/ TidyLooks(d, old)
         PROVE  DiskTyped' /\ ProcsTyped' /\ DoorsTyped' /\ SeenTyped'
    <3>1. PICK kind \in {"sweep", "tidy"}, list \in SUBSET Monitor : LooksToClean(d, kind, list)
      BY <2>22 DEF SweepLooks, TidyLooks
    <3> DEFINE request == [NotCome EXCEPT !.at = "cleaning", !.kind = kind, !.list = list]
    <3>2. request \in Request(made)
      <4>1. NotCome \in Request(made)
        BY <2>a, RequestsTyped
      <4>2. [NotCome EXCEPT !.at = "cleaning"] \in Request(made)
        BY <2>a, <4>1, RequestsTyped, "cleaning" \in Stage DEF Stage
      <4>3. [[NotCome EXCEPT !.at = "cleaning"] EXCEPT !.kind = kind] \in Request(made)
        BY <2>a, <4>2, RequestsTyped, kind \in Kinds DEF Kinds
      <4>4. QED
        BY <2>a, <4>3, RequestsTyped
    <3>3. request.at = "cleaning"
      BY DEF NotCome
    <3>4. door' = [door EXCEPT ![d] = request] /\ UNCHANGED <<made, diskVars, procVars>>
      BY <3>1 DEF LooksToClean, diskVars
    <3> HIDE DEF request
    <3>5. request \in Request(made') /\ made' \in Nat /\ made <= made'
      BY <2>a, <3>2, <3>4
    <3>6. DoorsTyped'
      BY <2>a, <3>3, <3>4, <3>5, DoorMoves
    <3>7. SeenTyped'
      BY <3>1, LooksList DEF LooksToClean, SeenTyped, Running
    <3>8. QED
      BY <2>a, <3>4, <3>5, <3>6, <3>7, DiskStays, ProcsStay
  <2>23. ASSUME NEW d \in Door, Sweeps(d) \/ Tidies(d)
         PROVE  DiskTyped' /\ ProcsTyped' /\ DoorsTyped' /\ SeenTyped'
    <3>1. Removes(d)
      BY <2>23 DEF Sweeps, Tidies
    <3>2. UNCHANGED <<diskVars, made, seenVars>>
      BY <3>1 DEF Removes, diskVars
    <3>3. ProcsTyped'
      BY <3>1, <3>2 DEF Removes, ProcsTyped
    <3>4. made' \in Nat /\ made <= made'
      BY <2>a, <3>2
    <3>5. door' = [door EXCEPT ![d] = Over]
      BY <3>1 DEF Removes
    <3>6. DoorsTyped'
      BY <2>a, <3>4, <3>5, DoorEnds
    <3>7. DiskTyped' /\ SeenTyped'
      BY <3>2, DiskStays, SeenStays
    <3>8. QED
      BY <3>3, <3>6, <3>7
  <2>24. CASE UNCHANGED restoreVars
    BY <2>24, <2>a, DiskStays, ProcsStay, SeenStays, DoorsStay DEF restoreVars, diskVars
  <2>25. CASE PlaysJournal
    <3>1. files' = files \/ files' = [files EXCEPT ![path] = Empty("torn")]
      BY <2>25 DEF PlaysJournal
    <3>2. files' \in [1..MaxFile -> Content]
      BY <3>1, ContentsTyped DEF DiskTyped
    <3>3. /\ UNCHANGED <<made, path, temp, saved, procVars, door>> /\ journal' = 0
          /\ UNCHANGED <<acked, spent, gap, restored>> /\ shared' \in {shared, shared \cup {"journal"}}
      BY <2>25 DEF PlaysJournal
    <3>4. QED
      BY <2>a, <3>2, <3>3, ProcsStay, DoorsStay DEF DiskTyped, SeenTyped
  <2>26. QED
    BY <2>1, <2>2, <2>3, <2>4, <2>5, <2>6, <2>7, <2>8, <2>9, <2>10, <2>11, <2>12, <2>13, <2>14,
       <2>15, <2>16, <2>17, <2>18, <2>19, <2>20, <2>21, <2>22, <2>23, <2>24, <2>25 DEF RestoreNext
<1>3. QED
  BY <1>1, <1>2, PTL DEF RestoreSpec

-----------------------------------------------------------------------------
(* The files.  A request that copies uses the file it copies to: the command *)
(* line shares one, whose name is <path>.restore.tmp, the others have their  *)
(* own.                                                                      *)
Using(d) == door[d].at \in {"copying", "staged"}
Private(d) == Using(d) /\ door[d].kind # "cli"

(* Nobody but the request itself writes to or renames a file of its own. *)
Places ==
    /\ temp # path
    /\ \A d \in Door : door[d].at = "copying" => door[d].kind = "cli"
    /\ \A d \in Door : Private(d) => door[d].mine # temp /\ door[d].mine # path
    /\ \A d, e \in Door : Private(d) /\ Using(e) /\ d # e => door[d].mine # door[e].mine
    /\ \A d \in Door : Using(d) /\ ~Private(d) /\ door[d].mine = path => restored

Picks == \A d \in Door : door[d].at \in {"looked", "saved", "copying", "staged"} => door[d].pick.form # "torn"

(* One request of the command line at a time has the file they share, and what *)
(* is ready to be renamed is complete.                                         *)
Copies ==
    /\ files[path].form # "torn"
    /\ \A d \in Door : Using(d) /\ ~Private(d) => door[d].mine = temp
    /\ \A d, e \in Door : Using(d) /\ ~Private(d) /\ Using(e) /\ ~Private(e) => d = e
    /\ \A d \in Door : door[d].at = "staged" => files[door[d].mine].form # "torn"

WholeInv == Places /\ Picks /\ ({"copy", "journal"} \cap shared # {} \/ Copies)

(* Requests that neither copy nor have copied, and steps that change what is  *)
(* in a file and not how it is written, are of no account here.               *)
LEMMA QuietForFiles ==
  ASSUME Types, WholeInv, UNCHANGED <<path, temp>>, shared \subseteq shared', restored => restored',
         \A n \in 1..MaxFile : files'[n].form = files[n].form,
         \A d \in Door : \/ door'[d] = door[d]
                         \/ /\ door'[d].at \notin {"copying", "staged"}
                            /\ door'[d].at \in {"looked", "saved"} => door'[d].pick.form # "torn"
  PROVE  WholeInv'
<1>1. path \in 1..MaxFile /\ \A d \in Door : Using(d) => door[d].mine \in 1..MaxFile
  BY RestoreAssumption DEF Types, DiskTyped, DoorsTyped, Request, Using
<1>2. Places'
  BY DEF WholeInv, Places, Private, Using
<1>3. Picks'
  BY DEF WholeInv, Picks
<1>4. Copies => Copies'
  BY <1>1 DEF Copies, Private, Using
<1>5. QED
  BY <1>2, <1>3, <1>4 DEF WholeInv

(* Once a journal was used for another file, only places and picks count. *)
LEMMA JournalsTear ==
  ASSUME WholeInv, UNCHANGED <<path, temp, door, restored>>, "journal" \in shared'
  PROVE  WholeInv'
<1>1. Places' /\ Picks'
  BY DEF WholeInv, Places, Picks, Private, Using
<1>2. QED
  BY <1>1 DEF WholeInv

LEMMA FilesKept == RestoreSpec => []WholeInv
<1>1. RestoreInit => WholeInv
  BY RestoreAssumption DEF RestoreInit, WholeInv, Places, Picks, Copies, Private, Using, NotCome, Empty
<1>2. Types /\ Types' /\ WholeInv /\ [RestoreNext]_restoreVars => WholeInv'
  <2> SUFFICES ASSUME Types, Types', WholeInv, [RestoreNext]_restoreVars
               PROVE  WholeInv'
    OBVIOUS
  <2>a. /\ made \in Nat /\ path \in 1..made /\ temp \in 0..made /\ made \in 1..MaxFile /\ path \in 1..MaxFile
        /\ \A d \in Door : Using(d) => door[d].mine \in 1..made
        /\ \A d \in Door : door[d] \in Request(made)
        /\ \A n \in 1..MaxFile : files[n] \in Content
        /\ files \in [1..MaxFile -> Content] /\ DOMAIN door = Door
    BY RestoreAssumption DEF Types, DiskTyped, DoorsTyped, Request, Using
  <2>b. Over.at = "ended"
    BY DEF Over, NotCome
  <2>1. ASSUME NEW p \in Proc, Connects(p) \/ \E f \in Fact : Begins(p, f)
        PROVE  WholeInv'
    BY <2>1, QuietForFiles DEF Connects, Begins, diskVars, seenVars
  <2>2. ASSUME NEW p \in Proc, Commits(p)
        PROVE  WholeInv'
    <3>1. \A n \in 1..MaxFile : files'[n].form = files[n].form
      BY <2>2, <2>a DEF Commits, Content
    <3>2. QED
      BY <2>2, <3>1, QuietForFiles DEF Commits
  <2>3. ASSUME NEW m \in Monitor, Starts(m) \/ \E inOrder \in BOOLEAN : Leaves(m, inOrder)
        PROVE  WholeInv'
    <3>1. UNCHANGED <<path, temp, door, restored>>
      BY <2>3 DEF Starts, Leaves, diskVars, seenVars
    <3>2. UNCHANGED <<files, shared>> \/ "journal" \in shared'
      BY <2>3 DEF Starts, Leaves, diskVars
    <3>3. QED
      BY <3>1, <3>2, QuietForFiles, JournalsTear
  <2>4. CASE BacksUp \/ \E b \in saved : DeletesBackup(b)
    BY <2>4, QuietForFiles DEF BacksUp, DeletesBackup, seenVars
  <2>5. ASSUME NEW d \in Door, NEW pick \in saved \cup Foreign,
               CommandLooks(d, pick) \/ ImportLooks(d, pick) \/ ScriptLooks(d, pick)
        PROVE  WholeInv'
    <3>1. PICK kind \in {"cli", "dashboard", "script"} : LooksToRestore(d, kind, pick)
      BY <2>5 DEF CommandLooks, ImportLooks, ScriptLooks
    <3> DEFINE request == [NotCome EXCEPT !.at = "looked", !.kind = kind, !.pick = pick]
    <3>2. request.at = "looked" /\ request.pick = pick
      BY DEF NotCome
    <3>3. pick.form # "torn"
      BY <3>1 DEF LooksToRestore, Accepts
    <3>4. door' = [door EXCEPT ![d] = request] /\ UNCHANGED <<diskVars, shared, restored>>
      BY <3>1 DEF LooksToRestore
    <3> HIDE DEF request
    <3>5. door'[d] = request /\ \A e \in Door \ {d} : door'[e] = door[e]
      BY <2>a, <3>4
    <3>7. door'[d].at = "looked" /\ door'[d].pick.form # "torn"
      BY <3>2, <3>3, <3>5
    <3>6. QED
      BY <3>4, <3>5, <3>7, QuietForFiles DEF diskVars, seenVars
  <2>6. ASSUME NEW d \in Door, SavesFirst(d)
        PROVE  WholeInv'
    <3>1. door'[d].at = "saved" /\ door'[d].pick = door[d].pick /\ \A e \in Door \ {d} : door'[e] = door[e]
      BY <2>6, <2>a DEF SavesFirst, Request
    <3>2. door[d].pick.form # "torn"
      BY <2>6 DEF SavesFirst, WholeInv, Picks
    <3>3. UNCHANGED <<files, path, temp, restored>> /\ shared \subseteq shared'
      BY <2>6 DEF SavesFirst
    <3>4. QED
      BY <3>1, <3>2, <3>3, QuietForFiles
  <2>7. ASSUME NEW d \in Door, GivesUp(d) \/ SchemaEnsured(d)
        PROVE  WholeInv'
    <3>1. door'[d].at = "ended" /\ \A e \in Door \ {d} : door'[e] = door[e]
      BY <2>7, <2>a, <2>b DEF GivesUp, SchemaEnsured
    <3>2. UNCHANGED <<files, path, temp, shared>> /\ (restored => restored')
      BY <2>7 DEF GivesUp, SchemaEnsured, diskVars
    <3>3. QED
      BY <3>1, <3>2, QuietForFiles
  <2>8. ASSUME NEW d \in Door, SchemaFails(d)
        PROVE  WholeInv'
    <3>1. door'[d].at = "failing" /\ \A e \in Door \ {d} : door'[e] = door[e]
      BY <2>8, <2>a DEF SchemaFails, At, Request
    <3>2. QED
      BY <2>8, <3>1, QuietForFiles DEF SchemaFails, diskVars, seenVars
  <2>9. ASSUME NEW d \in Door, CopyBegins(d)
        PROVE  WholeInv'
    <3>1. /\ door'[d].at = "copying" /\ door'[d].kind = "cli" /\ door'[d].mine = temp'
          /\ door'[d].pick.form # "torn" /\ \A e \in Door \ {d} : door'[e] = door[e]
          /\ ~Using(d) /\ UNCHANGED <<path, restored>>
      BY <2>9, <2>a DEF CopyBegins, Request, WholeInv, Picks, Using
    <3>2. CASE temp = 0
      <4>1. /\ temp' = made + 1 /\ shared' = shared
            /\ \A n \in 1..made : files'[n] = files[n]
        <5>1. /\ temp' = made + 1 /\ files' = [files EXCEPT ![made + 1] = Empty("torn")]
              /\ \A e \in Door \ {d} : ~(temp # 0 /\ door[e].mine = temp)
          BY <2>9, <3>2 DEF CopyBegins, NewFile
        <5>2. shared' = shared
          BY <2>9, <5>1 DEF CopyBegins
        <5>3. \A n \in 1..made : n \in 1..MaxFile /\ n # made + 1
          BY <2>a, RestoreAssumption
        <5>4. \A n \in 1..made : files'[n] = files[n]
          BY <2>a, <5>1, <5>3
        <5>5. QED
          BY <5>1, <5>2, <5>4
      <4>2. Places'
        BY <3>1, <4>1, <2>a DEF WholeInv, Places, Private, Using
      <4>3. Picks'
        BY <3>1 DEF WholeInv, Picks
      <4>4. Copies => Copies'
        BY <3>1, <3>2, <4>1, <2>a DEF Copies, Private, Using
      <4>5. QED
        BY <4>1, <4>2, <4>3, <4>4 DEF WholeInv
    <3>3. CASE temp # 0
      <4>1. /\ temp' = temp /\ temp \in 1..made
            /\ \A n \in 1..made : n # temp => files'[n] = files[n]
            /\ shared \subseteq shared'
            /\ \A e \in Door \ {d} : door[e].mine = temp => "copy" \in shared'
        <5>1. temp' = temp /\ files' = [files EXCEPT ![temp] = Empty("torn")]
          BY <2>9, <3>3 DEF CopyBegins
        <5>2. temp \in 1..made
          BY <2>a, <3>3
        <5>3. \A n \in 1..made : n \in 1..MaxFile
          BY <2>a, RestoreAssumption
        <5>4. \A n \in 1..made : n # temp => files'[n] = files[n]
          BY <2>a, <5>1, <5>3
        <5>5. shared' = IF \E e \in Door \ {d} : temp # 0 /\ door[e].mine = temp THEN shared \cup {"copy"} ELSE shared
          BY <2>9 DEF CopyBegins
        <5>6. shared \subseteq shared'
          BY <5>5
        <5>7. ASSUME NEW e \in Door \ {d}, door[e].mine = temp
              PROVE  "copy" \in shared'
          BY <3>3, <5>5, <5>7
        <5>8. QED
          BY <5>1, <5>2, <5>4, <5>6, <5>7
      <4>2. Places'
        BY <3>1, <4>1, <2>a DEF WholeInv, Places, Private, Using
      <4>3. Picks'
        BY <3>1 DEF WholeInv, Picks
      <4>4. Copies /\ Places /\ {"copy", "journal"} \cap shared' = {} => Copies'
        BY <3>1, <4>1, <2>a DEF Copies, Places, Private, Using
      <4>5. QED
        BY <4>1, <4>2, <4>3, <4>4 DEF WholeInv
    <3>4. QED
      BY <3>2, <3>3
  <2>10. ASSUME NEW d \in Door, CopyEnds(d)
         PROVE  WholeInv'
    <3>1. /\ door'[d].at = "staged" /\ door'[d].kind = door[d].kind /\ door'[d].mine = door[d].mine
          /\ door'[d].pick = door[d].pick /\ \A e \in Door \ {d} : door'[e] = door[e]
          /\ door[d].at = "copying" /\ door[d].kind = "cli"
          /\ UNCHANGED <<path, temp, made, shared, restored>>
      BY <2>10, <2>a DEF CopyEnds, At, Request, WholeInv, Places, seenVars
    <3>2. door[d].pick.form # "torn" /\ files' = [files EXCEPT ![door[d].mine] = door[d].pick]
      BY <2>10, <3>1 DEF CopyEnds, WholeInv, Picks
    <3>3. Places'
      BY <3>1 DEF WholeInv, Places, Private, Using
    <3>4. Picks'
      BY <3>1, <3>2 DEF WholeInv, Picks
    <3>5. door[d].mine \in 1..MaxFile /\ \A e \in Door : Using(e) => door[e].mine \in 1..MaxFile
      BY <2>a, <3>1, RestoreAssumption DEF Using
    <3>6. Copies => Copies'
      BY <2>a, <3>1, <3>2, <3>5 DEF Copies, Private, Using
    <3>7. QED
      BY <3>1, <3>3, <3>4, <3>6 DEF WholeInv
  <2>11. ASSUME NEW d \in Door, RenamesShared(d)
         PROVE  WholeInv'
    <3>1. /\ door'[d].at = "ended" /\ \A e \in Door \ {d} : door'[e] = door[e]
          /\ Using(d) /\ ~Private(d) /\ door[d].at = "staged" /\ UNCHANGED <<files, shared>>
      BY <2>11, <2>a, <2>b DEF RenamesShared, Using, Private
    <3>2. CASE temp = 0
      BY <2>11, <3>1, <3>2, QuietForFiles DEF RenamesShared
    <3>3. CASE temp # 0
      <4>1. path' = temp /\ temp' = 0 /\ restored'
        BY <2>11, <3>3 DEF RenamesShared
      <4>2. Places'
        BY <3>1, <3>3, <4>1, <2>a DEF WholeInv, Places, Private, Using
      <4>3. Picks'
        BY <3>1 DEF WholeInv, Picks
      <4>4. Copies => Copies'
        BY <3>1, <4>1, <2>a DEF Copies, Private, Using
      <4>5. QED
        BY <3>1, <4>2, <4>3, <4>4 DEF WholeInv
    <3>4. QED
      BY <3>2, <3>3
  <2>12. ASSUME NEW d \in Door, Stages(d)
         PROVE  WholeInv'
    <3>1. /\ door'[d].at = "staged" /\ door'[d].kind = door[d].kind /\ door'[d].mine = made + 1
          /\ door'[d].pick = door[d].pick /\ \A e \in Door \ {d} : door'[e] = door[e]
          /\ door[d].kind # "cli" /\ door[d].at = "saved"
          /\ UNCHANGED <<path, temp, shared, restored>>
      BY <2>12, <2>a DEF Stages, Request, seenVars
    <3>2. door[d].pick.form # "torn" /\ files'[made + 1] = door[d].pick /\ \A n \in 1..made : files'[n] = files[n]
      <4>1. made < MaxFile /\ files' = [files EXCEPT ![made + 1] = door[d].pick]
        BY <2>12 DEF Stages, NewFile
      <4>2. made + 1 \in 1..MaxFile /\ \A n \in 1..made : n \in 1..MaxFile /\ n # made + 1
        BY <2>a, <4>1, RestoreAssumption
      <4>3. files'[made + 1] = door[d].pick
        BY <2>a, <4>1, <4>2
      <4>4. \A n \in 1..made : files'[n] = files[n]
        BY <2>a, <4>1, <4>2
      <4>5. door[d].pick.form # "torn"
        BY <3>1 DEF WholeInv, Picks
      <4>6. QED
        BY <4>3, <4>4, <4>5
    <3>3. Places'
      BY <2>a, <3>1 DEF WholeInv, Places, Private, Using
    <3>4. Picks'
      BY <3>1, <3>2 DEF WholeInv, Picks
    <3>5. Copies => Copies'
      BY <2>a, <3>1, <3>2 DEF Copies, Private, Using
    <3>6. QED
      BY <3>1, <3>3, <3>4, <3>5 DEF WholeInv
  <2>13. ASSUME NEW d \in Door, Disposes(d)
         PROVE  WholeInv'
    BY <2>13, QuietForFiles DEF Disposes, diskVars, seenVars
  <2>14. ASSUME NEW d \in Door, Renames(d)
         PROVE  WholeInv'
    <3>1. /\ door'[d].at \in {"ended", "replaced"} /\ \A e \in Door \ {d} : door'[e] = door[e]
          /\ Private(d) /\ door[d].at = "staged" /\ path' = door[d].mine
          /\ UNCHANGED <<files, temp, shared>> /\ (restored => restored')
      BY <2>14, <2>a, <2>b DEF Renames, At, Request, Private, Using
    <3>2. Places'
      BY <3>1 DEF WholeInv, Places, Private, Using
    <3>3. Picks'
      BY <3>1 DEF WholeInv, Picks
    <3>4. Copies => Copies'
      BY <3>1 DEF Copies, Private, Using
    <3>5. QED
      BY <3>1, <3>2, <3>3, <3>4 DEF WholeInv
  <2>15. ASSUME NEW d \in Door, RollsBack(d)
         PROVE  WholeInv'
    <3>1. /\ door'[d].at = "ended" /\ \A e \in Door \ {d} : door'[e] = door[e]
          /\ path' = made + 1 /\ UNCHANGED <<temp, shared, restored>>
      BY <2>15, <2>a, <2>b DEF RollsBack, seenVars
    <3>2. files'[made + 1].form = "ours" /\ \A n \in 1..made : files'[n] = files[n]
      <4>1. made < MaxFile /\ files' = [files EXCEPT ![made + 1] = [facts |-> door[d].before, form |-> "ours"]]
        BY <2>15 DEF RollsBack, NewFile
      <4>2. made + 1 \in 1..MaxFile /\ \A n \in 1..made : n \in 1..MaxFile /\ n # made + 1
        BY <2>a, <4>1, RestoreAssumption
      <4>3. files'[made + 1] = [facts |-> door[d].before, form |-> "ours"]
        BY <2>a, <4>1, <4>2
      <4>4. \A n \in 1..made : files'[n] = files[n]
        BY <2>a, <4>1, <4>2
      <4>5. QED
        BY <4>3, <4>4
    <3>3. Places'
      BY <2>a, <3>1 DEF WholeInv, Places, Private, Using
    <3>4. Picks'
      BY <3>1 DEF WholeInv, Picks
    <3>5. Copies => Copies'
      BY <2>a, <3>1, <3>2 DEF Copies, Private, Using
    <3>6. QED
      BY <3>1, <3>3, <3>4, <3>5 DEF WholeInv
  <2>16. ASSUME NEW d \in Door, NEW replaces \in BOOLEAN, MigrationBegins(d, replaces)
         PROVE  WholeInv'
    <3>1. \A n \in 1..MaxFile : files'[n].form = files[n].form
      BY <2>16, <2>a DEF MigrationBegins, Content
    <3>2. door'[d].at = "migrating" /\ \A e \in Door \ {d} : door'[e] = door[e]
      BY <2>16, <2>a DEF MigrationBegins, NotCome
    <3>3. QED
      BY <2>16, <3>1, <3>2, QuietForFiles DEF MigrationBegins
  <2>17. ASSUME NEW d \in Door, NEW batch \in SUBSET Fact, MigratesBatch(d, batch)
         PROVE  WholeInv'
    <3>1. \A n \in 1..MaxFile : files'[n].form = files[n].form
      BY <2>17, <2>a DEF MigratesBatch, Content
    <3>2. door'[d].at = "ended" /\ \A e \in Door \ {d} : door'[e] = door[e]
      BY <2>17, <2>a, <2>b DEF MigratesBatch
    <3>3. QED
      BY <2>17, <3>1, <3>2, QuietForFiles DEF MigratesBatch
  <2>18. ASSUME NEW d \in Door, NEW old \in SUBSET Monitor, SweepLooks(d) \/ TidyLooks(d, old)
         PROVE  WholeInv'
    <3>1. PICK kind, list : LooksToClean(d, kind, list)
      BY <2>18 DEF SweepLooks, TidyLooks
    <3>2. door'[d].at = "cleaning" /\ \A e \in Door \ {d} : door'[e] = door[e]
      BY <3>1, <2>a DEF LooksToClean, NotCome
    <3>3. QED
      BY <3>1, <3>2, QuietForFiles DEF LooksToClean, diskVars, seenVars
  <2>19. ASSUME NEW d \in Door, Sweeps(d) \/ Tidies(d)
         PROVE  WholeInv'
    <3>1. door'[d].at = "ended" /\ \A e \in Door \ {d} : door'[e] = door[e]
      BY <2>19, <2>a, <2>b DEF Sweeps, Tidies, Removes
    <3>2. QED
      BY <2>19, <3>1, QuietForFiles DEF Sweeps, Tidies, Removes, diskVars, seenVars
  <2>20. CASE UNCHANGED restoreVars
    BY <2>20, QuietForFiles DEF restoreVars, diskVars, seenVars
  <2>21. CASE PlaysJournal
    <3>1. UNCHANGED <<path, temp, door, restored>> /\ (UNCHANGED <<files, shared>> \/ "journal" \in shared')
      BY <2>21 DEF PlaysJournal
    <3>2. QED
      BY <3>1, QuietForFiles, JournalsTear
  <2>22. QED
    BY <2>1, <2>2, <2>3, <2>4, <2>5, <2>6, <2>7, <2>8, <2>9, <2>10, <2>11, <2>12, <2>13, <2>14,
       <2>15, <2>16, <2>17, <2>18, <2>19, <2>20, <2>21 DEF RestoreNext
<1>3. QED
  BY <1>1, <1>2, TypesKept, PTL DEF RestoreSpec

-----------------------------------------------------------------------------
(* The facts.  From its backup to its report a request is pending, and what  *)
(* was acknowledged before is in a backup that is kept, or was given up.     *)
Pending(d) == door[d].at \in {"saved", "copying", "staged", "replaced", "failing"}
Stored == (UNION {b.facts : b \in saved}) \cup spent

KeptInv ==
    /\ acked \subseteq files[path].facts \cup Stored
    /\ \A d \in Door : Pending(d) => acked \subseteq Stored

(* As long as no restore succeeds, or backs up what another puts there for a *)
(* while, each request holds all that was acknowledged before it.            *)
Undone ==
    /\ InPlace = {} => acked \subseteq files[path].facts \cup spent
    /\ \A d \in Door : Pending(d) => acked \subseteq door[d].before \cup spent

UndoneInv == restored \/ "undo" \in shared \/ Undone

FactsInv == KeptInv /\ UndoneInv

(* No request becomes pending, and none that is in place ends. *)
NoneMoves ==
    \A d \in Door : /\ d \in InPlace => d \in InPlace'
                    /\ Pending(d)' => Pending(d) /\ door'[d].before = door[d].before

LEMMA StoredIs == \A f : f \in Stored <=> f \in spent \/ \E b \in saved : f \in b.facts
BY DEF Stored

LEMMA StoredGrows == saved \subseteq saved' /\ spent \subseteq spent' => Stored \subseteq Stored'
<1> SUFFICES ASSUME saved \subseteq saved', spent \subseteq spent', NEW f \in Stored
             PROVE  f \in Stored'
  OBVIOUS
<1>1. f \in spent \/ \E b \in saved : f \in b.facts
  BY StoredIs
<1>2. f \in spent' \/ \E b \in saved' : f \in b.facts
  BY <1>1
<1>3. QED
  BY <1>2 DEF Stored

LEMMA KeptStays ==
  ASSUME KeptInv, UNCHANGED acked, Stored \subseteq Stored',
         \A d \in Door : Pending(d)' => Pending(d),
         (\E d \in Door : Pending(d)) \/ files[path].facts \subseteq files'[path'].facts \cup Stored'
  PROVE  KeptInv'
<1>1. acked' \subseteq files'[path'].facts \cup Stored'
  BY DEF KeptInv
<1>2. \A d \in Door : Pending(d)' => acked' \subseteq Stored'
  BY DEF KeptInv
<1>3. QED
  BY <1>1, <1>2 DEF KeptInv

LEMMA UndoneStays ==
  ASSUME UndoneInv, UNCHANGED acked, spent \subseteq spent', shared \subseteq shared', restored => restored',
         \/ restored'
         \/ NoneMoves /\ files[path].facts \subseteq files'[path'].facts \cup spent'
  PROVE  UndoneInv'
<1>1. CASE restored' \/ restored \/ "undo" \in shared
  BY <1>1 DEF UndoneInv
<1>2. CASE Undone /\ NoneMoves /\ files[path].facts \subseteq files'[path'].facts \cup spent'
  <2>1. InPlace' = {} => InPlace = {}
    BY <1>2 DEF NoneMoves, InPlace
  <2>2. InPlace' = {} => acked' \subseteq files'[path'].facts \cup spent'
    BY <1>2, <2>1 DEF Undone
  <2>3. \A d \in Door : Pending(d)' => acked' \subseteq door'[d].before \cup spent'
    BY <1>2 DEF Undone, NoneMoves
  <2>4. QED
    BY <2>2, <2>3 DEF UndoneInv, Undone
<1>3. QED
  BY <1>1, <1>2 DEF UndoneInv

LEMMA QuietForFacts ==
  ASSUME FactsInv, UNCHANGED acked, Stored \subseteq Stored', spent \subseteq spent', shared \subseteq shared',
         restored => restored', NoneMoves, files[path].facts \subseteq files'[path'].facts \cup spent'
  PROVE  FactsInv'
<1>1. spent' \subseteq Stored'
  BY DEF Stored
<1>2. KeptInv'
  BY <1>1, KeptStays DEF FactsInv, NoneMoves
<1>3. UndoneInv'
  BY UndoneStays DEF FactsInv
<1>4. QED
  BY <1>2, <1>3 DEF FactsInv

(* A commit is in the database, or, while a request is pending, promised by *)
(* nobody.                                                                  *)
LEMMA FactsReported ==
  ASSUME FactsInv, NEW new, acked' = acked \cup new, UNCHANGED <<path, saved, shared, restored>>,
         spent \subseteq spent', files[path].facts \subseteq files'[path].facts,
         Between => new \subseteq spent', new \subseteq files'[path].facts \cup spent', NoneMoves
  PROVE  FactsInv'
<1>1. Stored \subseteq Stored' /\ spent' \subseteq Stored'
  BY StoredGrows DEF Stored
<1>2. \A d \in Door : Pending(d) => Between
  BY DEF Pending, Between
<1>3. KeptInv'
  <2>1. acked' \subseteq files'[path'].facts \cup Stored'
    BY <1>1 DEF FactsInv, KeptInv
  <2>2. \A d \in Door : Pending(d)' => acked' \subseteq Stored'
    BY <1>1, <1>2 DEF FactsInv, KeptInv, NoneMoves
  <2>3. QED
    BY <2>1, <2>2 DEF KeptInv
<1>4. UndoneInv'
  <2>1. CASE restored \/ "undo" \in shared
    BY <2>1 DEF UndoneInv
  <2>2. CASE Undone
    <3>1. InPlace' = {} => InPlace = {}
      BY DEF NoneMoves, InPlace
    <3>2. InPlace' = {} => acked' \subseteq files'[path'].facts \cup spent'
      BY <2>2, <3>1 DEF Undone
    <3>3. \A d \in Door : Pending(d)' => acked' \subseteq door'[d].before \cup spent'
      BY <1>2, <2>2 DEF Undone, NoneMoves
    <3>4. QED
      BY <3>2, <3>3 DEF UndoneInv, Undone
  <2>3. QED
    BY <2>1, <2>2 DEF FactsInv, UndoneInv
<1>5. QED
  BY <1>3, <1>4 DEF FactsInv

(* What a step has shared stays so. *)
LEMMA SharedGrows == [RestoreNext]_restoreVars => shared \subseteq shared'
<1> SUFFICES ASSUME [RestoreNext]_restoreVars PROVE shared \subseteq shared'
  OBVIOUS
<1>1. CASE UNCHANGED restoreVars
  BY <1>1 DEF restoreVars, seenVars
<1>2. ASSUME NEW p \in Proc, Connects(p) \/ Commits(p) \/ \E f \in Fact : Begins(p, f)
      PROVE  shared \subseteq shared'
  BY <1>2 DEF Connects, Commits, Begins, seenVars
<1>3. ASSUME NEW m \in Monitor, Starts(m) \/ \E inOrder \in BOOLEAN : Leaves(m, inOrder)
      PROVE  shared \subseteq shared'
  BY <1>3 DEF Starts, Leaves, seenVars
<1>4. CASE PlaysJournal \/ BacksUp \/ \E b \in saved : DeletesBackup(b)
  BY <1>4 DEF PlaysJournal, BacksUp, DeletesBackup, seenVars
<1>5. ASSUME NEW d \in Door, NEW pick, CommandLooks(d, pick) \/ ImportLooks(d, pick) \/ ScriptLooks(d, pick)
      PROVE  shared \subseteq shared'
  BY <1>5 DEF CommandLooks, ImportLooks, ScriptLooks, LooksToRestore
<1>6. ASSUME NEW d \in Door, SavesFirst(d) \/ GivesUp(d) \/ CopyBegins(d) \/ CopyEnds(d) \/ RenamesShared(d)
      PROVE  shared \subseteq shared'
  BY <1>6 DEF SavesFirst, GivesUp, CopyBegins, CopyEnds, RenamesShared, seenVars
<1>7. ASSUME NEW d \in Door, \/ Stages(d) \/ Disposes(d) \/ Renames(d)
                             \/ SchemaEnsured(d) \/ SchemaFails(d) \/ RollsBack(d)
      PROVE  shared \subseteq shared'
  BY <1>7 DEF Stages, Disposes, Renames, SchemaEnsured, SchemaFails, RollsBack, seenVars
<1>8. ASSUME NEW d \in Door, \/ \E replaces \in BOOLEAN : MigrationBegins(d, replaces)
                             \/ \E batch \in SUBSET Fact : MigratesBatch(d, batch)
      PROVE  shared \subseteq shared'
  BY <1>8 DEF MigrationBegins, MigratesBatch
<1>9. ASSUME NEW d \in Door, SweepLooks(d) \/ Sweeps(d) \/ Tidies(d) \/ \E old \in SUBSET Monitor : TidyLooks(d, old)
      PROVE  shared \subseteq shared'
  BY <1>9 DEF SweepLooks, Sweeps, Tidies, TidyLooks, LooksToClean, Removes, seenVars
<1>10. QED
  BY <1>1, <1>2, <1>3, <1>4, <1>5, <1>6, <1>7, <1>8, <1>9 DEF RestoreNext

LEMMA FactsKept == RestoreSpec => [](FactsInv \/ "journal" \in shared)
<1>1. RestoreInit => FactsInv
  BY DEF RestoreInit, FactsInv, KeptInv, UndoneInv, Undone, Pending, NotCome, Stored
<1>2. Types /\ WholeInv /\ FactsInv /\ [RestoreNext]_restoreVars => FactsInv' \/ "journal" \in shared'
  <2> SUFFICES ASSUME Types, WholeInv, FactsInv, [RestoreNext]_restoreVars, "journal" \notin shared'
               PROVE  FactsInv'
    OBVIOUS
  <2>a. /\ made \in Nat /\ path \in 1..made /\ temp \in 0..made /\ path \in 1..MaxFile
        /\ \A d \in Door : door[d] \in Request(made)
        /\ \A n \in 1..MaxFile : files[n] \in Content
        /\ files \in [1..MaxFile -> Content] /\ DOMAIN door = Door
    BY RestoreAssumption DEF Types, DiskTyped, DoorsTyped
  <2>b. Over.at = "ended"
    BY DEF Over, NotCome
  <2>c. ASSUME UNCHANGED saved, spent \subseteq spent'
        PROVE  Stored \subseteq Stored'
    BY <2>c, StoredGrows
  <2>d. UNCHANGED door => NoneMoves
    BY DEF NoneMoves, InPlace, Pending
  <2>e. ASSUME NEW d \in Door, \A e \in Door \ {d} : door'[e] = door[e],
               door[d].at \notin {"replaced", "failing"} \/ door'[d].at \in {"replaced", "failing"},
               \/ door'[d].at \notin {"saved", "copying", "staged", "replaced", "failing"}
               \/ Pending(d) /\ door'[d].before = door[d].before
        PROVE  NoneMoves
    BY <2>e DEF NoneMoves, InPlace, Pending
  <2>1. ASSUME NEW p \in Proc, Connects(p) \/ \E f \in Fact : Begins(p, f)
        PROVE  FactsInv'
    BY <2>1, <2>c, <2>d, QuietForFacts DEF Connects, Begins, diskVars, seenVars
  <2>2. ASSUME NEW p \in Proc, Commits(p)
        PROVE  FactsInv'
    <3>1. /\ acked' = acked \cup {txn[p]} /\ UNCHANGED <<path, saved, shared, restored, door>>
          /\ spent' = IF Between \/ open[p] # path THEN spent \cup {txn[p]} ELSE spent
          /\ files' = [files EXCEPT ![open[p]].facts = @ \cup {txn[p]}]
      BY <2>2 DEF Commits
    <3>2. spent \subseteq spent' /\ (Between => {txn[p]} \subseteq spent')
      BY <3>1
    <3>3. files[path].facts \subseteq files'[path].facts
      BY <2>a, <3>1 DEF Content
    <3>4. {txn[p]} \subseteq files'[path].facts \cup spent'
      BY <2>a, <3>1 DEF Content
    <3>5. QED
      BY <2>d, <3>1, <3>2, <3>3, <3>4, FactsReported
  <2>3. ASSUME NEW m \in Monitor, Starts(m) \/ \E inOrder \in BOOLEAN : Leaves(m, inOrder)
        PROVE  FactsInv'
    <3>1. UNCHANGED <<files, path, saved, door, acked, spent, restored>> /\ shared \subseteq shared'
      BY <2>3 DEF Starts, Leaves, diskVars
    <3>2. QED
      BY <3>1, <2>c, <2>d, QuietForFacts
  <2>4. CASE BacksUp
    <3>1. saved \subseteq saved' /\ spent \subseteq spent' /\ UNCHANGED <<files, path, door, acked, shared, restored>>
      BY <2>4 DEF BacksUp, seenVars
    <3>2. Stored \subseteq Stored'
      BY <3>1, StoredGrows
    <3>3. QED
      BY <2>d, <3>1, <3>2, QuietForFacts
  <2>5. ASSUME NEW b \in saved, DeletesBackup(b)
        PROVE  FactsInv'
    <3>1. /\ saved' = saved \ {b} /\ spent' = spent \cup b.facts
          /\ UNCHANGED <<files, path, door, acked, shared, restored>>
      BY <2>5 DEF DeletesBackup
    <3>2. ASSUME NEW f \in Stored
          PROVE  f \in Stored'
      <4>1. f \in spent \/ \E c \in saved : f \in c.facts
        BY StoredIs
      <4>2. f \in spent' \/ \E c \in saved' : f \in c.facts
        BY <3>1, <4>1
      <4>3. QED
        BY <4>2 DEF Stored
    <3>3. QED
      BY <2>d, <3>1, <3>2, QuietForFacts
  <2>6. ASSUME NEW d \in Door, NEW pick, CommandLooks(d, pick) \/ ImportLooks(d, pick) \/ ScriptLooks(d, pick)
        PROVE  FactsInv'
    <3>1. PICK kind \in {"cli", "dashboard", "script"} : LooksToRestore(d, kind, pick)
      BY <2>6 DEF CommandLooks, ImportLooks, ScriptLooks
    <3>2. door'[d].at = "looked" /\ door[d].at = "idle" /\ \A e \in Door \ {d} : door'[e] = door[e]
      BY <2>a, <3>1 DEF LooksToRestore, NotCome
    <3>3. NoneMoves
      BY <2>e, <3>2
    <3>4. UNCHANGED <<diskVars, acked, spent, shared, restored>>
      BY <3>1 DEF LooksToRestore
    <3>5. QED
      BY <2>c, <3>3, <3>4, QuietForFacts DEF diskVars
  <2>7. ASSUME NEW d \in Door, SavesFirst(d)
        PROVE  FactsInv'
    <3>1. /\ door'[d].at = "saved" /\ door'[d].before = files[path].facts
          /\ door[d].at = "looked" /\ \A e \in Door \ {d} : door'[e] = door[e]
      BY <2>7, <2>a DEF SavesFirst, Request
    <3>2. /\ saved' = saved \cup {files[path]} /\ UNCHANGED <<files, path, acked, spent, restored>>
          /\ shared' = IF InPlace # {} THEN shared \cup {"undo"} ELSE shared
      BY <2>7 DEF SavesFirst, Backup
    <3>3. files[path].facts \subseteq Stored' /\ Stored \subseteq Stored'
      <4>1. files[path] \in saved' /\ saved \subseteq saved' /\ spent \subseteq spent'
        BY <3>2
      <4>2. Stored \subseteq Stored'
        BY <4>1, StoredGrows
      <4>3. ASSUME NEW f \in files[path].facts
            PROVE  f \in Stored'
        BY <4>1 DEF Stored
      <4>4. QED
        BY <4>2, <4>3
    <3>4. KeptInv'
      BY <3>2, <3>3 DEF FactsInv, KeptInv
    <3>5. UndoneInv'
      <4>1. CASE restored \/ "undo" \in shared \/ InPlace # {}
        BY <3>2, <4>1 DEF UndoneInv
      <4>2. CASE Undone /\ InPlace = {}
        <5>1. acked' \subseteq files'[path'].facts \cup spent'
          BY <3>2, <4>2 DEF Undone
        <5>2. \A e \in Door : Pending(e)' => acked' \subseteq door'[e].before \cup spent'
          BY <3>1, <3>2, <4>2 DEF Undone, Pending
        <5>3. QED
          BY <5>1, <5>2 DEF UndoneInv, Undone
      <4>3. QED
        BY <4>1, <4>2 DEF FactsInv, UndoneInv
    <3>6. QED
      BY <3>4, <3>5 DEF FactsInv
  <2>8. ASSUME NEW d \in Door, GivesUp(d)
        PROVE  FactsInv'
    <3>1. door'[d].at = "ended" /\ \A e \in Door \ {d} : door'[e] = door[e]
      BY <2>8, <2>a, <2>b DEF GivesUp
    <3>2. /\ saved \subseteq saved' /\ UNCHANGED <<files, path, acked, spent, shared>>
          /\ (restored => restored') /\ (door[d].at \in {"replaced", "failing"} => restored')
      BY <2>8 DEF GivesUp
    <3>3. Stored \subseteq Stored'
      BY <3>2, StoredGrows
    <3>4. restored' \/ NoneMoves
      BY <2>e, <3>1, <3>2
    <3>5. \A e \in Door : Pending(e)' => Pending(e)
      BY <3>1 DEF Pending
    <3>6. KeptInv'
      BY <3>2, <3>3, <3>5, KeptStays DEF FactsInv
    <3>7. UndoneInv'
      BY <3>2, <3>4, UndoneStays DEF FactsInv
    <3>8. QED
      BY <3>6, <3>7 DEF FactsInv
  <2>9. ASSUME NEW d \in Door, SchemaEnsured(d)
        PROVE  FactsInv'
    <3>1. door'[d].at = "ended" /\ \A e \in Door \ {d} : door'[e] = door[e]
      BY <2>9, <2>a, <2>b DEF SchemaEnsured
    <3>2. UNCHANGED <<files, path, saved, acked, spent, shared>> /\ restored'
      BY <2>9 DEF SchemaEnsured, diskVars
    <3>3. KeptInv'
      BY <2>c, <3>1, <3>2, KeptStays DEF FactsInv, Pending
    <3>4. UndoneInv'
      BY <3>2 DEF UndoneInv
    <3>5. QED
      BY <3>3, <3>4 DEF FactsInv
  <2>10. ASSUME NEW d \in Door, SchemaFails(d)
         PROVE  FactsInv'
    <3>1. /\ door'[d].at = "failing" /\ door'[d].before = door[d].before
          /\ door[d].at = "replaced" /\ \A e \in Door \ {d} : door'[e] = door[e]
      BY <2>10, <2>a DEF SchemaFails, At, Request
    <3>2. NoneMoves
      BY <2>e, <3>1 DEF Pending
    <3>3. QED
      BY <2>10, <2>c, <3>2, QuietForFacts DEF SchemaFails, diskVars, seenVars
  <2>11. ASSUME NEW d \in Door, CopyBegins(d)
         PROVE  FactsInv'
    <3>1. /\ door'[d].at = "copying" /\ door'[d].before = door[d].before
          /\ door[d].at = "saved" /\ \A e \in Door \ {d} : door'[e] = door[e]
      BY <2>11, <2>a DEF CopyBegins, Request
    <3>2. NoneMoves
      BY <2>e, <3>1 DEF Pending
    <3>3. files'[path] = files[path]
      <4>1. temp # path /\ path # made + 1
        BY <2>a DEF WholeInv, Places
      <4>2. \E n \in {temp, made + 1} : files' = [files EXCEPT ![n] = Empty("torn")]
        BY <2>11 DEF CopyBegins, NewFile
      <4>3. QED
        BY <2>a, <4>1, <4>2
    <3>4. UNCHANGED <<path, saved, acked, spent, restored>> /\ shared \subseteq shared'
      BY <2>11 DEF CopyBegins
    <3>5. QED
      BY <2>c, <3>2, <3>3, <3>4, QuietForFacts
  <2>12. ASSUME NEW d \in Door, CopyEnds(d)
         PROVE  FactsInv'
    <3>1. /\ door'[d].at = "staged" /\ door'[d].before = door[d].before
          /\ door[d].at = "copying" /\ \A e \in Door \ {d} : door'[e] = door[e]
      BY <2>12, <2>a DEF CopyEnds, At, Request
    <3>2. NoneMoves /\ Pending(d)
      BY <2>e, <3>1 DEF Pending
    <3>3. /\ UNCHANGED <<path, saved, acked, spent, shared, restored>>
          /\ files' = [files EXCEPT ![door[d].mine] = door[d].pick]
      BY <2>12 DEF CopyEnds, seenVars
    <3>4. restored \/ files'[path] = files[path]
      <4>1. door[d].mine = path => restored
        BY <3>1 DEF WholeInv, Places, Private, Using
      <4>2. QED
        BY <2>a, <3>3, <4>1
    <3>5. KeptInv'
      BY <2>c, <3>2, <3>3, KeptStays DEF FactsInv, NoneMoves
    <3>6. UndoneInv'
      BY <3>2, <3>3, <3>4, UndoneStays DEF FactsInv
    <3>7. QED
      BY <3>5, <3>6 DEF FactsInv
  <2>13. ASSUME NEW d \in Door, Stages(d)
         PROVE  FactsInv'
    <3>1. /\ door'[d].at = "staged" /\ door'[d].before = door[d].before
          /\ door[d].at = "saved" /\ \A e \in Door \ {d} : door'[e] = door[e]
      BY <2>13, <2>a DEF Stages, Request
    <3>2. NoneMoves
      BY <2>e, <3>1 DEF Pending
    <3>3. files'[path] = files[path]
      <4>1. files' = [files EXCEPT ![made + 1] = door[d].pick] /\ path # made + 1
        BY <2>13, <2>a DEF Stages, NewFile
      <4>2. QED
        BY <2>a, <4>1
    <3>4. UNCHANGED <<path, saved, acked, spent, shared, restored>>
      BY <2>13 DEF Stages, seenVars
    <3>5. QED
      BY <2>c, <3>2, <3>3, <3>4, QuietForFacts
  <2>14. ASSUME NEW d \in Door, Disposes(d)
         PROVE  FactsInv'
    BY <2>14, <2>c, <2>d, QuietForFacts DEF Disposes, diskVars, seenVars
  <2>15. ASSUME NEW d \in Door, RenamesShared(d)
         PROVE  FactsInv'
    <3>1. /\ door'[d].at = "ended" /\ door[d].at = "staged" /\ Pending(d)
          /\ \A e \in Door \ {d} : door'[e] = door[e]
      BY <2>15, <2>a, <2>b DEF RenamesShared, Pending
    <3>2. NoneMoves
      BY <2>e, <3>1
    <3>3. UNCHANGED <<files, saved, acked, spent, shared>> /\ (restored => restored') /\ (restored' \/ path' = path)
      BY <2>15 DEF RenamesShared
    <3>4. KeptInv'
      BY <2>c, <3>1, <3>2, <3>3, KeptStays DEF FactsInv, NoneMoves
    <3>5. UndoneInv'
      BY <3>2, <3>3, UndoneStays DEF FactsInv
    <3>6. QED
      BY <3>4, <3>5 DEF FactsInv
  <2>16. ASSUME NEW d \in Door, Renames(d)
         PROVE  FactsInv'
    <3>1. /\ door[d].at = "staged" /\ Pending(d) /\ \A e \in Door \ {d} : door'[e] = door[e]
          /\ UNCHANGED <<files, saved, acked, spent, shared>> /\ (restored => restored')
      BY <2>16, <2>a DEF Renames, Pending, At
    <3>2. restored' \/ (door'[d].at = "replaced" /\ door'[d].before = door[d].before)
      BY <2>16, <2>a DEF Renames, At, Request
    <3>3. \A e \in Door : Pending(e)' => Pending(e)
      BY <3>1 DEF Pending
    <3>4. KeptInv'
      BY <2>c, <3>1, <3>3, KeptStays DEF FactsInv
    <3>5. UndoneInv'
      <4>1. CASE restored' \/ "undo" \in shared
        BY <3>1, <4>1 DEF UndoneInv
      <4>2. CASE Undone /\ ~restored'
        <5>1. d \in InPlace'
          BY <3>2, <4>2 DEF InPlace
        <5>2. \A e \in Door : Pending(e)' => acked' \subseteq door'[e].before \cup spent'
          BY <3>1, <3>2, <4>2 DEF Undone, Pending
        <5>3. QED
          BY <5>1, <5>2 DEF UndoneInv, Undone
      <4>3. QED
        BY <3>1, <4>1, <4>2 DEF FactsInv, UndoneInv
    <3>6. QED
      BY <3>4, <3>5 DEF FactsInv
  <2>17. ASSUME NEW d \in Door, RollsBack(d)
         PROVE  FactsInv'
    <3>1. /\ door'[d].at = "ended" /\ door[d].at = "failing" /\ Pending(d)
          /\ \A e \in Door \ {d} : door'[e] = door[e]
      BY <2>17, <2>a, <2>b DEF RollsBack, Pending
    <3>2. UNCHANGED <<saved, acked, spent, shared, restored>>
      BY <2>17 DEF RollsBack, seenVars
    <3>3. files'[path'].facts = door[d].before
      <4>1. /\ files' = [files EXCEPT ![made + 1] = [facts |-> door[d].before, form |-> "ours"]]
            /\ made < MaxFile /\ path' = made + 1
        BY <2>17 DEF RollsBack, NewFile
      <4>2. made + 1 \in 1..MaxFile
        BY <2>a, <4>1, RestoreAssumption
      <4>3. files'[path'] = [facts |-> door[d].before, form |-> "ours"]
        BY <2>a, <4>1, <4>2
      <4>4. QED
        BY <4>3
    <3>4. \A e \in Door : Pending(e)' => Pending(e) /\ door'[e].before = door[e].before
      BY <3>1 DEF Pending
    <3>5. KeptInv'
      BY <2>c, <3>1, <3>2, <3>4, KeptStays DEF FactsInv
    <3>6. UndoneInv'
      <4>1. CASE restored \/ "undo" \in shared
        BY <3>2, <4>1 DEF UndoneInv
      <4>2. CASE Undone
        <5>1. acked' \subseteq files'[path'].facts \cup spent'
          BY <3>1, <3>2, <3>3, <4>2 DEF Undone
        <5>2. \A e \in Door : Pending(e)' => acked' \subseteq door'[e].before \cup spent'
          BY <3>2, <3>4, <4>2 DEF Undone
        <5>3. QED
          BY <5>1, <5>2 DEF UndoneInv, Undone
      <4>3. QED
        BY <4>1, <4>2 DEF FactsInv, UndoneInv
    <3>7. QED
      BY <3>5, <3>6 DEF FactsInv
  <2>18. ASSUME NEW d \in Door, NEW replaces \in BOOLEAN, MigrationBegins(d, replaces)
         PROVE  FactsInv'
    <3>1. door'[d].at = "migrating" /\ door[d].at = "idle" /\ \A e \in Door \ {d} : door'[e] = door[e]
      BY <2>18, <2>a DEF MigrationBegins, NotCome
    <3>2. NoneMoves
      BY <2>e, <3>1
    <3>3. UNCHANGED <<path, saved, acked, shared, restored>> /\ spent \subseteq spent'
      BY <2>18 DEF MigrationBegins
    <3>4. files[path].facts \subseteq files'[path'].facts \cup spent'
      BY <2>18 DEF MigrationBegins
    <3>5. QED
      BY <2>c, <3>2, <3>3, <3>4, QuietForFacts
  <2>19. ASSUME NEW d \in Door, NEW batch \in SUBSET Fact, MigratesBatch(d, batch)
         PROVE  FactsInv'
    <3>1. door'[d].at = "ended" /\ door[d].at = "migrating" /\ \A e \in Door \ {d} : door'[e] = door[e]
      BY <2>19, <2>a, <2>b DEF MigratesBatch
    <3>2. NoneMoves
      BY <2>e, <3>1
    <3>3. /\ acked' = acked \cup batch /\ UNCHANGED <<path, saved, shared, restored>>
          /\ spent' = IF Between THEN spent \cup batch ELSE spent
          /\ files' = [files EXCEPT ![path].facts = @ \cup batch]
      BY <2>19 DEF MigratesBatch
    <3>4. files'[path].facts = files[path].facts \cup batch
      BY <2>a, <3>3 DEF Content
    <3>5. spent \subseteq spent' /\ (Between => batch \subseteq spent')
      BY <3>3
    <3>6. QED
      BY <3>2, <3>3, <3>4, <3>5, FactsReported
  <2>20. ASSUME NEW d \in Door, NEW old, SweepLooks(d) \/ TidyLooks(d, old)
         PROVE  FactsInv'
    <3>1. PICK kind, list : LooksToClean(d, kind, list)
      BY <2>20 DEF SweepLooks, TidyLooks
    <3>2. door'[d].at = "cleaning" /\ door[d].at = "idle" /\ \A e \in Door \ {d} : door'[e] = door[e]
      BY <3>1, <2>a DEF LooksToClean, NotCome
    <3>3. NoneMoves
      BY <2>e, <3>2
    <3>4. UNCHANGED <<diskVars, acked, spent, shared, restored>>
      BY <3>1 DEF LooksToClean
    <3>5. QED
      BY <2>c, <3>3, <3>4, QuietForFacts DEF diskVars
  <2>21. ASSUME NEW d \in Door, Sweeps(d) \/ Tidies(d)
         PROVE  FactsInv'
    <3>1. door'[d].at = "ended" /\ door[d].at = "cleaning" /\ \A e \in Door \ {d} : door'[e] = door[e]
      BY <2>21, <2>a, <2>b DEF Sweeps, Tidies, Removes
    <3>2. NoneMoves
      BY <2>e, <3>1
    <3>3. UNCHANGED <<diskVars, seenVars>>
      BY <2>21 DEF Sweeps, Tidies, Removes
    <3>4. QED
      BY <2>c, <3>2, <3>3, QuietForFacts DEF diskVars, seenVars
  <2>22. CASE UNCHANGED restoreVars
    BY <2>22, <2>c, <2>d, QuietForFacts DEF restoreVars, diskVars, seenVars
  <2>23. CASE PlaysJournal
    <3>1. UNCHANGED <<files, path, saved, door, acked, spent, shared, restored>>
      BY <2>23 DEF PlaysJournal
    <3>2. QED
      BY <3>1, <2>c, <2>d, QuietForFacts
  <2>24. QED
    BY <2>1, <2>2, <2>3, <2>4, <2>5, <2>6, <2>7, <2>8, <2>9, <2>10, <2>11, <2>12, <2>13, <2>14,
       <2>15, <2>16, <2>17, <2>18, <2>19, <2>20, <2>21, <2>22, <2>23 DEF RestoreNext
<1>3. "journal" \in shared /\ [RestoreNext]_restoreVars => "journal" \in shared'
  BY SharedGrows
<1> DEFINE Inv == FactsInv \/ "journal" \in shared
<1>4. RestoreInit => Inv
  BY <1>1
<1>5. Types /\ WholeInv /\ Inv /\ [RestoreNext]_restoreVars => Inv'
  BY <1>2, <1>3
<1> HIDE DEF Inv
<1>6. RestoreSpec => []Inv
  BY <1>4, <1>5, TypesKept, FilesKept, PTL DEF RestoreSpec
<1>7. QED
  BY <1>6 DEF Inv

-----------------------------------------------------------------------------
(* Whatever backups, restores, migrations and writers do to each other and    *)
(* wherever they are cut off: the database is no half-written copy, nothing a *)
(* process was told is stored is lost, and a restore that reports a failure,  *)
(* or is given up before it put its file in place, takes nothing away.  The   *)
(* exceptions, of which the journal of one file that is used for another is   *)
(* the widest, are those that the three properties name.                      *)
THEOREM DatabaseIsSound == RestoreSpec => []DatabaseSound
<1>1. Types => RestoreTypeOK
  BY RestoreAssumption DEF Types, DiskTyped, ProcsTyped, DoorsTyped, SeenTyped, Request, RestoreTypeOK
<1>2. WholeInv => DatabaseWhole
  BY DEF WholeInv, Copies, DatabaseWhole
<1>3. FactsInv \/ "journal" \in shared => NothingLost
  BY DEF FactsInv, KeptInv, Stored, NothingLost
<1>4. FactsInv \/ "journal" \in shared => FailedRestoreUndone
  BY DEF FactsInv, UndoneInv, Undone, FailedRestoreUndone
<1>5. QED
  BY <1>1, <1>2, <1>3, <1>4, TypesKept, FilesKept, FactsKept, PTL DEF DatabaseSound
=============================================================================
