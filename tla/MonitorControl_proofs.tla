------------------------- MODULE MonitorControl_proofs -------------------------
(***************************************************************************)
(* Proofs about the start protocol, for any sets of start requests,        *)
(* processes and process numbers that satisfy ClaimAssumption.             *)
(***************************************************************************)
EXTENDS MonitorControl, TLAPS

(* What the operations write into the claim file is a claim. *)
LEMMA ClaimsAreTyped ==
  ASSUME pid \in [Process -> Pid \cup {NoPid}]
  PROVE  /\ NoClaim \in Claim
         /\ \A s \in Start : Starting(s) \in Claim
         /\ \A p \in Process : Running(p) \in Claim
<1>1. NoClaim \in Claim
  BY DEF NoClaim, Claim, Token
<1>2. ASSUME NEW s \in Start
      PROVE  Starting(s) \in Claim
  BY <1>1 DEF Starting, Claim, Token
<1>3. ASSUME NEW p \in Process
      PROVE  Running(p) \in Claim
  BY <1>1, pid[p] \in Pid \cup {NoPid} DEF Running, Claim
<1>4. QED
  BY <1>1, <1>2, <1>3

(* Every step keeps every variable in its type. *)
LEMMA TypeStep == TypeOK /\ [Next]_vars => TypeOK'
<1> USE DEF TypeOK
<1> SUFFICES ASSUME TypeOK, [Next]_vars
             PROVE  TypeOK'
  OBVIOUS
<1> USE DEF LauncherState, ProcessState
<1>1. ASSUME NEW s \in Start, Reserve(s)
      PROVE  TypeOK'
  BY <1>1, ClaimsAreTyped DEF Reserve
<1>2. ASSUME NEW s \in Start, Spawn(s)
      PROVE  TypeOK'
  BY <1>2 DEF Spawn, Fork, Process, Token
<1>3. ASSUME NEW s \in Start, ClaimSeen(s)
      PROVE  TypeOK'
  BY <1>3 DEF ClaimSeen
<1>4. ASSUME NEW s \in Start, Abandon(s)
      PROVE  TypeOK'
  BY <1>4, ClaimsAreTyped DEF Abandon, Abandoned
<1>5. ASSUME NEW s \in Start, KillChild(s)
      PROVE  TypeOK'
  BY <1>5 DEF KillChild, Death, Process
<1>6. ASSUME NEW s \in Start, LauncherCrash(s)
      PROVE  TypeOK'
  BY <1>6 DEF LauncherCrash
<1>7. ASSUME NEW m \in Manual, LaunchManual(m)
      PROVE  TypeOK'
  BY <1>7, ClaimAssumption DEF LaunchManual, Fork, Process, Token
<1>8. ASSUME NEW p \in Process, Activate(p)
      PROVE  TypeOK'
  BY <1>8, ClaimsAreTyped DEF Activate
<1>9. ASSUME NEW p \in Process, Adopt(p)
      PROVE  TypeOK'
  BY <1>9, ClaimsAreTyped DEF Adopt
<1>10. ASSUME NEW p \in Process, Release(p)
      PROVE  TypeOK'
  BY <1>10, ClaimsAreTyped DEF Release
<1>11. ASSUME NEW p \in Process, Exit(p)
      PROVE  TypeOK'
  BY <1>11 DEF Exit
<1>12. ASSUME NEW p \in Process, Die(p)
      PROVE  TypeOK'
  BY <1>12 DEF Die, Death
<1>13. CASE Expire
  BY <1>13 DEF Expire, Claim
<1>14. CASE UNCHANGED vars
  BY <1>14 DEF vars
<1>15. QED
  BY <1>1, <1>2, <1>3, <1>4, <1>5, <1>6, <1>7, <1>8, <1>9, <1>10, <1>11,
     <1>12, <1>13, <1>14 DEF Next, Launcher

(* So every variable keeps its type. *)
LEMMA TypeCorrect == Spec => []TypeOK
<1> USE DEF TypeOK
<1>1. Init => TypeOK
  BY ClaimsAreTyped DEF Init, LauncherState, ProcessState, Token
<1>2. TypeOK /\ [Next]_vars => TypeOK'
  BY TypeStep
<1>3. QED
  BY <1>1, <1>2, PTL DEF Spec

(* Live processes have numbers, and no two the same: what the kernel promises, *)
(* and what lets activate_claim compare numbers once process_matches held.     *)
PidsDistinct ==
    /\ \A p \in Alive : pid[p] \in Pid
    /\ \A p, q \in Alive : pid[p] = pid[q] => p = q

(* Ownership follows from the claim file's content: OwnerNamed alone is not   *)
(* inductive, since activation and release compare numbers, not processes.    *)
ClaimInv == TypeOK /\ PidsDistinct /\ OwnerNamed

(* A live owner is seen through the claim file. *)
LEMMA OwnerIsSeen ==
  ASSUME ClaimInv, NEW p \in Owners
  PROVE  /\ ClaimRuns
         /\ ~ClaimStarts
         /\ claim.pid = pid[p]
         /\ p \in Alive
<1>1. p \in Alive /\ pid[p] \in Pid
  BY DEF ClaimInv, PidsDistinct, Owners, Alive
<1>2. claim = Running(p)
  BY DEF ClaimInv, OwnerNamed
<1>3. claim.state = "running" /\ claim.pid = pid[p] /\ claim.born = p
  BY <1>2 DEF Running, NoClaim
<1>4. ClaimRuns
  BY <1>1, <1>3 DEF ClaimRuns, Matches
<1>5. QED
  BY <1>1, <1>3, <1>4 DEF ClaimStarts

(* So activate_claim accepts, of all live processes, the owner only. *)
LEMMA OwnerExcludes ==
  ASSUME ClaimInv, NEW p \in Owners, NEW q \in Alive, NEW t, Accepts(q, t)
  PROVE  q = p
BY OwnerIsSeen DEF ClaimInv, PidsDistinct, Accepts

(* Every step keeps the numbers distinct and the owner named. *)
LEMMA ClaimStep == ClaimInv /\ TypeOK' /\ [Next]_vars => ClaimInv'
<1> SUFFICES ASSUME ClaimInv, TypeOK', [Next]_vars
             PROVE  PidsDistinct' /\ OwnerNamed'
  BY DEF ClaimInv
<1> USE DEF ClaimInv, TypeOK
<1>1. ASSUME NEW s \in Start, Reserve(s)
      PROVE  PidsDistinct' /\ OwnerNamed'
  <2>1. PidsDistinct'
    BY <1>1 DEF Reserve, PidsDistinct, Alive
  <2>2. OwnerNamed'
    BY <1>1, OwnerIsSeen
       DEF Reserve, OwnerNamed, Owners, Active, Running
  <2>3. QED
    BY <2>1, <2>2
<1>2. ASSUME NEW p \in Process, NEW t \in Token, Fork(p, t), claim' = claim
      PROVE  PidsDistinct' /\ OwnerNamed'
  <2>1. PidsDistinct'
    BY <1>2 DEF Fork, PidsDistinct, Alive
  <2>2. OwnerNamed'
    BY <1>2 DEF Fork, OwnerNamed, Owners, Running
  <2>3. QED
    BY <2>1, <2>2
<1>3. ASSUME NEW s \in Start, ClaimSeen(s) \/ LauncherCrash(s)
      PROVE  PidsDistinct' /\ OwnerNamed'
  BY <1>3 DEF ClaimSeen, LauncherCrash, PidsDistinct, Alive, OwnerNamed, Owners, Running
<1>4. ASSUME NEW s \in Start, Abandon(s)
      PROVE  PidsDistinct' /\ OwnerNamed'
  BY <1>4 DEF Abandon, Abandoned, PidsDistinct, Alive, OwnerNamed, Owners, Running, NoClaim
<1>5. ASSUME NEW p \in Process, Death(p), claim' = claim
      PROVE  PidsDistinct' /\ OwnerNamed'
  BY <1>5 DEF Death, PidsDistinct, Alive, OwnerNamed, Owners, Running
<1>6. ASSUME NEW p \in Process, Activate(p)
      PROVE  PidsDistinct' /\ OwnerNamed'
  <2>1. PidsDistinct'
    BY <1>6 DEF Activate, PidsDistinct, Alive
  <2>2. OwnerNamed'
    <3>1. CASE Accepts(p, carried[p])
      <4>1. Owners = {}
        BY <1>6, <3>1, OwnerExcludes DEF Activate, Owners, Alive
      <4>2. Owners' = {p}
        BY <1>6, <3>1, <4>1 DEF Activate, Owners
      <4>3. QED
        BY <1>6, <3>1, <4>2 DEF Activate, OwnerNamed, Running
    <3>2. CASE ~Accepts(p, carried[p])
      BY <1>6, <3>2 DEF Activate, OwnerNamed, Owners, Running
    <3>3. QED
      BY <3>1, <3>2
  <2>3. QED
    BY <2>1, <2>2
<1>7. ASSUME NEW p \in Process, Adopt(p)
      PROVE  PidsDistinct' /\ OwnerNamed'
  <2>1. PidsDistinct'
    BY <1>7 DEF Adopt, PidsDistinct, Alive
  <2>2. \A q \in Owners : q = p
    BY <1>7, OwnerExcludes DEF Adopt, Alive
  <2>3. OwnerNamed'
    BY <1>7, <2>2 DEF Adopt, OwnerNamed, Owners, Running
  <2>4. QED
    BY <2>1, <2>3
<1>8. ASSUME NEW p \in Process, Release(p)
      PROVE  PidsDistinct' /\ OwnerNamed'
  <2>1. PidsDistinct'
    BY <1>8 DEF Release, PidsDistinct, Alive
  <2>2. \A q \in Owners : q = p
    <3>1. p \in Owners
      BY <1>8 DEF Release, Owners
    <3>2. QED
      BY <3>1, OwnerIsSeen DEF PidsDistinct
  <2>3. OwnerNamed'
    BY <1>8, <2>2 DEF Release, OwnerNamed, Owners, Running
  <2>4. QED
    BY <2>1, <2>3
<1>9. ASSUME NEW p \in Process, Exit(p)
      PROVE  PidsDistinct' /\ OwnerNamed'
  BY <1>9 DEF Exit, PidsDistinct, Alive, OwnerNamed, Owners, Running
<1>10. CASE Expire
  <2>1. Owners = {}
    BY <1>10, OwnerIsSeen DEF Expire
  <2>2. QED
    BY <1>10, <2>1 DEF Expire, PidsDistinct, Alive, OwnerNamed, Owners
<1>11. CASE UNCHANGED vars
  <2>1. PidsDistinct'
    BY <1>11 DEF vars, PidsDistinct, Alive
  <2>2. OwnerNamed'
    BY <1>11 DEF vars, OwnerNamed, Owners, Running
  <2>3. QED
    BY <2>1, <2>2
<1>12. ASSUME NEW s \in Start, Spawn(s)
      PROVE  PidsDistinct' /\ OwnerNamed'
  BY <1>2, <1>12 DEF Spawn, Process, Token
<1>13. ASSUME NEW m \in Manual, LaunchManual(m)
      PROVE  PidsDistinct' /\ OwnerNamed'
  BY <1>2, <1>13, ClaimAssumption DEF LaunchManual, Process, Token
<1>14. ASSUME NEW s \in Start, KillChild(s)
      PROVE  PidsDistinct' /\ OwnerNamed'
  <2>1. CASE s \in Direct \cap Alive
    BY <1>5, <1>14, <2>1 DEF KillChild, Process
  <2>2. CASE s \notin Direct \cap Alive
    BY <1>14, <2>2 DEF KillChild, PidsDistinct, Alive, OwnerNamed, Owners, Running
  <2>3. QED
    BY <2>1, <2>2
<1>15. ASSUME NEW p \in Process, Die(p)
      PROVE  PidsDistinct' /\ OwnerNamed'
  BY <1>5, <1>15 DEF Die
<1>16. QED
  BY <1>1, <1>3, <1>4, <1>6, <1>7, <1>8, <1>9, <1>10, <1>11, <1>12, <1>13,
     <1>14, <1>15 DEF Next, Launcher

THEOREM ClaimInvariant == Spec => []ClaimInv
<1>1. Init => ClaimInv
  BY ClaimAssumption
     DEF Init, ClaimInv, TypeOK, PidsDistinct, OwnerNamed, Owners, Alive, Claim,
         NoClaim, LauncherState, ProcessState, Token, Process
<1>2. ClaimInv /\ TypeOK' /\ [Next]_vars => ClaimInv'
  BY ClaimStep
<1>3. QED
  BY <1>1, <1>2, TypeCorrect, PTL DEF Spec

(* For every number of concurrent starts, manual launches, crashes and reused *)
(* process numbers, at most one live process runs the monitor.                *)
THEOREM ExclusiveOwner == Spec => []OneOwner
<1>1. ClaimInv => OneOwner
  BY OwnerIsSeen DEF OneOwner, ClaimInv, PidsDistinct
<1>2. QED
  BY <1>1, ClaimInvariant, PTL

(* The claim file has its shape and names the live owner in every state. *)
THEOREM OwnerStaysNamed == Spec => []ClaimSound
<1>1. ClaimInv => ClaimSound
  BY DEF ClaimInv, ClaimSound
<1>2. QED
  BY <1>1, ClaimInvariant, PTL

(* A step moves at most one process, and only along launched, owner, released, *)
(* gone: so the owners and those that have run change as MonitorOwnership says.*)
THEOREM ClaimImplementsOwnership == Spec => OwnershipSpec
<1> DEFINE Past == HasRun \ Owners
<1>1. Init => Ownership!Init
  BY DEF Init, Ownership!Init, Owners, HasRun
<1>2. ClaimInv /\ [Next]_vars => [Ownership!Next]_<<Owners, Past>>
  <2> SUFFICES ASSUME ClaimInv, [Next]_vars
               PROVE  Ownership!Next \/ UNCHANGED <<Owners, Past>>
    OBVIOUS
  <2> USE DEF ClaimInv, TypeOK
  <2>1. ASSUME proc' = proc
        PROVE  UNCHANGED <<Owners, Past>>
    BY <2>1 DEF Owners, HasRun
  <2>2. ASSUME NEW p \in Process, NEW t, Fork(p, t)
        PROVE  UNCHANGED <<Owners, Past>>
    BY <2>2 DEF Fork, Owners, HasRun
  <2>3. ASSUME NEW p \in Alive, Death(p)
        PROVE  Ownership!Next \/ UNCHANGED <<Owners, Past>>
    <3>1. CASE p \in Owners
      <4>1. Owners' = Owners \ {p} /\ Past' = Past \cup {p}
        BY <2>3, <3>1 DEF Death, Owners, HasRun
      <4>2. Ownership!End(p)
        BY <3>1, <4>1 DEF Ownership!End
      <4>3. QED
        BY <4>2 DEF Ownership!Next, Alive
    <3>2. CASE p \notin Owners
      BY <2>3, <3>2 DEF Death, Alive, Owners, HasRun
    <3>3. QED
      BY <3>1, <3>2
  <2>4. ASSUME NEW p \in Process, Activate(p)
        PROVE  Ownership!Next \/ UNCHANGED <<Owners, Past>>
    <3>1. CASE Accepts(p, carried[p])
      <4>1. Owners = {} /\ p \notin Past
        BY <2>4, <3>1, OwnerExcludes DEF Activate, Owners, Alive, HasRun
      <4>2. Owners' = {p} /\ Past' = Past
        BY <2>4, <3>1, <4>1 DEF Activate, Owners, HasRun
      <4>3. Ownership!Begin(p)
        BY <4>1, <4>2 DEF Ownership!Begin
      <4>4. QED
        BY <4>3 DEF Ownership!Next
    <3>2. CASE ~Accepts(p, carried[p])
      BY <2>4, <3>2 DEF Activate, Owners, HasRun
    <3>3. QED
      BY <3>1, <3>2
  <2>5. ASSUME NEW p \in Process, Release(p)
        PROVE  Ownership!Next \/ UNCHANGED <<Owners, Past>>
    <3>1. p \in Owners /\ Owners' = Owners \ {p} /\ Past' = Past \cup {p}
      BY <2>5 DEF Release, Owners, HasRun
    <3>2. Ownership!End(p)
      BY <3>1 DEF Ownership!End
    <3>3. QED
      BY <3>2 DEF Ownership!Next
  <2>6. ASSUME NEW p \in Process, Exit(p)
        PROVE  UNCHANGED <<Owners, Past>>
    BY <2>6 DEF Exit, Owners, HasRun
  <2>7. ASSUME NEW s \in Start, KillChild(s)
        PROVE  Ownership!Next \/ UNCHANGED <<Owners, Past>>
    BY <2>1, <2>3, <2>7 DEF KillChild
  <2>8. ASSUME NEW s \in Start, Spawn(s)
        PROVE  UNCHANGED <<Owners, Past>>
    BY <2>2, <2>8 DEF Spawn, Process
  <2>9. ASSUME NEW m \in Manual, LaunchManual(m)
        PROVE  UNCHANGED <<Owners, Past>>
    BY <2>2, <2>9 DEF LaunchManual, Process
  <2>10. ASSUME NEW p \in Process, Die(p)
         PROVE  Ownership!Next \/ UNCHANGED <<Owners, Past>>
    BY <2>3, <2>10 DEF Die
  <2>11. QED
    BY <2>1, <2>4, <2>5, <2>6, <2>7, <2>8, <2>9, <2>10
       DEF Next, Launcher, Reserve, ClaimSeen, Abandon, LauncherCrash, Adopt,
           Expire, vars
<1>3. QED
  BY <1>1, <1>2, ClaimInvariant, PTL DEF Spec, OwnershipSpec, Ownership!Spec
-----------------------------------------------------------------------------
(* The launchers.  The token of a direct start is carried by its child alone, *)
(* and until that child has run, the claim stays the reservation of the start: *)
(* so the running claim its launcher sees later was made after it had run.     *)
TokensCarried == \A p \in Process : carried[p] \in Direct => carried[p] = p

ReservationsHold ==
    \A s \in Direct : pc[s] \in {"reserved", "waiting"} /\ s \notin HasRun => claim = Starting(s)

LaunchInv == TokensCarried /\ ReservationsHold /\ SuccessIsOwn /\ FailureIsClean

(* A claim that is the reservation of a direct start refuses all but its child. *)
LEMMA ReservationExcludes ==
  ASSUME ClaimInv, NEW s \in Direct, claim = Starting(s)
  PROVE  /\ ClaimStarts /\ ~ClaimRuns /\ Active
         /\ Owners = {}
         /\ \A p, t : Accepts(p, t) => t = s
<1>1. claim.state = "starting" /\ claim.fresh /\ claim.token = s
  BY DEF Starting, NoClaim
<1>2. ClaimStarts /\ ~ClaimRuns
  BY <1>1 DEF ClaimStarts, ClaimRuns
<1>3. Owners = {}
  BY <1>2, OwnerIsSeen
<1>4. QED
  BY <1>1, <1>2, <1>3 DEF Active, Accepts

(* Who has run stays among those that have. *)
LEMMA HasRunStays ==
  ASSUME TypeOK, NEW p \in Process,
         Activate(p) \/ Release(p) \/ Exit(p) \/ Death(p)
  PROVE  HasRun \subseteq HasRun'
BY DEF TypeOK, Activate, Release, Exit, Death, HasRun

(* A step that leaves the launchers, the claim and the tokens alone. *)
LEMMA LaunchStays ==
  ASSUME LaunchInv, UNCHANGED <<pc, claim, carried>>, HasRun \subseteq HasRun',
         \A s \in Direct : pc[s] = "failed" => s \notin Alive'
  PROVE  LaunchInv'
<1>1. TokensCarried' /\ SuccessIsOwn' /\ FailureIsClean'
  BY DEF LaunchInv, TokensCarried, SuccessIsOwn, FailureIsClean
<1>2. ReservationsHold'
  BY DEF LaunchInv, ReservationsHold, Starting, NoClaim
<1>3. QED
  BY <1>1, <1>2 DEF LaunchInv

(* Every step of a launcher or of a process keeps them. *)
LEMMA LaunchStep == ClaimInv /\ LaunchInv /\ [Next]_vars => LaunchInv'
<1> SUFFICES ASSUME ClaimInv, LaunchInv, [Next]_vars
             PROVE  LaunchInv'
  OBVIOUS
<1>a. TypeOK /\ Direct \subseteq Start /\ Start \subseteq Process /\ (\A m \in Manual : m \notin Start)
  BY ClaimAssumption DEF ClaimInv, Direct, Process
<1>b. /\ pc \in [Start -> LauncherState] /\ proc \in [Process -> ProcessState]
      /\ carried \in [Process -> Token]
  BY <1>a DEF TypeOK
<1>1. ASSUME NEW s \in Start, Reserve(s)
      PROVE  LaunchInv'
  <2>1. UNCHANGED <<HasRun, Alive, carried>>
    BY <1>1 DEF Reserve, HasRun, Alive
  <2>2. CASE Active
    <3>1. claim' = claim /\ pc' = [pc EXCEPT ![s] = "conflict"]
      BY <1>1, <2>2 DEF Reserve
    <3>2. ReservationsHold'
      BY <1>a, <1>b, <2>1, <3>1 DEF LaunchInv, ReservationsHold, Starting, NoClaim
    <3>3. QED
      BY <1>a, <1>b, <2>1, <3>1, <3>2 DEF LaunchInv, TokensCarried, SuccessIsOwn, FailureIsClean
  <2>3. CASE ~Active
    <3>1. claim' = Starting(s) /\ pc' = [pc EXCEPT ![s] = "reserved"]
      BY <1>1, <2>3 DEF Reserve
    <3>2. \A t \in Direct : pc[t] \in {"reserved", "waiting"} => t \in HasRun
      BY <2>3, ReservationExcludes DEF LaunchInv, ReservationsHold
    <3>3. ReservationsHold'
      BY <1>a, <1>b, <2>1, <3>1, <3>2 DEF ReservationsHold, Starting, NoClaim
    <3>4. QED
      BY <1>a, <1>b, <2>1, <3>1, <3>3 DEF LaunchInv, TokensCarried, SuccessIsOwn, FailureIsClean
  <2>4. QED
    BY <2>2, <2>3
<1>2. ASSUME NEW s \in Start, Spawn(s)
      PROVE  LaunchInv'
  <2>1. /\ pc[s] = "reserved" /\ pc' = [pc EXCEPT ![s] = "waiting"] /\ claim' = claim
        /\ carried' = [carried EXCEPT ![s] = s] /\ proc' = [proc EXCEPT ![s] = "launched"] /\ proc[s] = "none"
    BY <1>2 DEF Spawn, Fork
  <2>2. HasRun' = HasRun /\ Alive' = Alive \cup {s}
    BY <1>a, <1>b, <2>1 DEF HasRun, Alive
  <2>3. TokensCarried'
    BY <1>a, <1>b, <2>1 DEF LaunchInv, TokensCarried
  <2>4. ReservationsHold'
    BY <1>a, <1>b, <2>1, <2>2 DEF LaunchInv, ReservationsHold, Starting, NoClaim
  <2>5. SuccessIsOwn' /\ FailureIsClean'
    BY <1>a, <1>b, <2>1, <2>2 DEF LaunchInv, SuccessIsOwn, FailureIsClean
  <2>6. QED
    BY <2>3, <2>4, <2>5 DEF LaunchInv
<1>3. ASSUME NEW s \in Start, ClaimSeen(s)
      PROVE  LaunchInv'
  <2>1. /\ pc[s] = "waiting" /\ ClaimRuns /\ pc' = [pc EXCEPT ![s] = "started"]
        /\ UNCHANGED <<claim, carried, HasRun, Alive>>
    BY <1>3 DEF ClaimSeen, HasRun, Alive
  <2>2. s \in Direct => s \in HasRun
    BY <2>1, ReservationExcludes DEF LaunchInv, ReservationsHold
  <2>3. ReservationsHold'
    BY <1>a, <1>b, <2>1 DEF LaunchInv, ReservationsHold, Starting, NoClaim
  <2>4. QED
    BY <1>a, <1>b, <2>1, <2>2, <2>3 DEF LaunchInv, TokensCarried, SuccessIsOwn, FailureIsClean
<1>4. ASSUME NEW s \in Start, Abandon(s)
      PROVE  LaunchInv'
  <2>1. /\ pc' = [pc EXCEPT ![s] = "killing"] /\ claim' = Abandoned(s)
        /\ UNCHANGED <<carried, HasRun, Alive>>
    BY <1>4 DEF Abandon, HasRun, Alive
  <2>2. ASSUME NEW t \in Direct \ {s}, claim = Starting(t)
        PROVE  claim' = claim
    BY <2>1, <2>2 DEF Abandoned, Starting, NoClaim
  <2>3. ReservationsHold'
    BY <1>a, <1>b, <2>1, <2>2 DEF LaunchInv, ReservationsHold, Starting, NoClaim
  <2>4. QED
    BY <1>a, <1>b, <2>1, <2>3 DEF LaunchInv, TokensCarried, SuccessIsOwn, FailureIsClean
<1>5. ASSUME NEW s \in Start, KillChild(s)
      PROVE  LaunchInv'
  <2>1. pc' = [pc EXCEPT ![s] = "failed"] /\ UNCHANGED <<claim, carried>>
    BY <1>5 DEF KillChild
  <2>2. HasRun \subseteq HasRun' /\ Alive' \subseteq Alive /\ (s \in Direct => s \notin Alive')
    <3>1. CASE s \in Direct \cap Alive
      <4>1. Death(s)
        BY <1>5, <3>1 DEF KillChild
      <4>2. HasRun \subseteq HasRun'
        BY <1>a, <4>1, HasRunStays
      <4>3. QED
        BY <1>a, <1>b, <4>1, <4>2 DEF Death, Alive
    <3>2. CASE s \notin Direct \cap Alive
      BY <1>5, <3>2 DEF KillChild, HasRun, Alive
    <3>3. QED
      BY <3>1, <3>2
  <2>3. ReservationsHold'
    BY <1>a, <1>b, <2>1, <2>2 DEF LaunchInv, ReservationsHold, Starting, NoClaim
  <2>4. QED
    BY <1>a, <1>b, <2>1, <2>2, <2>3 DEF LaunchInv, TokensCarried, SuccessIsOwn, FailureIsClean
<1>6. ASSUME NEW s \in Start, LauncherCrash(s)
      PROVE  LaunchInv'
  <2>1. pc' = [pc EXCEPT ![s] = "crashed"] /\ UNCHANGED <<claim, carried, HasRun, Alive>>
    BY <1>6 DEF LauncherCrash, HasRun, Alive
  <2>2. ReservationsHold'
    BY <1>a, <1>b, <2>1 DEF LaunchInv, ReservationsHold, Starting, NoClaim
  <2>3. QED
    BY <1>a, <1>b, <2>1, <2>2 DEF LaunchInv, TokensCarried, SuccessIsOwn, FailureIsClean
<1>7. CASE Expire
  <2>1. /\ claim' = [claim EXCEPT !.fresh = FALSE] /\ UNCHANGED <<pc, carried, HasRun, Alive>>
        /\ (claim.token \in Direct => pc[claim.token] \notin {"reserved", "waiting"})
    BY <1>7 DEF Expire, HasRun, Alive
  <2>2. ReservationsHold'
    <3>1. \A s \in Direct : pc[s] \in {"reserved", "waiting"} => s \in HasRun
      BY <2>1 DEF LaunchInv, ReservationsHold, Starting, NoClaim
    <3>2. QED
      BY <2>1, <3>1 DEF ReservationsHold
  <2>3. QED
    BY <2>1, <2>2 DEF LaunchInv, TokensCarried, SuccessIsOwn, FailureIsClean
<1>8. ASSUME NEW m \in Manual, LaunchManual(m)
      PROVE  LaunchInv'
  <2>1. PICK t \in {NoToken} \cup Service : Fork(m, t)
    BY <1>8 DEF LaunchManual
  <2>2. /\ carried' = [carried EXCEPT ![m] = t] /\ t \notin Direct
        /\ UNCHANGED <<claim, pc>> /\ proc' = [proc EXCEPT ![m] = "launched"] /\ proc[m] = "none"
    BY <1>8, <2>1, ClaimAssumption DEF LaunchManual, Fork, Direct
  <2>3. HasRun' = HasRun /\ Alive' = Alive \cup {m} /\ m \notin Start
    BY <1>a, <1>b, <2>2 DEF HasRun, Alive, Process
  <2>4. TokensCarried'
    BY <1>b, <2>2 DEF LaunchInv, TokensCarried, Process
  <2>5. ReservationsHold'
    BY <2>2, <2>3 DEF LaunchInv, ReservationsHold, Starting, NoClaim
  <2>6. QED
    BY <1>a, <2>2, <2>3, <2>4, <2>5 DEF LaunchInv, SuccessIsOwn, FailureIsClean
<1>9. ASSUME NEW p \in Process, Activate(p)
      PROVE  LaunchInv'
  <2>1. HasRun \subseteq HasRun' /\ Alive' = Alive /\ UNCHANGED <<pc, carried>>
    BY <1>9, <1>a, <1>b, HasRunStays DEF Activate, Alive
  <2>2. CASE Accepts(p, carried[p])
    <3>1. claim' = Running(p) /\ p \in HasRun'
      BY <1>9, <2>2, <1>b DEF Activate, HasRun
    <3>2. ASSUME NEW s \in Direct, claim = Starting(s)
          PROVE  s = p
      BY <2>2, <3>2, ReservationExcludes DEF LaunchInv, TokensCarried
    <3>3. \A s \in Direct : pc[s] \in {"reserved", "waiting"} => s \in HasRun'
      BY <2>1, <3>1, <3>2 DEF LaunchInv, ReservationsHold
    <3>4. ReservationsHold'
      BY <2>1, <3>3 DEF ReservationsHold
    <3>5. QED
      BY <2>1, <3>4 DEF LaunchInv, TokensCarried, SuccessIsOwn, FailureIsClean
  <2>3. CASE ~Accepts(p, carried[p])
    BY <1>9, <2>1, <2>3, LaunchStays DEF Activate, LaunchInv, FailureIsClean
  <2>4. QED
    BY <2>2, <2>3
<1>10. ASSUME NEW p \in Process, Adopt(p)
       PROVE  LaunchInv'
  <2>1. UNCHANGED <<pc, carried, HasRun, Alive>>
    BY <1>10 DEF Adopt, HasRun, Alive
  <2>2. \A s \in Direct : claim # Starting(s)
    BY <1>10, ReservationExcludes, ClaimAssumption DEF Adopt, Direct
  <2>3. ReservationsHold'
    BY <2>1, <2>2 DEF LaunchInv, ReservationsHold
  <2>4. QED
    BY <2>1, <2>3 DEF LaunchInv, TokensCarried, SuccessIsOwn, FailureIsClean
<1>11. ASSUME NEW p \in Process, Release(p)
       PROVE  LaunchInv'
  <2>1. HasRun \subseteq HasRun' /\ Alive' = Alive /\ UNCHANGED <<pc, carried>>
    BY <1>11, <1>a, <1>b, HasRunStays DEF Release, Alive
  <2>2. \A s \in Direct : claim # Starting(s)
    BY <1>11, ReservationExcludes DEF Release, Owners
  <2>3. ReservationsHold'
    BY <2>1, <2>2 DEF LaunchInv, ReservationsHold
  <2>4. QED
    BY <2>1, <2>3 DEF LaunchInv, TokensCarried, SuccessIsOwn, FailureIsClean
<1>12. ASSUME NEW p \in Process, Exit(p) \/ Die(p)
       PROVE  LaunchInv'
  <2>1. HasRun \subseteq HasRun' /\ Alive' \subseteq Alive /\ UNCHANGED <<pc, claim, carried>>
    BY <1>12, <1>a, <1>b, HasRunStays DEF Exit, Die, Death, Alive
  <2>2. QED
    BY <2>1, LaunchStays DEF LaunchInv, FailureIsClean
<1>13. CASE UNCHANGED vars
  BY <1>13, LaunchStays DEF vars, LaunchInv, FailureIsClean, HasRun, Alive
<1>14. QED
  BY <1>1, <1>2, <1>3, <1>4, <1>5, <1>6, <1>7, <1>8, <1>9, <1>10, <1>11, <1>12, <1>13
     DEF Next, Launcher

LEMMA LaunchInvariant == Spec => []LaunchInv
<1>1. Init => LaunchInv
  BY ClaimAssumption
     DEF Init, LaunchInv, TokensCarried, ReservationsHold, SuccessIsOwn, FailureIsClean, Direct
<1>2. ClaimInv /\ LaunchInv /\ [Next]_vars => LaunchInv'
  BY LaunchStep
<1>3. QED
  BY <1>1, <1>2, ClaimInvariant, PTL DEF Spec

(* A launcher that reports success, though it took any running claim for the *)
(* one of its child, has a child that did run the monitor.                   *)
THEOREM SuccessIsTrue == Spec => []SuccessIsOwn
<1>1. LaunchInv => SuccessIsOwn
  BY DEF LaunchInv
<1>2. QED
  BY <1>1, LaunchInvariant, PTL

(* A launcher that reports failure has no child left, whatever it was doing *)
(* when the launcher gave up.                                               *)
THEOREM FailureLeavesNobody == Spec => []FailureIsClean
<1>1. LaunchInv => FailureIsClean
  BY DEF LaunchInv
<1>2. QED
  BY <1>1, LaunchInvariant, PTL

-----------------------------------------------------------------------------
(* The requests around the claim.  What a step of a request or of a process *)
(* does to the claim file is an operation of MonitorClaim, or the deletion  *)
(* of the runtime files.                                                    *)
LEMMA InitialClaim == Init => ClaimInv /\ LaunchInv
<1>1. Init => ClaimInv
  BY ClaimAssumption
     DEF Init, ClaimInv, TypeOK, PidsDistinct, OwnerNamed, Owners, Alive, Claim,
         NoClaim, LauncherState, ProcessState, Token, Process
<1>2. Init => LaunchInv
  BY ClaimAssumption
     DEF Init, LaunchInv, TokensCarried, ReservationsHold, SuccessIsOwn, FailureIsClean, Direct
<1>3. QED
  BY <1>1, <1>2

(* A poll, a check or a request that looks at the claim adopts it or leaves it. *)
LEMMA LooksIsAClaimStep ==
  ASSUME NEW p, LooksAt(p)
  PROVE  [Next]_vars
<1>1. CASE Adopts(p)
  BY <1>1 DEF LooksAt, Adopts, Alive, Next
<1>2. CASE ~Adopts(p)
  BY <1>2 DEF LooksAt
<1>3. QED
  BY <1>1, <1>2

LEMMA ControlMoves ==
  ASSUME [ControlNext]_allVars
  PROVE  [Next]_vars \/ \E r \in Request : RemovesFiles(r)
<1>1. ASSUME NEW s \in Start, StartRequest(s)
      PROVE  [Next]_vars
  <2>1. CASE Check(s)
    BY <2>1, LooksIsAClaimStep DEF Check
  <2>2. CASE ReadyReserve(s) \/ InSpawn(s)
    BY <2>2 DEF ReadyReserve, InSpawn, Next, Launcher
  <2>3. CASE Clears(s) \/ Wipes(s) \/ Register(s)
    BY <2>3 DEF Clears, Wipes, Register
  <2>4. QED
    BY <1>1, <2>1, <2>2, <2>3 DEF StartRequest
<1>2. ASSUME NEW p \in Process, MonitorProcess(p) \/ Crashes(p)
      PROVE  [Next]_vars
  <2>1. CASE Claims(p) \/ Releases(p) \/ Exits(p) \/ Crashes(p)
    BY <2>1 DEF Claims, Releases, Exits, Crashes, Next
  <2>2. CASE Registers(p) \/ OpensSession(p) \/ Tallies(p) \/ EndsRun(p) \/ SkipsRun(p)
             \/ MarksExit(p) \/ Unregisters(p) \/ ClearsAction(p)
    BY <2>2 DEF Registers, OpensSession, Tallies, EndsRun, SkipsRun, MarksExit, Marks,
                Unregisters, ClearsAction
  <2>3. QED
    BY <1>2, <2>1, <2>2 DEF MonitorProcess
<1>3. ASSUME NEW r \in Request, StopRequest(r), ~RemovesFiles(r)
      PROVE  [Next]_vars
  <2>1. CASE Looks(r)
    BY <2>1, LooksIsAClaimStep DEF Looks
  <2>2. CASE Kills(r)
    BY <2>2 DEF Kills, Alive, Next
  <2>3. CASE Asks(r) \/ Signals(r) \/ Gone(r) \/ Finishes(r) \/ WipesSession(r) \/ Unrecords(r)
    BY <2>3 DEF Asks, Signals, Gone, Finishes, WipesSession, Unrecords
  <2>4. QED
    BY <1>3, <2>1, <2>2, <2>3 DEF StopRequest
<1>4. ASSUME NEW q \in Poller, Reads(q) \/ Judges(q)
      PROVE  [Next]_vars
  BY <1>4, LooksIsAClaimStep DEF Reads, Judges
<1>5. ASSUME \/ Create \/ Ticks \/ UNCHANGED allVars
             \/ \E m \in Manual : Launches(m)
      PROVE  [Next]_vars
  BY <1>5 DEF Create, Ticks, Launches, Next, allVars, vars
<1>6. QED
  BY <1>1, <1>2, <1>3, <1>4, <1>5 DEF ControlNext

(* NotResurrected: of all that writes the registry, only create_monitor makes *)
(* a record where there is none.                                              *)
LEMMA RecordsAppear ==
  ASSUME [ControlNext]_allVars, ~registry.exists, registry' # registry
  PROVE  Create \/ ~registry'.exists
<1>1. ASSUME NEW p, SetPid(p)
      PROVE  FALSE
  BY <1>1 DEF SetPid
<1>2. ASSUME NEW s \in Start, StartRequest(s)
      PROVE  FALSE
  BY <1>1, <1>2 DEF StartRequest, Check, Clears, Wipes, ReadyReserve, InSpawn, Register, ownVars
<1>3. ASSUME NEW p \in Process, MonitorProcess(p) \/ Crashes(p)
      PROVE  FALSE
  BY <1>1, <1>3 DEF MonitorProcess, Claims, Registers, OpensSession, Tallies, EndsRun, SkipsRun, MarksExit,
     Marks, Unregisters, Releases, ClearsAction, Exits, Crashes, ownVars
<1>4. ASSUME NEW r \in Request, StopRequest(r)
      PROVE  ~registry'.exists
  BY <1>1, <1>4 DEF StopRequest, Looks, Asks, Signals, Gone, Kills, Finishes, WipesSession,
     RemovesFiles, Unrecords, ownVars
<1>5. ASSUME NEW q \in Poller, Reads(q) \/ Judges(q)
      PROVE  FALSE
  BY <1>1, <1>5 DEF Reads, Judges
<1>6. ASSUME \/ Ticks \/ UNCHANGED allVars
             \/ \E m \in Manual : Launches(m)
      PROVE  FALSE
  BY <1>6 DEF Ticks, Launches, ownVars, allVars
<1>7. QED
  BY <1>2, <1>3, <1>4, <1>5, <1>6 DEF ControlNext

(* However the end of a process, a stop and a poll overlap with a delete, the *)
(* deleted profile stays deleted until one is created.                        *)
THEOREM DeletedStaysDeleted == ControlSpec => NotResurrected
<1>1. ASSUME [ControlNext]_allVars
      PROVE  ~registry.exists /\ registry'.exists =>
                registry'.pid = NoProcess /\ ask' = ask /\ phase' = phase /\ prep' = prep
  <2> SUFFICES ASSUME ~registry.exists, registry'.exists
               PROVE  registry'.pid = NoProcess /\ ask' = ask /\ phase' = phase /\ prep' = prep
    OBVIOUS
  <2>1. Create
    BY <1>1, RecordsAppear
  <2>2. QED
    BY <2>1 DEF Create
<1>2. QED
  BY <1>1, PTL DEF ControlSpec, NotResurrected

-----------------------------------------------------------------------------
(* The types of what the requests keep, deletes included.  That an exit is   *)
(* recorded with the status of a session needs to know that a run is halted  *)
(* by a signal only.                                                         *)
HaltsAreAsked == \A p \in Process : phase[p] = "halted" => flag[p]

LEMMA ControlTypeStep ==
  ASSUME ControlTypeOK, HaltsAreAsked, [ControlNext]_allVars
  PROVE  ControlTypeOK'
<1> USE DEF ControlTypeOK
<1>a. NoProcess \in Process \cup {NoProcess} /\ None \in Action \cup {None} /\ Start \subseteq Process
  BY DEF Process
<1>b. ASSUME NEW p \in Process \cup {NoProcess}, SetPid(p)
      PROVE  registry' \in [exists : BOOLEAN, pid : Process \cup {NoProcess}]
  BY <1>b DEF SetPid
<1>c. ASSUME NEW status \in Status, SetStatus(status)
      PROVE  session' \in [by : Process, status : Status] \cup {None}
  BY <1>c DEF SetStatus
<1>d. ASSUME NEW p, LooksAt(p)
      PROVE  control' \in Action \cup {None}
  BY <1>d DEF LooksAt
<1>1. ASSUME NEW s \in Start, StartRequest(s)
      PROVE  ControlTypeOK'
  <2>1. CASE Check(s)
    BY <1>d, <2>1 DEF Check
  <2>2. CASE Clears(s) \/ Wipes(s)
    BY <2>2 DEF Clears, Wipes
  <2>3. CASE ReadyReserve(s) \/ InSpawn(s)
    BY <2>3 DEF ReadyReserve, InSpawn, ownVars
  <2>4. CASE Register(s)
    BY <1>a, <1>b, <2>4 DEF Register
  <2>5. QED
    BY <1>1, <2>1, <2>2, <2>3, <2>4 DEF StartRequest
<1>2. ASSUME NEW p \in Process, MonitorProcess(p) \/ Crashes(p)
      PROVE  ControlTypeOK'
  <2>1. CASE Claims(p)
    BY <2>1 DEF Claims
  <2>2. CASE Registers(p) \/ Unregisters(p)
    BY <1>a, <1>b, <2>2 DEF Registers, Unregisters, Move
  <2>3. CASE OpensSession(p)
    BY <2>3 DEF OpensSession, Move, Status
  <2>4. CASE Tallies(p)
    BY <1>c, <2>4 DEF Tallies, Status
  <2>5. CASE EndsRun(p)
    BY <1>c, <2>5 DEF EndsRun, Move, Status, Stopped
  <2>6. CASE SkipsRun(p)
    BY <2>6 DEF SkipsRun, Move
  <2>7. CASE MarksExit(p)
    <3>1. PICK from \in {"completed", "failed", "halted"} : Move(p, from, "marked")
      BY <2>7 DEF MarksExit, Marks
    <3>2. (IF flag[p] THEN Stopped ELSE phase[p]) \in Status
      BY <3>1 DEF Move, Stopped, Status, HaltsAreAsked
    <3>3. session' \in [by : Process, status : Status] \cup {None}
      BY <1>c, <2>7, <3>2 DEF MarksExit, Marks
    <3>4. QED
      BY <2>7, <3>1, <3>3 DEF MarksExit, Marks, Move
  <2>8. CASE Releases(p) \/ Exits(p) \/ Crashes(p)
    BY <2>8 DEF Releases, Exits, Crashes, ownVars
  <2>9. CASE ClearsAction(p)
    BY <2>9 DEF ClearsAction
  <2>10. QED
    BY <1>2, <2>1, <2>2, <2>3, <2>4, <2>5, <2>6, <2>7, <2>8, <2>9 DEF MonitorProcess
<1>3. ASSUME NEW r \in Request, StopRequest(r)
      PROVE  ControlTypeOK'
  <2>1. CASE Looks(r)
    BY <1>d, <2>1 DEF Looks, AskAt, Action
  <2>2. CASE Asks(r)
    BY <2>2 DEF Asks
  <2>3. CASE Signals(r)
    <3>1. CASE ClaimRuns
      <4>1. claim.born \in Process
        BY <3>1 DEF ClaimRuns, Matches, Alive
      <4>2. /\ flag' = [flag EXCEPT ![claim.born] = TRUE] /\ control' = ask[r].action
            /\ ask' = [ask EXCEPT ![r].at = "waiting", ![r].target = claim.born]
            /\ UNCHANGED <<registry, session, phase, prep, poll>>
        BY <2>3, <3>1 DEF Signals
      <4>3. flag' \in [Process -> BOOLEAN] /\ control' \in Action \cup {None}
        BY <4>1, <4>2
      <4> DEFINE T == [Request -> [at : {"new", "stopping", "asked", "waiting", "finishing",
                                         "wiping", "removing", "unrecording", "done", "refused"},
                                   action : Action, target : Process \cup {NoProcess}]]
                 waits == [ask EXCEPT ![r].at = "waiting"]
      <4>4. waits \in T
        OBVIOUS
      <4>5. ask' = [waits EXCEPT ![r].target = claim.born]
        BY <4>2
      <4>6. ask' \in T
        <5> HIDE DEF waits
        <5>1. QED
          BY <4>1, <4>4, <4>5
      <4>7. QED
        BY <4>2, <4>3, <4>6
    <3>2. CASE ~ClaimRuns
      BY <2>3, <3>2 DEF Signals, AskAt
    <3>3. QED
      BY <3>1, <3>2
  <2>4. CASE Gone(r)
    BY <2>4 DEF Gone, AskAt
  <2>5. CASE Kills(r)
    BY <2>5 DEF Kills, ownVars
  <2>6. CASE Finishes(r)
    <3>1. /\ registry' \in [exists : BOOLEAN, pid : Process \cup {NoProcess}]
          /\ session' \in [by : Process, status : Status] \cup {None}
      BY <1>a, <1>b, <1>c, <2>6 DEF Finishes, Status
    <3>2. QED
      BY <2>6, <3>1 DEF Finishes, AskAt
  <2>7. CASE WipesSession(r)
    BY <2>7 DEF WipesSession, AskAt
  <2>8. CASE RemovesFiles(r)
    BY <2>8 DEF RemovesFiles, AskAt
  <2>9. CASE Unrecords(r)
    BY <1>a, <2>9 DEF Unrecords, AskAt
  <2>10. QED
    BY <1>3, <2>1, <2>2, <2>3, <2>4, <2>5, <2>6, <2>7, <2>8, <2>9 DEF StopRequest
<1>4. ASSUME NEW q \in Poller, Reads(q)
      PROVE  ControlTypeOK'
  BY <1>4 DEF Reads
<1>5. ASSUME NEW q \in Poller, Judges(q)
      PROVE  ControlTypeOK'
  <2>1. /\ registry' \in [exists : BOOLEAN, pid : Process \cup {NoProcess}]
        /\ session' \in [by : Process, status : Status] \cup {None}
    BY <1>a, <1>b, <1>c, <1>5 DEF Judges, Status
  <2>2. QED
    BY <1>d, <1>5, <2>1 DEF Judges
<1>6. CASE Create
  BY <1>a, <1>6 DEF Create
<1>7. ASSUME \/ Ticks \/ UNCHANGED allVars
             \/ \E m \in Manual : Launches(m)
      PROVE  ControlTypeOK'
  BY <1>7 DEF Ticks, Launches, ownVars, allVars
<1>8. QED
  BY <1>1, <1>2, <1>3, <1>4, <1>5, <1>6, <1>7 DEF ControlNext

LEMMA ControlInitialType == ControlInit => ControlTypeOK
BY DEF ControlInit, ControlTypeOK, Action

LEMMA HaltsStayAsked ==
  ASSUME ControlTypeOK, HaltsAreAsked, [ControlNext]_allVars
  PROVE  HaltsAreAsked'
<1> USE DEF ControlTypeOK, HaltsAreAsked
<1>1. ASSUME NEW s \in Start, StartRequest(s)
      PROVE  UNCHANGED <<phase, flag>>
  BY <1>1 DEF StartRequest, Check, Clears, Wipes, ReadyReserve, InSpawn, Register, ownVars
<1>2. ASSUME NEW p \in Process, MonitorProcess(p) \/ Crashes(p)
      PROVE  HaltsAreAsked'
  <2>1. flag' = flag
    BY <1>2 DEF MonitorProcess, Claims, Registers, OpensSession, Tallies, EndsRun, SkipsRun,
       MarksExit, Marks, Unregisters, Releases, ClearsAction, Exits, Crashes, ownVars
  <2>2. CASE EndsRun(p) \/ SkipsRun(p)
    BY <2>1, <2>2 DEF EndsRun, SkipsRun, Move
  <2>3. CASE Claims(p) \/ Registers(p) \/ OpensSession(p) \/ Tallies(p) \/ MarksExit(p)
             \/ Unregisters(p) \/ Releases(p) \/ ClearsAction(p) \/ Exits(p) \/ Crashes(p)
    BY <2>1, <2>3 DEF Claims, Registers, OpensSession, Tallies,
       MarksExit, Marks, Unregisters, Releases, ClearsAction, Exits, Crashes, ownVars, Move
  <2>4. QED
    BY <1>2, <2>2, <2>3 DEF MonitorProcess
<1>3. ASSUME NEW r \in Request, StopRequest(r)
      PROVE  phase' = phase /\ \A p \in Process : flag[p] => flag'[p]
  BY <1>3 DEF StopRequest, Looks, Asks, Signals, Gone, Kills, Finishes, WipesSession,
     RemovesFiles, Unrecords, ownVars
<1>4. ASSUME \/ \E q \in Poller : Reads(q) \/ Judges(q)
             \/ \E m \in Manual : Launches(m)
             \/ Create \/ Ticks \/ UNCHANGED allVars
      PROVE  UNCHANGED <<phase, flag>>
  BY <1>4 DEF Reads, Judges, Create, Ticks, Launches, ownVars, allVars
<1>5. QED
  BY <1>1, <1>2, <1>3, <1>4 DEF ControlNext

(* Everything the requests and the processes write is typed, deletes included. *)
THEOREM ControlTypeCorrect == ControlSpec => []ControlTypeOK
<1>1. ControlInit => ControlTypeOK /\ HaltsAreAsked
  BY ControlInitialType DEF ControlInit, HaltsAreAsked
<1>2. ControlTypeOK /\ HaltsAreAsked /\ [ControlNext]_allVars => ControlTypeOK' /\ HaltsAreAsked'
  BY ControlTypeStep, HaltsStayAsked
<1>3. QED
  BY <1>1, <1>2, PTL DEF ControlSpec

-----------------------------------------------------------------------------
(* Where no profile is deleted, the claim file is used only as MonitorClaim *)
(* describes: its theorems hold of the processes among all those requests.  *)
NoDeletes ==
    \A r \in Request : ask[r].at \notin {"stopping", "wiping", "removing", "unrecording"}

LEMMA NoDeletesStep ==
  ASSUME Deleter = {}, ControlTypeOK, NoDeletes, [ControlNext]_allVars
  PROVE  NoDeletes' /\ [Next]_vars
<1> USE DEF NoDeletes
<1>1. [Next]_vars
  BY ControlMoves DEF RemovesFiles
<1>2. ASSUME NEW r \in Request, StopRequest(r)
      PROVE  NoDeletes'
  <2>1. ask \in [Request -> [at : {"new", "stopping", "asked", "waiting", "finishing", "wiping",
                                   "removing", "unrecording", "done", "refused"},
                             action : Action, target : Process \cup {NoProcess}]] /\ r \notin Deleter
    BY DEF ControlTypeOK
  <2>2. CASE Looks(r)
    <3>1. /\ \A x \in Request \ {r} : ask'[x].at = ask[x].at
          /\ ask'[r].at \in {"asked", "refused"}
      <4>1. CASE ask[r].at = "new" /\ r \in Stopper
        <5>1. PICK a \in Action, there \in {"asked", "refused"} :
                 ask' = [ask EXCEPT ![r].at = there, ![r].action = a]
          BY <2>1, <2>2, <4>1 DEF Looks
        <5>2. ask' = [[ask EXCEPT ![r].at = there] EXCEPT ![r].action = a]
          BY <5>1
        <5>3. QED
          BY <2>1, <5>2
      <4>2. QED
        BY <2>1, <2>2, <4>1 DEF Looks
    <3>2. QED
      BY <3>1
  <2>3. CASE Asks(r) \/ Kills(r) \/ WipesSession(r) \/ RemovesFiles(r) \/ Unrecords(r)
    BY <2>3 DEF Asks, Kills, WipesSession, RemovesFiles, Unrecords, ownVars
  <2>4. CASE Signals(r)
    BY <2>1, <2>4 DEF Signals, AskAt
  <2>5. CASE Gone(r)
    BY <2>1, <2>5 DEF Gone, AskAt
  <2>6. CASE Finishes(r)
    BY <2>1, <2>6 DEF Finishes, AskAt
  <2>7. QED
    BY <1>2, <2>2, <2>3, <2>4, <2>5, <2>6 DEF StopRequest
<1>3. ASSUME NEW s \in Start, StartRequest(s)
      PROVE  ask' = ask
  BY <1>3 DEF StartRequest, Check, Clears, Wipes, ReadyReserve, InSpawn, Register, ownVars
<1>4. ASSUME NEW p \in Process, MonitorProcess(p) \/ Crashes(p)
      PROVE  ask' = ask
  BY <1>4 DEF MonitorProcess, Claims, Registers, OpensSession, Tallies, EndsRun, SkipsRun,
     MarksExit, Marks, Unregisters, Releases, ClearsAction, Exits, Crashes, ownVars
<1>5. ASSUME \/ \E q \in Poller : Reads(q) \/ Judges(q)
             \/ \E m \in Manual : Launches(m)
             \/ Create \/ Ticks \/ UNCHANGED allVars
      PROVE  ask' = ask
  BY <1>5 DEF Reads, Judges, Create, Ticks, Launches, ownVars, allVars
<1>6. QED
  BY <1>1, <1>2, <1>3, <1>4, <1>5 DEF ControlNext

(* What holds of the claim, the launchers and the requests together. *)
ControlInv ==
    ControlTypeOK /\ HaltsAreAsked /\ NoDeletes /\ TypeOK /\ ClaimInv /\ LaunchInv

LEMMA ControlInvariant ==
  ASSUME Deleter = {}
  PROVE  ControlSpec => []ControlInv /\ [][Next]_vars
<1>1. ControlInit => ControlInv /\ Init
  BY ControlInitialType, InitialClaim DEF ControlInit, ControlInv, HaltsAreAsked, NoDeletes, ClaimInv
<1>2. ControlInv /\ [ControlNext]_allVars => ControlInv' /\ [Next]_vars
  BY ControlTypeStep, HaltsStayAsked, NoDeletesStep, TypeStep, ClaimStep, LaunchStep DEF ControlInv
<1>3. QED
  BY <1>1, <1>2, PTL DEF ControlSpec

(* Among polls, stops and starts too a live process owns the monitor alone,  *)
(* and a process that has run does not run again: MonitorControl implements  *)
(* MonitorOwnership, since each of its steps is one of MonitorClaim.         *)
THEOREM ControlImplementsOwnership ==
  ASSUME Deleter = {}
  PROVE  ControlSpec => OwnershipSpec
<1>1. ControlInit => Init
  BY DEF ControlInit
<1>2. ControlSpec => Spec
  BY <1>1, ControlInvariant, PTL DEF ControlSpec, Spec
<1>3. QED
  BY <1>2, ClaimImplementsOwnership

(* How far a process is: nobody runs again, or is launched again. *)
LEMMA ProcessesGoOn ==
  ASSUME TypeOK, [Next]_vars
  PROVE  /\ HasRun \subseteq HasRun'
         /\ \A p \in Process : proc[p] # "none" /\ p \notin Alive => proc'[p] # "none" /\ p \notin Alive'
         /\ \A p \in Process : proc[p] # "none" => proc'[p] # "none"
<1> USE DEF TypeOK, HasRun, Alive
<1>1. ASSUME NEW p \in Process, NEW t, Fork(p, t)
      PROVE  proc[p] = "none" /\ proc' = [proc EXCEPT ![p] = "launched"]
  BY <1>1 DEF Fork
<1>2. ASSUME NEW p \in Alive, Death(p)
      PROVE  proc'[p] \in {"killed", "lost"} /\ (p \in HasRun => proc'[p] = "killed")
             /\ \A q \in Process \ {p} : proc'[q] = proc[q]
  BY <1>2 DEF Death
<1>3. ASSUME NEW s \in Start, Launcher(s) \/ LauncherCrash(s)
      PROVE  \/ proc' = proc \/ \E t : Fork(s, t) \/ (s \in Alive /\ Death(s))
  BY <1>3 DEF Launcher, Reserve, Spawn, ClaimSeen, Abandon, KillChild, LauncherCrash
<1>4. ASSUME NEW p \in Process, Activate(p) \/ Adopt(p) \/ Release(p) \/ Exit(p) \/ Die(p)
      PROVE  /\ HasRun \subseteq HasRun'
             /\ \A q \in Process : proc[q] # "none" /\ q \notin Alive => proc'[q] # "none" /\ q \notin Alive'
             /\ \A q \in Process : proc[q] # "none" => proc'[q] # "none"
  <2>1. CASE Activate(p)
    BY <2>1 DEF Activate
  <2>2. CASE Adopt(p) \/ Release(p) \/ Exit(p)
    BY <2>2 DEF Adopt, Release, Exit
  <2>3. CASE Die(p)
    BY <2>3, <1>2 DEF Die
  <2>4. QED
    BY <1>4, <2>1, <2>2, <2>3
<1>5. CASE Expire \/ UNCHANGED vars
  BY <1>5 DEF Expire, vars
<1>6. ASSUME NEW m \in Manual, LaunchManual(m)
      PROVE  \E t : Fork(m, t)
  BY <1>6 DEF LaunchManual
<1>7. QED
  BY <1>1, <1>2, <1>3, <1>4, <1>5, <1>6 DEF Next, Process

(* The number in the registry, and the one a poll read there, are those of a *)
(* process that did run: the launcher registers its child when the claim was *)
(* seen, a process itself when it owns the monitor.                          *)
Registered ==
    /\ registry.pid \in HasRun \cup {NoProcess}
    /\ \A q \in Poller : poll[q].pid \in HasRun \cup {NoProcess}

LEMMA RegisteredStep ==
  ASSUME ControlInv, Registered, [ControlNext]_allVars, [Next]_vars
  PROVE  Registered'
<1> USE DEF Registered, ControlTypeOK
<1>a. HasRun \subseteq HasRun' /\ ControlTypeOK
  BY ProcessesGoOn DEF ControlInv
<1>b. ASSUME NEW p \in HasRun' \cup {NoProcess}, SetPid(p)
      PROVE  registry'.pid \in HasRun' \cup {NoProcess}
  BY <1>a, <1>b DEF SetPid
<1>1. ASSUME NEW s \in Start, StartRequest(s)
      PROVE  Registered'
  <2>1. CASE Register(s)
    <3>1. s \in HasRun
      BY <2>1, ControlAssumption DEF Register, ControlInv, LaunchInv, SuccessIsOwn, Direct
    <3>2. QED
      BY <1>a, <1>b, <2>1, <3>1 DEF Register
  <2>2. CASE UNCHANGED <<registry, poll>>
    BY <1>a, <2>2
  <2>3. QED
    BY <1>1, <2>1, <2>2 DEF StartRequest, Check, Clears, Wipes, ReadyReserve, InSpawn, ownVars
<1>2. ASSUME NEW p \in Process, MonitorProcess(p) \/ Crashes(p)
      PROVE  Registered'
  <2>1. CASE Registers(p)
    BY <1>a, <1>b, <2>1 DEF Registers, Move, HasRun
  <2>2. CASE Unregisters(p)
    BY <1>a, <1>b, <2>2 DEF Unregisters
  <2>3. CASE UNCHANGED <<registry, poll>>
    BY <1>a, <2>3
  <2>4. QED
    BY <1>2, <2>1, <2>2, <2>3 DEF MonitorProcess, Claims, OpensSession, Tallies, EndsRun, SkipsRun,
       MarksExit, Marks, Releases, ClearsAction, Exits, Crashes, ownVars
<1>3. ASSUME NEW r \in Request, StopRequest(r)
      PROVE  Registered'
  <2>1. CASE Finishes(r)
    BY <1>a, <1>b, <2>1 DEF Finishes
  <2>2. CASE Unrecords(r)
    BY <1>a, <2>2 DEF Unrecords
  <2>3. CASE UNCHANGED <<registry, poll>>
    BY <1>a, <2>3
  <2>4. QED
    BY <1>3, <2>1, <2>2, <2>3 DEF StopRequest, Looks, Asks, Signals, Gone, Kills, WipesSession,
       RemovesFiles, ownVars
<1>4. ASSUME NEW q \in Poller, Reads(q)
      PROVE  Registered'
  BY <1>a, <1>4 DEF Reads
<1>5. ASSUME NEW q \in Poller, Judges(q)
      PROVE  Registered'
  BY <1>a, <1>b, <1>5 DEF Judges
<1>6. CASE Create
  BY <1>a, <1>6 DEF Create
<1>7. ASSUME \/ Ticks \/ UNCHANGED allVars
             \/ \E m \in Manual : Launches(m)
      PROVE  Registered'
  BY <1>a, <1>7 DEF Ticks, Launches, ownVars, allVars
<1>8. QED
  BY <1>1, <1>2, <1>3, <1>4, <1>5, <1>6, <1>7 DEF ControlNext

(* A live process that _runtime_status takes from the registry, now or in a   *)
(* late poll, is one that owns the monitor or is leaving it, never one that   *)
(* waits for the claim: the claim it is given is never taken from the start   *)
(* that launched it, and no request is held up by it.                         *)
THEOREM AdoptedHasRun ==
  ASSUME Deleter = {}
  PROVE  ControlSpec => []\A p \in {registry.pid} \cup {poll[q].pid : q \in Poller} :
                             Adopts(p) => proc[p] \in {"owner", "released"}
<1>1. ControlInit => Registered
  BY DEF ControlInit, Registered
<1>2. Registered /\ ControlInv =>
        \A p \in {registry.pid} \cup {poll[q].pid : q \in Poller} :
           Adopts(p) => proc[p] \in {"owner", "released"}
  BY ClaimAssumption DEF Registered, Adopts, Alive, HasRun
<1>3. ControlInv /\ Registered /\ [ControlNext]_allVars /\ [Next]_vars => Registered'
  BY RegisteredStep
<1>4. QED
  BY <1>1, <1>2, <1>3, ControlInvariant, PTL DEF ControlSpec

-----------------------------------------------------------------------------
(* Pausing.  What a run writes goes to its own session row, which the next    *)
(* run replaces; a signal is sent for a request that remembers its target;    *)
(* and a request is answered when its target is gone.                         *)
SignalsAreMeant == \A p \in Process : flag[p] => \E r \in Stopper : ask[r].target = p

TargetsEnd ==
    \A r \in Stopper :
        /\ ask[r].at \in {"new", "asked", "refused"} => ask[r].target = NoProcess
        /\ ask[r].at = "waiting" => proc[ask[r].target] # "none" /\ ask[r].target \in Process
        /\ ask[r].at \in {"finishing", "done"} /\ ask[r].target # NoProcess =>
              proc[ask[r].target] # "none" /\ ask[r].target \notin Alive

PauseInv == RowIsOwn /\ SignalsAreMeant /\ TargetsEnd /\ PauseHolds

(* Only what sets a session status, opens a session or sends a signal matters. *)
LEMMA PauseStays ==
  ASSUME ControlInv, PauseInv, [Next]_vars, UNCHANGED <<session, flag, ask>>,
         \A q \in Poller : poll[q].at = "done" => poll'[q] = poll[q],
         \A p \in Owners' : phase'[p] \in {"running", "completed"} => p \in Owners /\ phase'[p] = phase[p]
  PROVE  PauseInv'
<1>1. RowIsOwn'
  BY DEF PauseInv, RowIsOwn
<1>2. SignalsAreMeant' /\ PauseHolds'
  BY DEF PauseInv, SignalsAreMeant, PauseHolds
<1>3. TargetsEnd'
  <2>1. \A r \in Stopper : ask[r].target \in Process \cup {NoProcess}
    BY DEF ControlInv, ControlTypeOK, Request
  <2>2. QED
    BY <2>1, ProcessesGoOn DEF ControlInv, PauseInv, TargetsEnd
<1>4. QED
  BY <1>1, <1>2, <1>3 DEF PauseInv

(* When a pause was answered, a live process that has a signal has it for      *)
(* another request, and no row that it still has to tally is that of the       *)
(* paused run.                                                                 *)
LEMMA AnsweredMeansGone ==
  ASSUME ControlInv, PauseInv, NEW r \in Stopper, ask[r].at = "done", NEW p \in Owners
  PROVE  /\ p # ask[r].target
         /\ flag[p] => \E q \in Stopper \ {r} : ask[q].at \notin {"new", "refused"}
         /\ phase[p] \in {"running", "completed"} => session = None \/ session.by # ask[r].target
<1>1. p \in Alive /\ p \in Process
  BY DEF Owners, Alive
<1>2. ask[r].target = NoProcess \/ ask[r].target \notin Alive
  BY DEF PauseInv, TargetsEnd
<1>3. p # ask[r].target
  BY <1>1, <1>2, ClaimAssumption
<1>4. ASSUME flag[p]
      PROVE  \E q \in Stopper \ {r} : ask[q].at \notin {"new", "refused"}
  <2>1. PICK q \in Stopper : ask[q].target = p
    BY <1>1, <1>4 DEF PauseInv, SignalsAreMeant
  <2>2. ask[q].at \notin {"new", "refused"}
    BY <1>1, <2>1, ClaimAssumption DEF PauseInv, TargetsEnd
  <2>3. QED
    BY <1>3, <2>1, <2>2
<1>5. QED
  BY <1>3, <1>4 DEF PauseInv, RowIsOwn

(* A process changes the status of the row in three steps. *)
LEMMA StatusStep ==
  ASSUME ControlInv, PauseInv, UNCHANGED <<vars, flag, ask, poll>>,
         NEW p \in Owners, NEW status \in Status, session' = session \/ SetStatus(status),
         phase' = phase \/ \E here : phase' = [phase EXCEPT ![p] = here],
         phase'[p] \in {"running", "completed"} => phase[p] = "running",
         \/ session' = session \/ phase[p] \in {"running", "completed"} \/ status = "failed"
         \/ flag[p] /\ status \in {"paused", "stopped"}
  PROVE  PauseInv'
<1>1. session' = None <=> session = None
  <2>1. CASE session = None
    BY <2>1 DEF SetStatus
  <2>2. CASE session # None
    <3>1. session \in [by : Process, status : Status]
      BY <2>2 DEF ControlInv, ControlTypeOK
    <3>2. session' \in [by : Process, status : Status]
      BY <2>2, <3>1 DEF SetStatus
    <3>3. QED
      BY <2>2, <3>2, ControlAssumption
  <2>3. QED
    BY <2>1, <2>2
<1>2. session # None => session'.by = session.by /\ session'.status \in {session.status, status}
  BY DEF SetStatus, ControlInv, ControlTypeOK
<1>3. Owners' = Owners /\ Alive' = Alive /\ proc' = proc
  BY DEF vars, Owners, Alive
<1>4. RowIsOwn'
  BY <1>1, <1>2, <1>3 DEF PauseInv, RowIsOwn, ControlInv, ControlTypeOK, Owners
<1>5. SignalsAreMeant' /\ TargetsEnd'
  BY <1>3 DEF PauseInv, SignalsAreMeant, TargetsEnd
<1>6. PauseHolds'
  <2> SUFFICES ASSUME NEW r \in Stopper, ask[r].at = "done", ask[r].action = "pause",
                      session' # None, session'.by = ask[r].target
               PROVE  \/ session'.status \in {"paused", "failed"}
                      \/ /\ session'.status = "interrupted"
                         /\ \E q \in Poller : poll[q].at = "done" /\ poll[q].status = "running"
                      \/ /\ session'.status = "stopped"
                         /\ \E q \in Stopper \ {r} : ask[q].at \notin {"new", "refused"}
    BY DEF PauseHolds
  <2>1. session # None /\ session.by = ask[r].target
    BY <1>1, <1>2
  <2>2. \/ session.status \in {"paused", "failed"}
        \/ /\ session.status = "interrupted"
           /\ \E q \in Poller : poll[q].at = "done" /\ poll[q].status = "running"
        \/ /\ session.status = "stopped"
           /\ \E q \in Stopper \ {r} : ask[q].at \notin {"new", "refused"}
    BY <2>1 DEF PauseInv, PauseHolds
  <2>3. /\ flag[p] => \E q \in Stopper \ {r} : ask[q].at \notin {"new", "refused"}
        /\ phase[p] \notin {"running", "completed"}
    BY <2>1, AnsweredMeansGone
  <2>4. CASE session' = session
    BY <2>2, <2>4
  <2>5. CASE status = "failed" \/ (flag[p] /\ status \in {"paused", "stopped"})
    BY <1>2, <2>1, <2>2, <2>3, <2>5
  <2>6. QED
    BY <2>3, <2>4, <2>5
<1>7. QED
  BY <1>4, <1>5, <1>6 DEF PauseInv

LEMMA PauseStep ==
  ASSUME Deleter = {},
         ControlInv, ControlInv', PauseInv, [ControlNext]_allVars, [Next]_vars
  PROVE  PauseInv'
<1>a. ControlTypeOK /\ TypeOK
  BY DEF ControlInv
<1>b. NoProcess \notin Process /\ Start \subseteq Process
  BY ClaimAssumption DEF Process
<1>1. ASSUME NEW s \in Start, StartRequest(s)
      PROVE  PauseInv'
  <2>1. CASE Wipes(s)
    <3>1. session' = None /\ UNCHANGED <<vars, flag, phase, ask>>
      BY <2>1 DEF Wipes
    <3>2. RowIsOwn' /\ SignalsAreMeant' /\ TargetsEnd' /\ PauseHolds'
      BY <3>1 DEF vars, PauseInv, RowIsOwn, SignalsAreMeant, TargetsEnd, PauseHolds, Alive
    <3>3. QED
      BY <3>2 DEF PauseInv
  <2>2. CASE ~Wipes(s)
    <3>1. UNCHANGED <<session, flag, ask, phase, poll>>
      BY <1>1, <2>2 DEF StartRequest, Check, Clears, ReadyReserve, InSpawn, Register, ownVars
    <3>2. Owners' \subseteq Owners
      BY <1>1, <2>2, <1>a, <1>b DEF StartRequest, Check, LooksAt, Adopt, Clears, ReadyReserve, Reserve, InSpawn,
         Spawn, Fork, ClaimSeen, Abandon, KillChild, Death, LauncherCrash, Register, vars, TypeOK, Owners
    <3>3. QED
      BY <3>1, <3>2, PauseStays
  <2>3. QED
    BY <2>1, <2>2
<1>2. ASSUME NEW p \in Process, MonitorProcess(p) \/ Crashes(p)
      PROVE  PauseInv'
  <2>1. CASE Claims(p)
    <3>1. UNCHANGED <<session, flag, ask, poll>>
      BY <2>1 DEF Claims
    <3>2. \A q \in Owners' : phase'[q] \in {"running", "completed"} => q \in Owners /\ phase'[q] = phase[q]
      BY <2>1, <1>a DEF Claims, Activate, Owners, TypeOK, ControlTypeOK
    <3>3. QED
      BY <3>1, <3>2, PauseStays
  <2>2. CASE Registers(p) \/ SkipsRun(p) \/ Unregisters(p) \/ ClearsAction(p)
    <3>1. UNCHANGED <<session, flag, ask, poll, vars>>
          /\ \E here \in {"registered", "halted", "failed", "unregistered", "cleared"} :
                phase' = [phase EXCEPT ![p] = here]
      BY <2>2 DEF Registers, SkipsRun, Unregisters, ClearsAction, Move
    <3>2. \A q \in Owners' : phase'[q] \in {"running", "completed"} => q \in Owners /\ phase'[q] = phase[q]
      BY <3>1, <1>a DEF Owners, vars, ControlTypeOK
    <3>3. QED
      BY <3>1, <3>2, PauseStays
  <2>3. CASE Releases(p) \/ Exits(p) \/ Crashes(p)
    <3>1. UNCHANGED <<session, flag, ask, phase, poll>>
      BY <2>3 DEF Releases, Exits, Crashes, ownVars
    <3>2. Owners' \subseteq Owners
      BY <2>3, <1>a DEF Releases, Release, Exits, Exit, Crashes, Die, Death, TypeOK, Owners
    <3>3. QED
      BY <3>1, <3>2, PauseStays
  <2>4. CASE OpensSession(p)
    <3>1. /\ p \in Owners /\ session' = [by |-> p, status |-> "running"]
          /\ phase' = [phase EXCEPT ![p] = "running"] /\ UNCHANGED <<vars, flag, ask>>
      BY <2>4 DEF OpensSession, Move, Owners
    <3>2. \A q \in Owners : q = p
      BY <3>1, OwnerIsSeen DEF ControlInv, ClaimInv, PidsDistinct
    <3>3. RowIsOwn'
      BY <3>1, <3>2 DEF RowIsOwn, vars, Owners
    <3>4. SignalsAreMeant' /\ TargetsEnd'
      BY <3>1 DEF PauseInv, SignalsAreMeant, TargetsEnd, vars, Alive
    <3>5. PauseHolds'
      BY <3>1, AnsweredMeansGone DEF PauseHolds
    <3>6. QED
      BY <3>3, <3>4, <3>5 DEF PauseInv
  <2>5. CASE Tallies(p)
    <3>1. /\ p \in Owners /\ phase[p] = "running" /\ SetStatus("running")
          /\ UNCHANGED <<vars, flag, ask, phase, poll>>
      BY <2>5 DEF Tallies, Owners
    <3>2. QED
      BY <3>1, StatusStep DEF Status
  <2>6. CASE EndsRun(p)
    <3>1. PICK here \in {"halted", "completed", "failed"}, status \in Status :
             p \in Owners /\ phase[p] = "running" /\ phase' = [phase EXCEPT ![p] = here]
             /\ SetStatus(status) /\ UNCHANGED <<vars, flag, ask, poll>>
      BY <2>6 DEF EndsRun, Move, Owners, Stopped, Status
    <3>2. QED
      BY <3>1, StatusStep
  <2>7. CASE MarksExit(p)
    <3>1. /\ p \in Owners /\ phase[p] \in {"completed", "failed", "halted"}
          /\ phase' = [phase EXCEPT ![p] = "marked"] /\ UNCHANGED <<vars, flag, ask, poll>>
      BY <2>7 DEF MarksExit, Marks, Move, Owners
    <3>2. PICK status \in Status : /\ session' = session \/ SetStatus(status)
                                   /\ IF flag[p] THEN status \in {"paused", "stopped"}
                                                 ELSE status = phase[p]
      BY <2>7, <3>1 DEF MarksExit, Marks, Stopped, Status, ControlInv, HaltsAreAsked, Owners
    <3>3. \/ flag[p] /\ status \in {"paused", "stopped"}
          \/ phase[p] = "completed" \/ status = "failed"
      BY <3>1, <3>2 DEF ControlInv, HaltsAreAsked, Owners
    <3>4. phase'[p] = "marked"
      BY <3>1, <1>a DEF ControlTypeOK
    <3>5. QED
      BY <3>1, <3>2, <3>3, <3>4, StatusStep
  <2>8. QED
    BY <1>2, <2>1, <2>2, <2>3, <2>4, <2>5, <2>6, <2>7 DEF MonitorProcess
<1>3. ASSUME NEW r \in Request, StopRequest(r)
      PROVE  PauseInv'
  <2>a. r \in Stopper
    BY DEF Request
  <2>b. /\ \A x \in Stopper : ask[x].target \in Process \cup {NoProcess}
        /\ Stopper \subseteq Request
    BY <1>a DEF ControlTypeOK, Request
  <2>1. CASE Looks(r)
    <3>1. /\ UNCHANGED <<session, flag, phase, poll>> /\ ask[r].at = "new"
          /\ Owners' = Owners /\ proc' = proc
      BY <2>1, <1>a DEF Looks, LooksAt, Adopt, vars, Owners, ControlInv, NoDeletes
    <3>2. /\ ask'[r].at \in {"asked", "refused"} /\ ask'[r].target = ask[r].target
          /\ \A x \in Stopper \ {r} : ask'[x] = ask[x]
      <4>1. PICK a \in Action, there \in {"asked", "refused"} :
               ask' = [ask EXCEPT ![r].at = there, ![r].action = a]
        BY <2>1, <2>a, <3>1 DEF Looks
      <4>2. ask' = [[ask EXCEPT ![r].at = there] EXCEPT ![r].action = a]
        BY <4>1
      <4>3. QED
        BY <2>b, <4>2, <1>a DEF ControlTypeOK
    <3>3. ask[r].target = NoProcess
      BY <2>a, <3>1 DEF PauseInv, TargetsEnd
    <3>4. RowIsOwn'
      BY <3>1 DEF PauseInv, RowIsOwn
    <3>5. SignalsAreMeant'
      BY <2>a, <3>1, <3>2 DEF PauseInv, SignalsAreMeant
    <3>6. TargetsEnd'
      BY <2>a, <3>1, <3>2, <3>3 DEF PauseInv, TargetsEnd, Alive
    <3>7. PauseHolds'
      BY <2>a, <3>1, <3>2 DEF PauseInv, PauseHolds
    <3>8. QED
      BY <3>4, <3>5, <3>6, <3>7 DEF PauseInv
  <2>2. CASE Asks(r) \/ Kills(r)
    <3>1. UNCHANGED <<session, flag, phase, ask, poll>>
      BY <2>2 DEF Asks, Kills, ownVars
    <3>2. Owners' \subseteq Owners
      BY <2>2, <1>a DEF Asks, Kills, Die, Death, vars, TypeOK, Owners, Alive
    <3>3. QED
      BY <3>1, <3>2, PauseStays
  <2>3. CASE Signals(r)
    <3>1. /\ UNCHANGED <<session, phase, vars, poll>> /\ ask[r].at = "asked"
          /\ ask[r].target = NoProcess
      BY <2>3, <2>a DEF Signals, PauseInv, TargetsEnd
    <3>2. \A p \in Process : flag[p] => \E q \in Stopper \ {r} : ask[q].target = p
      BY <3>1, <2>a, <1>b DEF PauseInv, SignalsAreMeant
    <3>3. RowIsOwn'
      BY <3>1 DEF PauseInv, RowIsOwn, vars, Owners
    <3>4. CASE ClaimRuns
      <4>1. claim.born \in Process /\ proc[claim.born] # "none"
        BY <3>4 DEF ClaimRuns, Matches, Alive
      <4>2. ask' = [[ask EXCEPT ![r].at = "waiting"] EXCEPT ![r].target = claim.born]
        BY <2>3, <3>4 DEF Signals
      <4>3. /\ ask'[r].at = "waiting" /\ ask'[r].target = claim.born
            /\ \A x \in Stopper \ {r} : ask'[x] = ask[x]
        BY <2>b, <4>2, <1>a DEF ControlTypeOK
      <4>4. \A p \in Process : flag'[p] => flag[p] \/ p = claim.born
        BY <2>3, <3>4, <1>a DEF Signals, ControlTypeOK
      <4>5. SignalsAreMeant'
        BY <2>a, <3>2, <4>3, <4>4 DEF SignalsAreMeant
      <4>6. TargetsEnd'
        BY <2>a, <3>1, <4>1, <4>3 DEF PauseInv, TargetsEnd, vars, Alive
      <4>7. PauseHolds'
        BY <2>a, <3>1, <4>3 DEF PauseInv, PauseHolds
      <4>8. QED
        BY <3>3, <4>5, <4>6, <4>7 DEF PauseInv
    <3>5. CASE ~ClaimRuns
      <4>1. flag' = flag /\ ask' = [ask EXCEPT ![r].at = "finishing"]
        BY <2>3, <3>5 DEF Signals, AskAt
      <4>2. /\ ask'[r].at = "finishing" /\ ask'[r].target = NoProcess
            /\ \A x \in Stopper \ {r} : ask'[x] = ask[x]
        BY <2>b, <4>1, <3>1, <1>a DEF ControlTypeOK
      <4>3. SignalsAreMeant'
        BY <3>2, <4>1, <4>2 DEF SignalsAreMeant
      <4>4. TargetsEnd'
        BY <2>a, <3>1, <4>2 DEF PauseInv, TargetsEnd, vars, Alive
      <4>5. PauseHolds'
        BY <2>a, <3>1, <4>2 DEF PauseInv, PauseHolds
      <4>6. QED
        BY <3>3, <4>3, <4>4, <4>5 DEF PauseInv
    <3>6. QED
      BY <3>4, <3>5
  <2>4. CASE Gone(r)
    <3>1. /\ UNCHANGED <<session, flag, phase, vars, poll>>
          /\ ask[r].at = "waiting" /\ ask[r].target \notin Alive
          /\ ask' = [ask EXCEPT ![r].at = "finishing"]
      BY <2>4 DEF Gone, AskAt
    <3>2. /\ ask'[r].at = "finishing" /\ ask'[r].target = ask[r].target
          /\ \A x \in Stopper \ {r} : ask'[x] = ask[x]
      BY <2>b, <3>1, <1>a DEF ControlTypeOK
    <3>3. TargetsEnd'
      BY <2>a, <3>1, <3>2 DEF PauseInv, TargetsEnd, vars, Alive
    <3>4. RowIsOwn' /\ SignalsAreMeant'
      BY <2>a, <3>1, <3>2 DEF PauseInv, RowIsOwn, SignalsAreMeant, vars, Owners
    <3>5. PauseHolds'
      BY <2>a, <3>1, <3>2 DEF PauseInv, PauseHolds
    <3>6. QED
      BY <3>3, <3>4, <3>5 DEF PauseInv
  <2>5. CASE Finishes(r)
    <3>1. /\ UNCHANGED <<flag, phase, vars, poll>> /\ ask[r].at = "finishing"
          /\ ask' = [ask EXCEPT ![r].at = "done"]
          /\ SetStatus(IF ask[r].action = "pause" THEN "paused" ELSE "stopped")
      BY <2>5 DEF Finishes, AskAt
    <3>2. /\ ask'[r].at = "done" /\ ask'[r].target = ask[r].target /\ ask'[r].action = ask[r].action
          /\ \A x \in Stopper \ {r} : ask'[x] = ask[x]
      BY <2>b, <3>1, <1>a DEF ControlTypeOK
    <3>3. TargetsEnd'
      BY <2>a, <3>1, <3>2 DEF PauseInv, TargetsEnd, vars, Alive
    <3>4. RowIsOwn'
      BY <3>1, <1>a DEF PauseInv, RowIsOwn, SetStatus, vars, Owners, ControlTypeOK
    <3>5. SignalsAreMeant'
      BY <2>a, <3>1, <3>2 DEF PauseInv, SignalsAreMeant
    <3>6. PauseHolds'
      <4>1. CASE session = None
        BY <3>1, <4>1 DEF SetStatus, PauseHolds
      <4>2. CASE session # None
        <5>1. session'.status = IF ask[r].action = "pause" THEN "paused" ELSE "stopped"
          BY <3>1, <4>2, <1>a DEF SetStatus, ControlTypeOK
        <5>2. SUFFICES ASSUME NEW x \in Stopper, x # r \/ ask[r].action = "pause",
                              session'.status = "stopped"
                       PROVE  \E q \in Stopper \ {x} : ask'[q].at \notin {"new", "refused"}
          BY <3>2, <5>1 DEF PauseHolds
        <5>3. x # r
          BY <5>1, <5>2
        <5>4. QED
          BY <2>a, <3>2, <5>3
      <4>3. QED
        BY <4>1, <4>2
    <3>7. QED
      BY <3>3, <3>4, <3>5, <3>6 DEF PauseInv
  <2>6. QED
    BY <1>3, <2>1, <2>2, <2>3, <2>4, <2>5
       DEF StopRequest, WipesSession, RemovesFiles, Unrecords, ControlInv, NoDeletes
<1>4. ASSUME \/ \E m \in Manual : Launches(m)
             \/ Create \/ Ticks \/ UNCHANGED allVars
      PROVE  PauseInv'
  <2>1. UNCHANGED <<session, flag, phase, ask, poll>>
    BY <1>4 DEF Create, Ticks, Launches, ownVars, allVars
  <2>2. Owners' \subseteq Owners
    BY <1>4, <1>a DEF Create, Ticks, Expire, Launches, LaunchManual, Fork, allVars, vars, TypeOK, Owners
  <2>3. QED
    BY <2>1, <2>2, PauseStays
<1>5. ASSUME NEW q \in Poller, Reads(q) \/ Judges(q)
      PROVE  PauseInv'
  <2>1. UNCHANGED <<flag, phase, ask>> /\ Owners' = Owners /\ proc' = proc
    BY <1>5, <1>a DEF Reads, Judges, LooksAt, Adopt, vars, Owners
  <2>2. /\ poll[q].at # "done" /\ \A x \in Poller \ {q} : poll'[x] = poll[x]
    BY <1>5, <1>a DEF Reads, Judges, ControlTypeOK
  <2>3. CASE session' = session
    BY <2>1, <2>2, <2>3, PauseStays
  <2>4. CASE session' # session
    <3>1. /\ SetStatus("interrupted") /\ poll[q].status = "running"
          /\ poll' = [poll EXCEPT ![q].at = "done"]
      BY <1>5, <2>4 DEF Reads, Judges
    <3>2. poll'[q].at = "done" /\ poll'[q].status = "running"
      BY <3>1, <1>a DEF ControlTypeOK
    <3>3. session' # None => /\ session # None /\ session'.by = session.by
                             /\ session'.status = "interrupted"
      BY <3>1, <1>a DEF SetStatus, ControlTypeOK
    <3>4. session = None => session' = None
      BY <3>1 DEF SetStatus
    <3>5. RowIsOwn'
      BY <2>1, <3>3 DEF PauseInv, RowIsOwn
    <3>6. SignalsAreMeant' /\ TargetsEnd'
      BY <2>1 DEF PauseInv, SignalsAreMeant, TargetsEnd, Alive
    <3>7. PauseHolds'
      BY <3>2, <3>3 DEF PauseHolds
    <3>8. QED
      BY <3>5, <3>6, <3>7 DEF PauseInv
  <2>5. QED
    BY <2>3, <2>4
<1>6. QED
  BY <1>1, <1>2, <1>3, <1>4, <1>5 DEF ControlNext

(* ControlSound: a run tallies its own row, and an answered pause holds        *)
(* against the end of its run, against starts, resumes and processes launched  *)
(* by hand, of any number, except for polls that had read the row before and   *)
(* for other stops and pauses.  No deletes: a delete takes the claim from a    *)
(* starting monitor, and two processes may share a row.                        *)
THEOREM AnsweredPauseHolds ==
  ASSUME Deleter = {}
  PROVE  ControlSpec => []ControlSound
<1>1. ControlInit => PauseInv
  BY DEF ControlInit, Init, PauseInv, RowIsOwn, SignalsAreMeant, TargetsEnd, PauseHolds, Owners, Request
<1>2. ControlInv /\ ControlInv' /\ PauseInv /\ [ControlNext]_allVars /\ [Next]_vars => PauseInv'
  BY PauseStep
<1>3. ControlInv /\ PauseInv => ControlSound
  BY DEF ControlInv, PauseInv, ControlSound
<1>4. QED
  BY <1>1, <1>2, <1>3, ControlInvariant, PTL DEF ControlSpec

=============================================================================
