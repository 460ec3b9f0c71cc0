---------------------------- MODULE ServerClaim_proofs ----------------------------
(***************************************************************************)
(* Proofs about the claim of a proxy server, for any sets of requests,     *)
(* processes and process numbers.                                          *)
(***************************************************************************)
EXTENDS ServerClaim, TLAPS

(* Live processes have numbers, no two the same, and dead ones have none. *)
PidsDistinct ==
    /\ \A p \in Process : p \in Alive <=> pid[p] # NoPid
    /\ \A p, q \in Alive : pid[p] = pid[q] => p = q

(* Who is named by a running claim did claim, and has only left since. *)
BornClaimed ==
    claim.state = "running" =>
        /\ claim.born \in Process
        /\ proc[claim.born] \in {"owner", "serving", "leaving", "ended", "lost"}

IInv == TypeOK /\ PidsDistinct /\ BornClaimed /\ OwnerNamed

LEMMA ClaimsAreTyped ==
  /\ NoClaim \in Claim
  /\ \A s \in Start : Starting(s) \in Claim
  /\ TypeOK => \A p \in Process : Running(p) \in Claim
BY DEF NoClaim, Claim, Starting, Running, TypeOK

(* Whose claim was not wiped is seen through the file. *)
LEMMA OwnerIsSeen ==
  ASSUME IInv, NEW p \in Owners \ wiped
  PROVE  ClaimRuns /\ ~ClaimStarts /\ claim = Running(p) /\ claim.pid = pid[p] /\ p \in Alive
<1>1. p \in Alive /\ claim = Running(p)
  BY DEF IInv, OwnerNamed, Owners, Alive
<1>2. claim.state = "running" /\ claim.pid = pid[p] /\ claim.born = p
  BY <1>1 DEF Running, NoClaim
<1>3. QED
  BY <1>1, <1>2 DEF ClaimRuns, ClaimStarts

(* Steps of the requests that touch neither claims nor processes. *)
LEMMA RequestsKeepIt ==
  ASSUME IInv, TypeOK', UNCHANGED <<claim, proc, pid, wiped>>
  PROVE  IInv'
BY DEF IInv, PidsDistinct, BornClaimed, OwnerNamed, Owners, Alive, Running

(* A release that names nobody. *)
LEMMA BlindReleaseKeepsIt ==
  ASSUME IInv, TypeOK', BlindRelease, UNCHANGED <<proc, pid>>
  PROVE  IInv'
<1>1. PidsDistinct'
  BY DEF IInv, PidsDistinct, Alive
<1>2. BornClaimed'
  BY DEF BlindRelease, BornClaimed, NoClaim
<1>3. OwnerNamed'
  BY DEF IInv, BlindRelease, OwnerNamed, Owners
<1>4. QED
  BY <1>1, <1>2, <1>3 DEF IInv

(* A process that dies, or goes on, without a word to the file. *)
LEMMA DeathKeepsIt ==
  ASSUME IInv, TypeOK', NEW p \in Process, Death(p), UNCHANGED <<claim, wiped>>
  PROVE  IInv'
<1> USE DEF IInv, TypeOK, Death
<1>1. PidsDistinct'
  BY DEF PidsDistinct, Alive
<1>2. BornClaimed'
  BY DEF BornClaimed
<1>3. OwnerNamed'
  <2> SUFFICES ASSUME NEW q \in Owners' \ wiped'
               PROVE  claim' = Running(q)'
    BY DEF OwnerNamed
  <2>1. q # p /\ q \in Owners \ wiped
    BY DEF Owners
  <2>2. QED
    BY <2>1 DEF OwnerNamed, Running, NoClaim, Owners
<1>4. QED
  BY <1>1, <1>2, <1>3

LEMMA TypeInvariant == Spec => []TypeOK
<1>1. Init => TypeOK
  BY ClaimsAreTyped DEF Init, TypeOK, RequestState, ProcessState
<1>2. TypeOK /\ [Next]_vars => TypeOK'
  <2> SUFFICES ASSUME TypeOK, [Next]_vars
               PROVE  TypeOK'
    OBVIOUS
  <2> USE DEF TypeOK, RequestState, ProcessState, Goes, Request
  <2>1. ASSUME NEW s \in Start, Reserve(s)
        PROVE  TypeOK'
    BY <2>1, ClaimsAreTyped DEF Reserve
  <2>2. ASSUME NEW s \in Start, Starts(s)
        PROVE  TypeOK'
    <3>1. CASE Writes(s)
      BY <3>1 DEF Writes
    <3>2. CASE Spawns(s)
      BY <3>2 DEF Spawns, Fork, Process
    <3>3. CASE ClaimSeen(s)
      BY <3>3 DEF ClaimSeen
    <3>4. CASE TimesOut(s)
      BY <3>4 DEF TimesOut
    <3>5. CASE Raises(s)
      BY <3>5 DEF Raises
    <3>6. CASE CleansUp(s)
      BY <3>6, ClaimsAreTyped DEF CleansUp, BlindRelease, Owners
    <3>7. CASE Succeeds(s)
      BY <3>7 DEF Succeeds
    <3>8. QED
      BY <2>2, <3>1, <3>2, <3>3, <3>4, <3>5, <3>6, <3>7 DEF Starts
  <2>3. ASSUME NEW s \in Start, StarterCrash(s)
        PROVE  TypeOK'
    BY <2>3 DEF StarterCrash
  <2>4. ASSUME NEW r \in Stopper, Begins(r)
        PROVE  TypeOK'
    BY <2>4 DEF Begins
  <2>5. ASSUME NEW r \in Request, Terminates(r)
        PROVE  TypeOK'
    <3>1. CASE Looks(r)
      BY <3>1 DEF Looks, ClaimRuns, Alive
    <3>2. CASE Signals(r)
      BY <3>2 DEF Signals, Death, Alive
    <3>3. CASE Kills(r)
      BY <3>3 DEF Kills, Death, Alive
    <3>4. CASE Gone(r)
      BY <3>4 DEF Gone
    <3>5. CASE Clears(r) \/ Deletes(r)
      BY <3>5, ClaimsAreTyped DEF Clears, Deletes, BlindRelease, Owners
    <3>6. CASE Tidies(r)
      BY <3>6 DEF Tidies
    <3>7. QED
      BY <2>5, <3>1, <3>2, <3>3, <3>4, <3>5, <3>6 DEF Terminates
  <2>6. ASSUME NEW m \in Manual, LaunchManual(m)
        PROVE  TypeOK'
    BY <2>6 DEF LaunchManual, Fork, Process
  <2>7. ASSUME NEW p \in Process, Parses(p) \/ Fails(p) \/ Binds(p) \/ Dies(p)
        PROVE  TypeOK'
    BY <2>7 DEF Parses, Fails, Binds, Dies, Death
  <2>8. ASSUME NEW p \in Process, Claims(p)
        PROVE  TypeOK'
    BY <2>8, ClaimsAreTyped DEF Claims
  <2>9. ASSUME NEW p \in Process, Leaves(p)
        PROVE  TypeOK'
    BY <2>9, ClaimsAreTyped DEF Leaves, Released
  <2>10. CASE Expire
    BY <2>10 DEF Expire, Claim
  <2>11. CASE UNCHANGED vars
    BY <2>11 DEF vars
  <2>12. QED
    BY <2>1, <2>2, <2>3, <2>4, <2>5, <2>6, <2>7, <2>8, <2>9, <2>10, <2>11 DEF Next
<1>3. QED
  BY <1>1, <1>2, PTL DEF Spec

LEMMA Invariant == Spec => []IInv
<1>1. Init => IInv
  <2>1. Init => TypeOK
    BY ClaimsAreTyped DEF Init, TypeOK, RequestState, ProcessState
  <2>2. QED
    BY <2>1 DEF Init, IInv, PidsDistinct, BornClaimed, OwnerNamed, Owners, Alive, NoClaim
<1>2. IInv /\ TypeOK' /\ [Next]_vars => IInv'
  <2> SUFFICES ASSUME IInv, TypeOK', [Next]_vars
               PROVE  IInv'
    OBVIOUS
  <2>1. ASSUME NEW s \in Start, Reserve(s)
        PROVE  IInv'
    <3>1. CASE Blocks
      BY <2>1, <3>1, RequestsKeepIt DEF Reserve
    <3>2. CASE ~Blocks
      <4>1. claim' = Starting(s) /\ UNCHANGED <<proc, pid, wiped>>
        BY <2>1, <3>2 DEF Reserve
      <4>2. Owners \ wiped = {}
        BY <3>2, OwnerIsSeen DEF Blocks
      <4>3. PidsDistinct'
        BY <4>1 DEF IInv, PidsDistinct, Alive
      <4>4. BornClaimed'
        BY <4>1 DEF BornClaimed, Starting, NoClaim
      <4>5. OwnerNamed'
        BY <4>1, <4>2 DEF OwnerNamed, Owners
      <4>6. QED
        BY <4>3, <4>4, <4>5 DEF IInv
    <3>3. QED
      BY <3>1, <3>2
  <2>2. ASSUME NEW p \in Process, Fork(p), UNCHANGED <<claim, wiped>>
        PROVE  IInv'
    <3> USE <2>2 DEF IInv, TypeOK, Fork
    <3>1. PidsDistinct'
      <4>1. PICK n \in Pid \ {pid[q] : q \in Alive} : pid' = [pid EXCEPT ![p] = n]
        OBVIOUS
      <4>2. Alive' = Alive \cup {p} /\ p \notin Alive
        BY DEF Alive
      <4>3. QED
        BY <4>1, <4>2, ServerAssumption DEF PidsDistinct, Alive
    <3>2. BornClaimed'
      BY DEF BornClaimed
    <3>3. OwnerNamed'
      <4> SUFFICES ASSUME NEW q \in Owners' \ wiped'
                   PROVE  claim' = Running(q)'
        BY DEF OwnerNamed
      <4>1. q # p /\ q \in Owners \ wiped
        BY DEF Owners
      <4>2. QED
        BY <4>1 DEF OwnerNamed, Running, NoClaim, Owners
    <3>4. QED
      BY <3>1, <3>2, <3>3
  <2>3. ASSUME NEW s \in Start, Starts(s)
        PROVE  IInv'
    <3>1. CASE Writes(s) \/ ClaimSeen(s) \/ Succeeds(s) \/ TimesOut(s) \/ Raises(s)
      BY <3>1, RequestsKeepIt DEF Writes, ClaimSeen, Succeeds, TimesOut, Raises
    <3>2. CASE Spawns(s)
      BY <3>2, <2>2 DEF Spawns, Process
    <3>3. CASE CleansUp(s)
      BY <3>3, BlindReleaseKeepsIt DEF CleansUp
    <3>4. QED
      BY <2>3, <3>1, <3>2, <3>3 DEF Starts
  <2>4. ASSUME NEW r \in Request, Terminates(r)
        PROVE  IInv'
    <3>1. CASE Looks(r) \/ Gone(r) \/ Tidies(r)
      BY <3>1, RequestsKeepIt DEF Looks, Gone, Tidies
    <3>2. CASE Clears(r) \/ Deletes(r)
      BY <3>2, BlindReleaseKeepsIt DEF Clears, Deletes
    <3>3. CASE Kills(r)
      BY <3>3, DeathKeepsIt DEF Kills, Alive
    <3>4. CASE Signals(r)
      <4>1. CASE proc[target[r]] = "serving"
        <5>1. proc' = [proc EXCEPT ![target[r]] = "leaving"] /\ UNCHANGED <<claim, pid, wiped>>
          BY <3>4, <4>1 DEF Signals
        <5>2. Alive' = Alive /\ Owners' = Owners
          BY <4>1, <5>1 DEF IInv, TypeOK, Alive, Owners
        <5>3. BornClaimed'
          BY <4>1, <5>1 DEF IInv, TypeOK, BornClaimed
        <5>4. QED
          BY <5>1, <5>2, <5>3 DEF IInv, PidsDistinct, OwnerNamed, Running
      <4>2. CASE proc[target[r]] # "serving" /\ target[r] \in Alive \ {q \in Process : proc[q] = "leaving"}
        BY <3>4, <4>2, DeathKeepsIt DEF Signals, Alive
      <4>3. CASE proc[target[r]] # "serving" /\ target[r] \notin Alive \ {q \in Process : proc[q] = "leaving"}
        BY <3>4, <4>3, RequestsKeepIt DEF Signals
      <4>4. QED
        BY <4>1, <4>2, <4>3
    <3>5. QED
      BY <2>4, <3>1, <3>2, <3>3, <3>4 DEF Terminates
  <2>5. ASSUME NEW p \in Process, Claims(p)
        PROVE  IInv'
    <3> USE <2>5 DEF Claims
    <3>1. p \in Alive /\ proc[p] = "parsed" /\ claim' = Running(p)
      BY DEF Alive
    <3>2. Owners \ wiped = {}
      <4> SUFFICES ASSUME NEW q \in Owners \ wiped
                   PROVE  FALSE
        OBVIOUS
      <4>1. pid[q] = pid[p] /\ q \in Alive
        BY OwnerIsSeen DEF Accepts
      <4>2. q = p
        BY <3>1, <4>1 DEF IInv, PidsDistinct
      <4>3. QED
        BY <3>1, <4>2 DEF Owners
    <3>3. Alive' = Alive /\ Owners' = Owners \cup {p}
      BY <3>1 DEF IInv, TypeOK, Alive, Owners
    <3>4. PidsDistinct'
      BY <3>3 DEF IInv, PidsDistinct
    <3>5. BornClaimed'
      BY <3>1 DEF IInv, TypeOK, BornClaimed, Running, NoClaim
    <3>6. OwnerNamed'
      BY <3>1, <3>2, <3>3 DEF OwnerNamed, Running
    <3>7. QED
      BY <3>4, <3>5, <3>6 DEF IInv
  <2>6. ASSUME NEW p \in Process, Leaves(p)
        PROVE  IInv'
    <3> USE <2>6 DEF Leaves, IInv, TypeOK
    <3>1. PidsDistinct'
      BY DEF PidsDistinct, Alive
    <3>2. BornClaimed'
      BY DEF BornClaimed, Released, NoClaim
    <3>3. OwnerNamed'
      <4> SUFFICES ASSUME NEW q \in Owners' \ wiped'
                   PROVE  claim' = Running(q)'
        BY DEF OwnerNamed
      <4>1. q # p /\ q \in Owners \ wiped
        BY DEF Owners
      <4>2. claim = Running(q) /\ claim.pid = pid[q] /\ q \in Alive
        BY <4>1, OwnerIsSeen
      <4>3. p \in Alive
        BY DEF Alive
      <4>4. claim.pid \notin {NoPid, pid[p]}
        BY <4>1, <4>2, <4>3 DEF PidsDistinct, Owners
      <4>5. claim' = claim
        BY <4>4 DEF Released
      <4>6. QED
        BY <4>1, <4>2, <4>5 DEF Running, Owners
    <3>4. QED
      BY <3>1, <3>2, <3>3
  <2>7. ASSUME NEW p \in Process, Parses(p) \/ Fails(p)
        PROVE  IInv'
    <3>1. CASE Death(p)
      BY <2>7, <3>1, DeathKeepsIt DEF Parses, Fails
    <3>2. CASE proc[p] \in {"booting", "parsed"} /\ proc'[p] \in {"parsed", "rejected"}
               /\ UNCHANGED pid
      <4>1. Alive' = Alive /\ Owners' = Owners /\ UNCHANGED <<claim, wiped>>
        BY <2>7, <3>2 DEF IInv, TypeOK, Alive, Owners, Parses, Fails, Death
      <4>2. BornClaimed'
        BY <2>7, <3>2, <4>1 DEF IInv, TypeOK, BornClaimed, Parses, Fails, Death
      <4>3. QED
        BY <3>2, <4>1, <4>2 DEF IInv, PidsDistinct, OwnerNamed, Running
    <3>3. QED
      BY <2>7, <3>1, <3>2 DEF Parses, Fails, IInv, TypeOK
  <2>8. ASSUME NEW p \in Process, Binds(p)
        PROVE  IInv'
    <3>1. Alive' = Alive /\ Owners' = Owners /\ UNCHANGED <<claim, pid, wiped>>
      BY <2>8 DEF IInv, TypeOK, Alive, Owners, Binds
    <3>2. BornClaimed'
      BY <2>8 DEF IInv, TypeOK, BornClaimed, Binds
    <3>3. QED
      BY <3>1, <3>2 DEF IInv, PidsDistinct, OwnerNamed, Running
  <2>9. CASE Expire
    <3>1. Owners \ wiped = {}
      BY <2>9, OwnerIsSeen DEF Expire
    <3>2. claim'.state = "starting" /\ UNCHANGED <<proc, pid, wiped>>
      BY <2>9 DEF Expire, ClaimStarts, IInv, TypeOK, Claim
    <3>3. QED
      BY <3>1, <3>2 DEF IInv, PidsDistinct, Alive, BornClaimed, OwnerNamed, Owners
  <2>10. ASSUME NEW p \in Process, Dies(p)
         PROVE  IInv'
    BY <2>10, DeathKeepsIt DEF Dies
  <2>11. ASSUME NEW m \in Manual, LaunchManual(m)
         PROVE  IInv'
    BY <2>2, <2>11 DEF LaunchManual, Process
  <2>12. ASSUME NEW r, StarterCrash(r) \/ Begins(r)
         PROVE  IInv'
    BY <2>12, RequestsKeepIt DEF StarterCrash, Begins
  <2>13. CASE UNCHANGED vars
    BY <2>13, RequestsKeepIt DEF vars
  <2>14. QED
    BY <2>1, <2>3, <2>4, <2>5, <2>6, <2>7, <2>8, <2>9, <2>10, <2>11, <2>12, <2>13 DEF Next
<1>3. QED
  BY <1>1, <1>2, TypeInvariant, PTL DEF Spec

(* The claim file is well formed, and a process that claimed the server is the *)
(* one it names, unless a release that names nobody took its claim away.       *)
THEOREM ServersAreNamed == Spec => []ClaimSound
<1>1. IInv => ClaimSound
  BY DEF IInv, ClaimSound
<1>2. QED
  BY <1>1, Invariant, PTL

(* wait_until_claimed compares numbers only; that the process with the number *)
(* of its child is its child, and has claimed, is what lets a start report    *)
(* success.                                                                   *)
THEOREM SuccessIsTrue == Spec => SuccessIsOwn
<1>1. IInv /\ [Next]_vars
      => [\A s \in Start : at[s] = "waiting" /\ at'[s] \in {"saving", "done"} => s \in Owners]_vars
  <2> SUFFICES ASSUME IInv, Next, NEW s \in Start, at[s] = "waiting",
                      at'[s] \in {"saving", "done"}
               PROVE  s \in Owners
    BY DEF vars
  <2>1. ClaimSeen(s)
    <3> USE DEF IInv, TypeOK, Goes, Request
    <3>1. ASSUME NEW t \in Start, Starts(t)
          PROVE  ClaimSeen(s)
      BY <3>1 DEF Starts, Writes, Spawns, ClaimSeen, Succeeds, TimesOut, Raises, CleansUp
    <3>2. ASSUME NEW t \in Start, Reserve(t) \/ StarterCrash(t)
          PROVE  FALSE
      BY <3>2 DEF Reserve, StarterCrash
    <3>3. ASSUME NEW r \in Request, Terminates(r)
          PROVE  FALSE
      BY <3>3 DEF Terminates, Looks, Signals, Kills, Gone, Clears, Deletes, Tidies
    <3>4. ASSUME NEW r \in Stopper, Begins(r)
          PROVE  FALSE
      BY <3>4 DEF Begins
    <3>5. ASSUME UNCHANGED at
          PROVE  FALSE
      BY <3>5
    <3>6. QED
      BY <3>1, <3>2, <3>3, <3>4, <3>5
         DEF Next, LaunchManual, Parses, Claims, Fails, Binds, Leaves, Dies, Expire
  <2>2. PICK p \in Alive : pid[p] = claim.pid /\ p = claim.born
    BY <2>1 DEF ClaimSeen, Sees, ClaimRuns
  <2>3. s \in Process /\ pid[s] = pid[p] /\ pid[p] # NoPid
    BY <2>1, <2>2 DEF ClaimSeen, Sees, Process, IInv, PidsDistinct, Alive
  <2>4. s = p
    BY <2>2, <2>3 DEF IInv, PidsDistinct
  <2>5. proc[p] \in {"owner", "serving", "leaving", "ended", "lost"}
    BY <2>1, <2>2 DEF ClaimSeen, Sees, ClaimRuns, IInv, BornClaimed
  <2>6. QED
    BY <2>2, <2>4, <2>5 DEF Alive, Owners
<1>2. QED
  BY <1>1, Invariant, PTL DEF Spec, SuccessIsOwn
=============================================================================
