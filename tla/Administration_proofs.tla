-------------------------- MODULE Administration_proofs --------------------------
(***************************************************************************)
(* Proofs about what overlapping requests keep: an administrator and the   *)
(* tokens of users (Access), for any finite users and requests, and the    *)
(* file of server profiles (Registry), for any ports, configurations and   *)
(* requests.  The two share no state.                                      *)
(***************************************************************************)
EXTENDS Access, Registry, FiniteSetTheorems, TLAPS

(***************************************************************************)
(* Users and tokens.                                                       *)
(***************************************************************************)
(* What the argument needs to know of the shape of the state. *)
Request == [at : {"idle", "looked", "verified", "ended"}, what : {"none", "update", "delete", "login"},
            by : Uid \cup {0}, target : Uid \cup {0}, role : Roles \cup {Nobody},
            active : BOOLEAN \cup {Nobody}, secret : Secret \cup {Nobody}, who : Nat]

Shape ==
    /\ users \in [Uid -> User \cup {Nobody}]
    /\ ask \in [Actor -> Request]
    /\ born \in 0..MaxBorn

(* A request that has looked and will take an administrator away. *)
Takes(a) ==
    /\ ask[a].at = "looked" /\ ask[a].target \in ActiveAdmins
    /\ \/ ask[a].what = "delete"
       \/ ask[a].what = "update" /\ (ask[a].active = FALSE \/ ask[a].role \in Roles \ {"admin"})

(* Another administrator than the one it takes away is still there, as long as *)
(* nobody wrote behind its back.                                               *)
Covered ==
    /\ ActiveAdmins # {}
    /\ \A a \in Actor : Takes(a) => \E v \in ActiveAdmins : v # ask[a].target

IInv == Shape /\ (raced \/ unchecked \/ Covered)

LEMMA SeveralMeansAnother ==
  ASSUME NEW u, Cardinality(ActiveAdmins) > 1
  PROVE  \E v \in ActiveAdmins : v # u
<1>1. SUFFICES ASSUME ActiveAdmins \subseteq {u}
               PROVE  FALSE
  OBVIOUS
<1>2. IsFiniteSet({u}) /\ Cardinality({u}) = 1
  BY FS_Singleton
<1>3. Cardinality(ActiveAdmins) <= 1 /\ Cardinality(ActiveAdmins) \in Nat
  BY <1>1, <1>2, FS_Subset, FS_CardinalityType
<1>4. QED
  BY <1>3

(* Users that keep their rights, and requests that end or stay, keep all covered. *)
LEMMA KeepingCovers ==
  ASSUME Covered, ActiveAdmins \subseteq ActiveAdmins',
         \A a \in Actor : ask'[a] = ask[a] \/ ask'[a].at # "looked"
  PROVE  Covered'
<1>1. ActiveAdmins' # {}
  BY DEF Covered
<1>2. ASSUME NEW a \in Actor, Takes(a)'
      PROVE  \E v \in ActiveAdmins' : v # ask'[a].target
  <2>1. ask'[a] = ask[a] /\ ask[a].at = "looked"
    BY <1>2 DEF Takes
  <2>2. CASE ask[a].target \in ActiveAdmins
    BY <1>2, <2>1, <2>2 DEF Covered, Takes
  <2>3. CASE ask[a].target \notin ActiveAdmins
    BY <2>1, <2>3 DEF Covered
  <2>4. QED
    BY <2>2, <2>3
<1>3. QED
  BY <1>1, <1>2 DEF Covered

LEMMA NobodyIsNoUser ==
  /\ Known = {u \in Uid : users[u] # Nobody}
  /\ Nobody \notin User /\ Nobody \notin Roles /\ Nobody \notin BOOLEAN
BY AccessAssumption DEF Known

LEMMA SameUsersKeepIt ==
  ASSUME IInv, UNCHANGED <<users, ask, born, raced, unchecked>>
  PROVE  IInv'
BY DEF IInv, Shape, Covered, Takes, ActiveAdmins, Known

(* A new user takes nobody's place. *)
LEMMA CreatingKeepsIt ==
  ASSUME IInv, NEW role \in Roles, NEW active \in BOOLEAN, NEW s \in Secret,
         Created(role, active, s), unchecked' \/ UNCHANGED unchecked
  PROVE  IInv'
<1> DEFINE new == [role |-> role, active |-> active, secret |-> s, who |-> born + 1]
<1>1. PICK u \in NextUid : users' = [users EXCEPT ![u] = new]
  BY DEF Created
<1>2. UNCHANGED <<ask, raced>> /\ born' = born + 1 /\ born < MaxBorn
  BY DEF Created
<1>3. new \in User
  BY <1>2, AccessAssumption DEF IInv, Shape, User
<1> HIDE DEF new
<1>4. u \in Uid /\ u \notin Known
  BY AccessAssumption DEF NextUid, Known
<1>5. Shape'
  BY <1>1, <1>2, <1>3, <1>4, AccessAssumption DEF IInv, Shape
<1>6. ActiveAdmins \subseteq ActiveAdmins'
  BY <1>1, <1>4 DEF IInv, Shape, ActiveAdmins, Known
<1>7. Covered => Covered'
  BY <1>2, <1>6, KeepingCovers
<1>8. QED
  BY <1>2, <1>5, <1>7 DEF IInv

LEMMA AdministratorsAreKept == AccessSpec => []IInv
<1>1. AccessInit => IInv
  <2> SUFFICES ASSUME AccessInit PROVE IInv
    OBVIOUS
  <2>1. NoAsk \in Request /\ Silent \in Request /\ NoAsk.at # "looked" /\ Silent.at # "looked"
    BY DEF NoAsk, Silent, Request, Environment
  <2>2. Shape
    BY <2>1, AccessAssumption DEF AccessInit, Shape, User, Roles
  <2>3. 1 \in ActiveAdmins
    <3>1. 1 \in Uid /\ users[1] # Nobody /\ users[1].active = TRUE /\ users[1].role = "admin"
      <4> DEFINE first(s) == [role |-> "admin", active |-> TRUE, secret |-> s, who |-> 1]
      <4>1. 1 \in Uid
        BY AccessAssumption
      <4>2. PICK s \in Secret : users[1] = first(s)
        <5>1. PICK s \in Secret :
                 users = [u \in Uid |-> CASE u = 1 -> first(s)
                                          [] u = 2 -> [role |-> "manager", active |-> TRUE, secret |-> s, who |-> 2]
                                          [] OTHER -> Nobody]
          BY Zenon DEF AccessInit
        <5> HIDE DEF first
        <5>2. users[1] = first(s)
          BY <4>1, <5>1
        <5>3. QED
          BY <5>2
      <4>3. first(s) \in User /\ first(s).active = TRUE /\ first(s).role = "admin"
        BY AccessAssumption DEF User, Roles
      <4> HIDE DEF first
      <4>4. QED
        BY <4>1, <4>2, <4>3, NobodyIsNoUser
    <3>2. QED
      BY <3>1 DEF ActiveAdmins, Known, Privileged
  <2>4. \A a \in Actor : ~Takes(a)
    BY <2>1 DEF AccessInit, Takes
  <2>5. QED
    BY <2>2, <2>3, <2>4 DEF IInv, Covered
<1>2. IInv /\ [AccessNext]_accessVars => IInv'
  <2> SUFFICES ASSUME IInv, [AccessNext]_accessVars
               PROVE  IInv'
    OBVIOUS
  <2>1. ASSUME NEW a \in Actor, NEW by \in Uid \cup {Environment}, NEW u \in Uid, DeleteLooks(a, by, u)
        PROVE  IInv'
    <3> DEFINE r == [NoAsk EXCEPT !.at = "looked", !.what = "delete", !.by = by, !.target = u]
    <3>1. r \in Request /\ r.target = u /\ r.what = "delete"
      BY DEF NoAsk, Request, Environment
    <3>2. ask' = [ask EXCEPT ![a] = r] /\ UNCHANGED <<users, born, raced, unchecked>>
      BY <2>1 DEF DeleteLooks, Looked
    <3> HIDE DEF r
    <3>3. Shape'
      BY <3>1, <3>2 DEF IInv, Shape
    <3>4. ActiveAdmins' = ActiveAdmins
      BY <3>2 DEF ActiveAdmins, Known
    <3>5. u \in ActiveAdmins => \E v \in ActiveAdmins : v # u
      <4>1. u \in ActiveAdmins => Cardinality(ActiveAdmins) > 1
        BY <2>1 DEF DeleteLooks, NotLast, ActiveAdmins, Known
      <4>2. QED
        BY <4>1, SeveralMeansAnother
    <3>6. Covered => Covered'
      BY <3>1, <3>2, <3>4, <3>5 DEF Covered, Takes, IInv, Shape
    <3>7. QED
      BY <3>2, <3>3, <3>6 DEF IInv
  <2>2. ASSUME NEW a \in Actor, NEW by \in Uid \cup {Environment}, NEW u \in Uid, u \in Known,
               NEW change \in Changes(users[u]), UpdateLooks(a, by, u, change)
        PROVE  IInv'
    <3> DEFINE r == [at |-> "looked", what |-> "update", by |-> by, target |-> u, who |-> 0,
                     role |-> change.role, active |-> change.active, secret |-> change.secret]
    <3>1. users[u] \in User
      BY <2>2 DEF IInv, Shape, Known
    <3>2. change \in [role : Roles \cup {Nobody}, active : BOOLEAN \cup {Nobody}, secret : Secret \cup {Nobody}]
      <4>1. CASE \E role \in Roles : change = [role |-> role, active |-> Nobody, secret |-> Nobody]
        BY <4>1
      <4>2. CASE change = [role |-> Nobody, active |-> ~users[u].active, secret |-> Nobody]
        BY <4>2
      <4>3. CASE \E s \in Secret : change = [role |-> Nobody, active |-> Nobody, secret |-> s]
        BY <4>3
      <4>4. QED
        BY <2>2, <4>1, <4>2, <4>3 DEF Changes
    <3>3. r \in Request /\ r.target = u /\ r.what = "update" /\ r.role = change.role /\ r.active = change.active
      BY <3>2 DEF Request, Environment
    <3>4. ask' = [ask EXCEPT ![a] = r] /\ UNCHANGED <<users, born, raced, unchecked>>
      BY <2>2 DEF UpdateLooks, Looked
    <3> HIDE DEF r
    <3>5. Shape'
      BY <3>3, <3>4 DEF IInv, Shape
    <3>6. ActiveAdmins' = ActiveAdmins
      BY <3>4 DEF ActiveAdmins, Known
    <3>7. u \in ActiveAdmins /\ (change.active = FALSE \/ change.role \in Roles \ {"admin"})
            => \E v \in ActiveAdmins : v # u
      <4> SUFFICES ASSUME u \in ActiveAdmins, change.active = FALSE \/ change.role \in Roles \ {"admin"}
                   PROVE  \E v \in ActiveAdmins : v # u
        OBVIOUS
      <4>1. Cardinality(ActiveAdmins) > 1
        <5>1. users[u].role = "admin"
          BY DEF ActiveAdmins, Privileged
        <5>2. NotLast(u, Else(change.role, users[u].role), Else(change.active, users[u].active))
          BY <2>2 DEF UpdateLooks
        <5>3. CASE change.active = FALSE
          <6>1. Else(change.active, users[u].active) = FALSE
            BY <5>3, NobodyIsNoUser DEF Else
          <6>2. QED
            BY <5>1, <5>2, <6>1 DEF NotLast, Privileged
        <5>4. CASE change.role \in Roles \ {"admin"}
          <6>1. Else(change.role, users[u].role) # "admin"
            BY <5>4, NobodyIsNoUser DEF Else
          <6>2. QED
            BY <5>1, <5>2, <6>1 DEF NotLast, Privileged
        <5>5. QED
          BY <5>3, <5>4
      <4>2. QED
        BY <4>1, SeveralMeansAnother
    <3>8. Covered => Covered'
      BY <3>3, <3>4, <3>6, <3>7 DEF Covered, Takes, IInv, Shape
    <3>9. QED
      BY <3>4, <3>5, <3>8 DEF IInv
  <2>3. ASSUME NEW a \in Actor, Updates(a)
        PROVE  IInv'
    <3> DEFINE r == ask[a]
               u == ask[a].target
    <3>1. /\ r \in Request /\ r.at = "looked" /\ r.what = "update"
          /\ ask' = [ask EXCEPT ![a] = Silent] /\ UNCHANGED <<born, unchecked>>
      BY <2>3 DEF Updates, Ended, IInv, Shape
    <3>2. Silent \in Request /\ Silent.at # "looked"
      BY DEF NoAsk, Silent, Request, Environment
    <3>3. CASE u \notin Known
      <4>1. UNCHANGED <<users, raced>>
        BY <2>3, <3>3 DEF Updates
      <4>2. Shape' /\ ActiveAdmins' = ActiveAdmins
        BY <3>1, <3>2, <4>1 DEF IInv, Shape, ActiveAdmins, Known
      <4>3. Covered => Covered'
        BY <3>1, <3>2, <4>2, KeepingCovers DEF IInv, Shape
      <4>4. QED
        BY <3>1, <4>1, <4>2, <4>3 DEF IInv
    <3>4. CASE u \in Known
      <4> DEFINE new == [users[u] EXCEPT !.role = Else(r.role, @), !.active = Else(r.active, @),
                                         !.secret = Else(r.secret, @)]
      <4>1. users' = [users EXCEPT ![u] = new] /\ raced' = (raced \/ OthersLooked(a))
        BY <2>3, <3>4 DEF Updates
      <4>2. users[u] \in User /\ u \in Uid
        BY <3>4 DEF IInv, Shape, Known
      <4>3. /\ new \in User
            /\ new.role = Else(r.role, users[u].role) /\ new.active = Else(r.active, users[u].active)
        BY <3>1, <4>2 DEF User, Request, Else
      <4> HIDE DEF new
      <4>4. Shape'
        BY <3>1, <3>2, <4>1, <4>2, <4>3 DEF IInv, Shape
      <4>5. ASSUME ~raced', ~unchecked, Covered
            PROVE  Covered'
        <5>1. \A b \in Actor : ~Takes(b)'
          BY <3>1, <3>2, <4>1, <4>5 DEF Takes, OthersLooked, IInv, Shape
        <5>2. \A v \in ActiveAdmins : v # u => v \in ActiveAdmins'
          BY <4>1, <4>4 DEF IInv, Shape, ActiveAdmins, Known
        <5>3. ActiveAdmins' # {}
          <6>1. CASE \E v \in ActiveAdmins : v # u
            BY <5>2, <6>1
          <6>2. CASE ActiveAdmins \subseteq {u}
            <7>1. u \in ActiveAdmins /\ ~Takes(a)
              BY <4>5, <6>2 DEF Covered
            <7>2. r.active # FALSE /\ r.role \notin Roles \ {"admin"}
              BY <3>1, <7>1 DEF Takes
            <7>3. users[u].active = TRUE /\ users[u].role = "admin"
              BY <4>2, <7>1 DEF ActiveAdmins, Privileged, User
            <7>4. Else(r.active, users[u].active) = TRUE
              BY <3>1, <7>2, <7>3 DEF Else, Request
            <7>5. Else(r.role, users[u].role) = "admin"
              BY <3>1, <7>2, <7>3 DEF Else, Request
            <7>6. users'[u] = new /\ new # Nobody
              BY <4>1, <4>2, <4>3, NobodyIsNoUser DEF IInv, Shape
            <7>7. u \in ActiveAdmins'
              BY <4>2, <4>3, <7>4, <7>5, <7>6 DEF ActiveAdmins, Known, Privileged
            <7>8. QED
              BY <7>7
          <6>3. QED
            BY <6>1, <6>2
        <5>4. QED
          BY <5>1, <5>3 DEF Covered
      <4>6. QED
        BY <3>1, <4>1, <4>4, <4>5 DEF IInv
    <3>5. QED
      BY <3>3, <3>4
  <2>4. ASSUME NEW a \in Actor, Deletes(a)
        PROVE  IInv'
    <3> DEFINE u == ask[a].target
    <3>1. /\ ask[a].at = "looked" /\ ask[a].what = "delete"
          /\ users' = [users EXCEPT ![u] = Nobody]
          /\ raced' = (raced \/ OthersLooked(a))
          /\ ask' = [ask EXCEPT ![a] = Silent] /\ UNCHANGED <<born, unchecked>>
      BY <2>4 DEF Deletes, Ended
    <3>2. Silent \in Request /\ Silent.at # "looked"
      BY DEF NoAsk, Silent, Request, Environment
    <3>3. Shape'
      BY <3>1, <3>2 DEF IInv, Shape
    <3>4. ASSUME ~raced', ~unchecked, Covered
          PROVE  Covered'
      <4>1. \A b \in Actor : ~Takes(b)'
        BY <3>1, <3>2, <3>4 DEF Takes, OthersLooked, IInv, Shape
      <4>2. \A v \in ActiveAdmins : v # u => v \in ActiveAdmins'
        BY <3>1, <3>3 DEF IInv, Shape, ActiveAdmins, Known
      <4>3. \E v \in ActiveAdmins : v # u
        <5>1. CASE u \in ActiveAdmins
          BY <3>1, <3>4, <5>1 DEF Covered, Takes
        <5>2. CASE u \notin ActiveAdmins
          BY <3>4, <5>2 DEF Covered
        <5>3. QED
          BY <5>1, <5>2
      <4>4. QED
        BY <4>1, <4>2, <4>3 DEF Covered
    <3>5. QED
      BY <3>1, <3>3, <3>4 DEF IInv
  <2>5. ASSUME NEW a \in Actor, CreatesToken(a)
        PROVE  IInv'
    <3>1. ask' = [ask EXCEPT ![a] = Silent] /\ UNCHANGED <<users, born, raced, unchecked>>
      BY <2>5 DEF CreatesToken, Ended
    <3>2. Silent \in Request /\ Silent.at # "looked"
      BY DEF NoAsk, Silent, Request, Environment
    <3>3. Shape' /\ ActiveAdmins' = ActiveAdmins
      BY <3>1, <3>2 DEF IInv, Shape, ActiveAdmins, Known
    <3>4. Covered => Covered'
      BY <3>1, <3>2, <3>3, KeepingCovers DEF IInv, Shape
    <3>5. QED
      BY <3>1, <3>3, <3>4 DEF IInv
  <2>6. ASSUME NEW a \in Actor, NEW u \in Uid, NEW s \in Secret, Verifies(a, u, s)
        PROVE  IInv'
    <3> DEFINE r == [NoAsk EXCEPT !.at = "verified", !.what = "login", !.target = u, !.secret = s,
                                  !.who = users[u].who]
    <3>1. users[u] \in User
      BY <2>6 DEF Verifies, IInv, Shape, Known
    <3>2. r \in Request /\ r.at = "verified"
      <4>1. users[u].who \in Nat
        BY <3>1, AccessAssumption DEF User
      <4>2. QED
        BY <4>1 DEF NoAsk, Request, Environment
    <3>3. ask' = [ask EXCEPT ![a] = r] /\ UNCHANGED <<users, born, raced, unchecked>>
      BY <2>6 DEF Verifies, Looked
    <3> HIDE DEF r
    <3>4. Shape' /\ ActiveAdmins' = ActiveAdmins
      BY <3>2, <3>3 DEF IInv, Shape, ActiveAdmins, Known
    <3>5. Covered => Covered'
      BY <3>2, <3>3, <3>4, KeepingCovers DEF IInv, Shape
    <3>6. QED
      BY <3>3, <3>4, <3>5 DEF IInv
  <2>7. ASSUME NEW by, NEW role \in Roles, NEW s \in Secret, Creates(by, role, s)
        PROVE  IInv'
    <3>1. Created(role, TRUE, s) /\ UNCHANGED unchecked
      BY <2>7 DEF Creates
    <3>2. QED
      BY <3>1, CreatingKeepsIt
  <2>8. CASE (\E t \in tokens : TokenExpires(t) \/ TokenShown(t)) \/ TokensCleaned \/ \E u \in Uid : Logout(u)
    BY <2>8, SameUsersKeepIt DEF TokenExpires, TokenShown, TokensCleaned, Logout
  <2>9. ASSUME NEW u \in Uid, NEW s \in Secret, ChangesOwnPassword(u, s)
        PROVE  IInv'
    <3>1. /\ users[u] \in User /\ users' = [users EXCEPT ![u].secret = s]
          /\ UNCHANGED <<ask, born, raced, unchecked>>
      BY <2>9 DEF ChangesOwnPassword, IInv, Shape, Known
    <3>2. /\ users'[u] \in User
          /\ users'[u].role = users[u].role /\ users'[u].active = users[u].active
      BY <3>1 DEF IInv, Shape, User
    <3>3. Shape'
      BY <3>1, <3>2 DEF IInv, Shape
    <3>4. ActiveAdmins \subseteq ActiveAdmins'
      BY <3>1, <3>2, NobodyIsNoUser DEF IInv, Shape, ActiveAdmins, Known
    <3>5. Covered => Covered'
      BY <3>1, <3>4, KeepingCovers
    <3>6. QED
      BY <3>1, <3>3, <3>5 DEF IInv
  <2>10. ASSUME NEW u \in Uid,
                \/ \E active \in BOOLEAN : SetsActive(u, active)
                \/ \E role \in Roles : SetsRole(u, role)
                \/ \E s \in Secret : SetsPassword(u, s) \/ UpdatesAdmin(u, s)
         PROVE  IInv'
    <3>1. UNCHANGED <<ask, born>> /\ unchecked' /\ u \in Known
      BY <2>10 DEF SetsActive, SetsRole, SetsPassword, UpdatesAdmin, FromOutside
    <3>2. users[u] \in User
      BY <3>1 DEF IInv, Shape, Known
    <3>3. PICK new \in User : users' = [users EXCEPT ![u] = new]
      <4>1. ASSUME NEW active \in BOOLEAN, SetsActive(u, active)
            PROVE  \E new \in User : users' = [users EXCEPT ![u] = new]
        <5>1. [users[u] EXCEPT !.active = active] \in User
          BY <3>2 DEF User
        <5>2. QED
          BY <4>1, <5>1 DEF SetsActive
      <4>2. ASSUME NEW role \in Roles, SetsRole(u, role)
            PROVE  \E new \in User : users' = [users EXCEPT ![u] = new]
        <5>1. [users[u] EXCEPT !.role = role] \in User
          BY <3>2 DEF User
        <5>2. QED
          BY <4>2, <5>1 DEF SetsRole
      <4>3. ASSUME NEW s \in Secret, SetsPassword(u, s)
            PROVE  \E new \in User : users' = [users EXCEPT ![u] = new]
        <5>1. [users[u] EXCEPT !.secret = s] \in User
          BY <3>2 DEF User
        <5>2. QED
          BY <4>3, <5>1 DEF SetsPassword
      <4>4. ASSUME NEW s \in Secret, UpdatesAdmin(u, s)
            PROVE  \E new \in User : users' = [users EXCEPT ![u] = new]
        <5>1. [users[u] EXCEPT !.role = "admin", !.active = TRUE, !.secret = s] \in User
          BY <3>2 DEF User, Roles
        <5>2. users' = [users EXCEPT ![u] = [users[u] EXCEPT !.role = "admin", !.active = TRUE, !.secret = s]]
          BY <4>4 DEF UpdatesAdmin, IInv, Shape
        <5>3. QED
          BY <5>1, <5>2
      <4>5. QED
        BY <2>10, <4>1, <4>2, <4>3, <4>4
    <3>4. Shape'
      BY <3>1, <3>3 DEF IInv, Shape
    <3>5. QED
      BY <3>1, <3>4 DEF IInv
  <2>11. ASSUME NEW u \in Uid, DeletesUser(u)
         PROVE  IInv'
    BY <2>11 DEF DeletesUser, FromOutside, IInv, Shape
  <2>12. ASSUME NEW s \in Secret,
                CreatesAdmin(s) \/ \E role \in Roles, active \in BOOLEAN : CreatesUser(role, active, s)
         PROVE  IInv'
    <3>1. PICK r \in Roles, on \in BOOLEAN : Created(r, on, s) /\ unchecked'
      BY <2>12 DEF CreatesAdmin, CreatesUser, Roles
    <3>2. QED
      BY <3>1, CreatingKeepsIt
  <2>13. CASE UNCHANGED accessVars
    BY <2>13, SameUsersKeepIt DEF accessVars
  <2>14. QED
    BY <2>1, <2>2, <2>3, <2>4, <2>5, <2>6, <2>7, <2>8, <2>9, <2>10, <2>11, <2>12, <2>13, Zenon
       DEF AccessNext
<1>3. QED
  BY <1>1, <1>2, PTL DEF AccessSpec

-----------------------------------------------------------------------------
(* Whatever requests, logins and creations there are, an active administrator *)
(* is left, unless two requests looked at the users at once or somebody       *)
(* changed them from outside the dashboard.                                   *)
THEOREM AdministratorsRemain == AccessSpec => []AdministratorRemains
<1>1. IInv => AdministratorRemains
  BY DEF IInv, Covered, AdministratorRemains
<1>2. QED
  BY <1>1, AdministratorsAreKept, PTL
-----------------------------------------------------------------------------
(* Tokens.  Who has verified a password and makes the token later holds, as *)
(* the tokens do, what is still true of the user, or is among the loose.    *)
IsCurrent(u, who, s) == u \in Known /\ users[u].active = TRUE /\ users[u].who = who /\ users[u].secret = s

LoginHolds(a) ==
    ask[a].at = "verified" =>
        /\ ask[a].target \in Uid /\ ask[a].secret \in Secret /\ ask[a].who \in 1..MaxBorn
        /\ ask[a].target \notin loose => IsCurrent(ask[a].target, ask[a].who, ask[a].secret)

LoginsAreCurrent == \A a \in Actor : LoginHolds(a)

TokensAreCurrent ==
    /\ tokens \subseteq Token
    /\ \A t \in tokens : t.uid \notin loose => IsCurrent(t.uid, t.who, t.secret)

SeenTyped == loose \subseteq Uid /\ raced \in BOOLEAN /\ unchecked \in BOOLEAN

TokensInv == LoginsAreCurrent /\ TokensAreCurrent /\ SeenTyped

(* A step that changes one user at most: either what tokens and logins hold of *)
(* it stays true, or nobody holds any, or it is loose.                         *)
LEMMA OneUserChanges ==
  ASSUME TokensInv, SeenTyped', NEW u \in Uid,
         \A v \in Uid \ {u} : users'[v] = users[v],
         \A b \in Actor : ask'[b] = ask[b] \/ ask'[b].at # "verified",
         loose \subseteq loose', tokens' \subseteq tokens,
         \/ u \in loose'
         \/ InFlight(u) = {} /\ \A t \in tokens' : t.uid # u
         \/ /\ u \in Known /\ users'[u] # Nobody /\ users'[u].who = users[u].who
            /\ users'[u].secret = users[u].secret
            /\ users[u].active = TRUE => users'[u].active = TRUE
  PROVE  TokensInv'
<1>1. ASSUME NEW v \in Uid, NEW who, NEW s, IsCurrent(v, who, s), v # u
      PROVE  IsCurrent(v, who, s)'
  BY <1>1 DEF IsCurrent, Known
<1>2. ASSUME NEW who, NEW s, IsCurrent(u, who, s), u \in Known, users'[u] # Nobody,
             users'[u].who = users[u].who, users'[u].secret = users[u].secret,
             users[u].active = TRUE => users'[u].active = TRUE
      PROVE  IsCurrent(u, who, s)'
  BY <1>2 DEF IsCurrent, Known
<1>3. LoginsAreCurrent'
  <2> SUFFICES ASSUME NEW b \in Actor, ask'[b].at = "verified"
               PROVE  LoginHolds(b)'
    BY DEF LoginsAreCurrent, LoginHolds
  <2>1. ask'[b] = ask[b] /\ ask[b].at = "verified"
    OBVIOUS
  <2>2. /\ ask[b].target \in Uid /\ ask[b].secret \in Secret /\ ask[b].who \in 1..MaxBorn
        /\ ask[b].target \notin loose => IsCurrent(ask[b].target, ask[b].who, ask[b].secret)
    BY <2>1 DEF TokensInv, LoginsAreCurrent, LoginHolds
  <2>3. ask[b].target = u => b \in InFlight(u)
    BY <2>1 DEF InFlight
  <2>4. PICK v, who, s : v = ask[b].target /\ who = ask[b].who /\ s = ask[b].secret
    OBVIOUS
  <2>5. ASSUME v \notin loose'
        PROVE  IsCurrent(v, who, s)'
    <3>1. IsCurrent(v, who, s) /\ v \in Uid
      BY <2>2, <2>4, <2>5
    <3>2. CASE v # u
      BY <1>1, <3>1, <3>2
    <3>3. CASE v = u
      BY <1>2, <2>3, <2>4, <2>5, <3>1, <3>3
    <3>4. QED
      BY <3>2, <3>3
  <2>6. QED
    BY <2>1, <2>2, <2>4, <2>5 DEF LoginHolds
<1>4. TokensAreCurrent'
  <2>1. tokens' \subseteq Token
    BY DEF TokensInv, TokensAreCurrent
  <2>2. ASSUME NEW t \in tokens', t.uid \notin loose'
        PROVE  IsCurrent(t.uid, t.who, t.secret)'
    <3>1. IsCurrent(t.uid, t.who, t.secret) /\ t.uid \in Uid
      BY <2>2 DEF TokensInv, TokensAreCurrent, IsCurrent, Known
    <3>2. CASE t.uid # u
      BY <1>1, <3>1, <3>2
    <3>3. CASE t.uid = u
      BY <1>2, <2>2, <3>1, <3>3
    <3>4. QED
      BY <3>2, <3>3
  <2>3. QED
    BY <2>1, <2>2 DEF TokensAreCurrent
<1>5. QED
  BY <1>3, <1>4 DEF TokensInv

(* A step that leaves the users alone and adds no token. *)
LEMMA NoUserChanges ==
  ASSUME TokensInv, UNCHANGED <<users, loose, raced, unchecked>>,
         \A b \in Actor : ask'[b] = ask[b] \/ ask'[b].at # "verified",
         \A t \in tokens' : t \in Token /\ \E old \in tokens : t.uid = old.uid /\ t.who = old.who /\ t.secret = old.secret
  PROVE  TokensInv'
<1>1. ASSUME NEW v, NEW who, NEW s, IsCurrent(v, who, s)
      PROVE  IsCurrent(v, who, s)'
  BY <1>1 DEF IsCurrent, Known
<1>2. LoginsAreCurrent'
  <2> SUFFICES ASSUME NEW b \in Actor, ask'[b].at = "verified"
               PROVE  LoginHolds(b)'
    BY DEF LoginsAreCurrent, LoginHolds
  <2>1. ask'[b] = ask[b] /\ ask[b].at = "verified"
    OBVIOUS
  <2>2. QED
    BY <1>1, <2>1 DEF TokensInv, LoginsAreCurrent, LoginHolds
<1>3. TokensAreCurrent'
  <2>1. tokens' \subseteq Token
    OBVIOUS
  <2>2. ASSUME NEW t \in tokens', t.uid \notin loose'
        PROVE  IsCurrent(t.uid, t.who, t.secret)'
    <3>1. PICK old \in tokens : t.uid = old.uid /\ t.who = old.who /\ t.secret = old.secret
      OBVIOUS
    <3>2. IsCurrent(old.uid, old.who, old.secret)
      BY <2>2, <3>1 DEF TokensInv, TokensAreCurrent
    <3>3. QED
      BY <1>1, <3>1, <3>2
  <2>3. QED
    BY <2>1, <2>2 DEF TokensAreCurrent
<1>4. QED
  BY <1>2, <1>3 DEF TokensInv, SeenTyped

(* Withdrawing leaves nobody who is not among the loose. *)
LEMMA WithdrawnOrLoose ==
  ASSUME NEW u, Withdraws(u)
  PROVE  /\ tokens' \subseteq tokens /\ loose \subseteq loose' /\ loose' \subseteq loose \cup {u}
         /\ u \in loose' \/ (InFlight(u) = {} /\ \A t \in tokens' : t.uid # u)
BY DEF Withdraws

(* The number of a new user was held by nobody. *)
LEMMA CreatingKeepsTokens ==
  ASSUME TokensInv, NEW role, NEW active, NEW s, Created(role, active, s), unchecked' \in BOOLEAN
  PROVE  TokensInv'
<1>1. PICK u \in NextUid :
         /\ users' = [users EXCEPT ![u] = [role |-> role, active |-> active, secret |-> s, who |-> born + 1]]
         /\ loose' = IF InFlight(u) # {} THEN loose \cup {u} ELSE loose
  BY DEF Created
<1>2. UNCHANGED <<tokens, ask, raced>>
  BY DEF Created
<1>3. u \in Uid /\ u \notin Known
  BY <1>1, AccessAssumption DEF NextUid, Known
<1>4. SeenTyped'
  BY <1>1, <1>2, <1>3 DEF TokensInv, SeenTyped
<1>5. u \in loose' \/ (InFlight(u) = {} /\ \A t \in tokens' : t.uid # u)
  BY <1>1, <1>2, <1>3 DEF TokensInv, TokensAreCurrent, IsCurrent
<1>6. loose \subseteq loose' /\ \A v \in Uid \ {u} : users'[v] = users[v]
  BY <1>1 DEF Known
<1>7. QED
  BY <1>2, <1>3, <1>4, <1>5, <1>6, OneUserChanges

LEMMA TokensAreKept == AccessSpec => [](Shape /\ TokensInv)
<1>1. AccessInit => TokensInv
  <2>1. NoAsk.at # "verified" /\ Silent.at # "verified"
    BY DEF NoAsk, Silent
  <2>2. QED
    BY <2>1 DEF AccessInit, TokensInv, LoginsAreCurrent, LoginHolds, TokensAreCurrent, SeenTyped
<1>2. Shape /\ Shape' /\ TokensInv /\ [AccessNext]_accessVars => TokensInv'
  <2> SUFFICES ASSUME Shape, Shape', TokensInv, [AccessNext]_accessVars
               PROVE  TokensInv'
    OBVIOUS
  <2>0. /\ Silent.at # "verified"
        /\ \A t \in tokens : t \in Token
        /\ raced \in BOOLEAN /\ unchecked \in BOOLEAN /\ loose \subseteq Uid
    BY DEF Silent, TokensInv, TokensAreCurrent, SeenTyped
  <2>1. ASSUME NEW a \in Actor, NEW r, Looked(a, r), r.at # "verified"
        PROVE  TokensInv'
    <3>1. \A b \in Actor : ask'[b] = ask[b] \/ ask'[b].at # "verified"
      BY <2>1 DEF Looked, Shape
    <3>2. QED
      BY <2>0, <2>1, <3>1, NoUserChanges DEF Looked
  <2>2. ASSUME NEW a \in Actor, NEW by \in Uid \cup {Environment}, NEW u \in Uid,
               \/ DeleteLooks(a, by, u)
               \/ u \in Known /\ \E change \in Changes(users[u]) : UpdateLooks(a, by, u, change)
        PROVE  TokensInv'
    <3>1. CASE DeleteLooks(a, by, u)
      BY <2>1, <3>1 DEF DeleteLooks, NoAsk
    <3>2. ASSUME NEW change \in Changes(users[u]), UpdateLooks(a, by, u, change)
          PROVE  TokensInv'
      BY <2>1, <3>2 DEF UpdateLooks
    <3>3. QED
      BY <2>2, <3>1, <3>2
  <2>3. ASSUME NEW a \in Actor, Updates(a)
        PROVE  TokensInv'
    <3> DEFINE r == ask[a]
               u == ask[a].target
    <3>1. /\ r \in Request /\ ask' = [ask EXCEPT ![a] = Silent] /\ UNCHANGED unchecked
          /\ \A b \in Actor : ask'[b] = ask[b] \/ ask'[b].at # "verified"
      BY <2>0, <2>3 DEF Updates, Ended, Shape
    <3>2. CASE u \notin Known
      <4>1. UNCHANGED <<users, tokens, loose, raced>>
        BY <2>3, <3>2 DEF Updates
      <4>2. QED
        BY <2>0, <3>1, <4>1, NoUserChanges
    <3>3. CASE u \in Known
      <4> DEFINE new == [users[u] EXCEPT !.role = Else(r.role, @), !.active = Else(r.active, @),
                                         !.secret = Else(r.secret, @)]
      <4>1. /\ users' = [users EXCEPT ![u] = new]
            /\ IF r.secret # Nobody \/ r.active = FALSE THEN Withdraws(u) ELSE UNCHANGED <<tokens, loose>>
            /\ raced' = (raced \/ OthersLooked(a))
        BY <2>3, <3>3 DEF Updates
      <4>2. u \in Uid /\ users[u] \in User
        BY <3>3 DEF Shape, Known
      <4>3. \A v \in Uid \ {u} : users'[v] = users[v]
        BY <4>1 DEF Shape
      <4>4. CASE r.secret # Nobody \/ r.active = FALSE
        <5>1. Withdraws(u)
          BY <4>1, <4>4
        <5>2. SeenTyped'
          BY <2>0, <3>1, <4>1, <4>2, <5>1, WithdrawnOrLoose DEF SeenTyped
        <5>3. QED
          BY <3>1, <4>2, <4>3, <5>1, <5>2, WithdrawnOrLoose, OneUserChanges
      <4>5. CASE r.secret = Nobody /\ r.active # FALSE
        <5>1. UNCHANGED <<tokens, loose>>
          BY <4>1, <4>5
        <5>2. SeenTyped'
          BY <2>0, <3>1, <4>1, <5>1 DEF SeenTyped
        <5>3. users'[u] = new /\ new \in User /\ new # Nobody
          <6>1. new \in User
            BY <3>1, <4>2 DEF User, Request, Else
          <6>2. users'[u] = new
            BY <4>1, <4>2 DEF Shape
          <6>3. QED
            BY <6>1, <6>2, NobodyIsNoUser
        <5>4. new.who = users[u].who /\ new.secret = users[u].secret
          BY <4>2, <4>5 DEF User, Else
        <5>5. users[u].active = TRUE => new.active = TRUE
          BY <3>1, <4>2, <4>5 DEF User, Else, Request
        <5> HIDE DEF new
        <5>6. QED
          BY <3>1, <3>3, <4>2, <4>3, <5>1, <5>2, <5>3, <5>4, <5>5, OneUserChanges
      <4>6. QED
        BY <4>4, <4>5
    <3>4. QED
      BY <3>2, <3>3
  <2>4. ASSUME NEW a \in Actor, Deletes(a)
        PROVE  TokensInv'
    <3> DEFINE u == ask[a].target
    <3>1. /\ users' = [users EXCEPT ![u] = Nobody] /\ Withdraws(u)
          /\ raced' = (raced \/ OthersLooked(a)) /\ UNCHANGED unchecked
          /\ \A b \in Actor : ask'[b] = ask[b] \/ ask'[b].at # "verified"
      BY <2>0, <2>4 DEF Deletes, Ended, Shape
    <3>2. CASE u \in Uid
      <4>1. SeenTyped'
        BY <2>0, <3>1, <3>2, WithdrawnOrLoose DEF SeenTyped
      <4>2. \A v \in Uid \ {u} : users'[v] = users[v]
        BY <3>1 DEF Shape
      <4>3. QED
        BY <3>1, <3>2, <4>1, <4>2, WithdrawnOrLoose, OneUserChanges
    <3>3. CASE u \notin Uid
      <4>1. users' = users
        BY <3>1, <3>3 DEF Shape
      <4>2. loose' = loose
        BY <2>0, <3>1, <3>3 DEF Withdraws, InFlight, TokensInv, LoginsAreCurrent, LoginHolds
      <4>3. tokens' \subseteq tokens /\ raced' \in BOOLEAN
        BY <2>0, <3>1, WithdrawnOrLoose
      <4>4. SeenTyped'
        BY <2>0, <3>1, <4>2, <4>3 DEF SeenTyped
      <4>5. PICK v \in Uid : TRUE
        BY AccessAssumption
      <4>7. \/ InFlight(v) = {} /\ \A t \in tokens' : t.uid # v
            \/ v \in loose' \/ v \in Known
        BY <4>2, <4>3 DEF TokensInv, TokensAreCurrent, LoginsAreCurrent, LoginHolds, InFlight, IsCurrent
      <4>8. QED
        BY <3>1, <4>1, <4>2, <4>3, <4>4, <4>7, OneUserChanges DEF Known
    <3>4. QED
      BY <3>2, <3>3
  <2>5. ASSUME NEW a \in Actor, CreatesToken(a)
        PROVE  TokensInv'
    <3> DEFINE new == [uid |-> ask[a].target, secret |-> ask[a].secret, who |-> ask[a].who, old |-> FALSE]
    <3>1. /\ ask[a].at = "verified" /\ tokens' = tokens \cup {new}
          /\ UNCHANGED <<users, loose, raced, unchecked>>
          /\ \A b \in Actor : ask'[b] = ask[b] \/ ask'[b].at # "verified"
      BY <2>0, <2>5 DEF CreatesToken, Ended, Shape
    <3>2. \A v, who, s : IsCurrent(v, who, s) => IsCurrent(v, who, s)'
      BY <3>1 DEF IsCurrent, Known
    <3>3. /\ new \in Token /\ new.uid = ask[a].target /\ new.secret = ask[a].secret /\ new.who = ask[a].who
          /\ new.uid \notin loose => IsCurrent(new.uid, new.who, new.secret)
      BY <3>1 DEF TokensInv, LoginsAreCurrent, LoginHolds, Token
    <3> HIDE DEF new
    <3>4. TokensAreCurrent'
      BY <3>1, <3>2, <3>3 DEF TokensInv, TokensAreCurrent
    <3>5. LoginsAreCurrent'
      <4> SUFFICES ASSUME NEW b \in Actor, ask'[b].at = "verified"
               PROVE  LoginHolds(b)'
        BY DEF LoginsAreCurrent, LoginHolds
      <4>1. ask'[b] = ask[b]
        BY <3>1
      <4>2. QED
        BY <3>1, <3>2, <4>1 DEF TokensInv, LoginsAreCurrent, LoginHolds
    <3>6. QED
      BY <2>0, <3>1, <3>4, <3>5 DEF TokensInv, SeenTyped
  <2>6. ASSUME NEW a \in Actor, NEW u \in Uid, NEW s \in Secret, Verifies(a, u, s)
        PROVE  TokensInv'
    <3> DEFINE r == [NoAsk EXCEPT !.at = "verified", !.what = "login", !.target = u, !.secret = s,
                                  !.who = users[u].who]
    <3>1. /\ ask' = [ask EXCEPT ![a] = r] /\ UNCHANGED <<users, tokens, loose, raced, unchecked>>
          /\ u \in Known /\ users[u] \in User /\ users[u].active = TRUE /\ users[u].secret = s
      BY <2>6 DEF Verifies, Looked, Shape, Known, User
    <3>2. r.target = u /\ r.secret = s /\ r.who = users[u].who /\ users[u].who \in 1..MaxBorn
      BY <3>1 DEF NoAsk, User
    <3> HIDE DEF r
    <3>3. \A v, who, p : IsCurrent(v, who, p) => IsCurrent(v, who, p)'
      BY <3>1 DEF IsCurrent, Known
    <3>4. IsCurrent(u, users[u].who, s)
      BY <3>1 DEF IsCurrent
    <3>5. LoginsAreCurrent'
      <4> SUFFICES ASSUME NEW b \in Actor, ask'[b].at = "verified"
               PROVE  LoginHolds(b)'
        BY DEF LoginsAreCurrent, LoginHolds
      <4>1. CASE b = a
        BY <3>1, <3>2, <3>3, <3>4, <4>1 DEF Shape, LoginHolds
      <4>2. CASE b # a
        <5>1. ask'[b] = ask[b]
          BY <3>1, <4>2 DEF Shape
        <5>2. QED
          BY <3>1, <3>3, <5>1 DEF TokensInv, LoginsAreCurrent, LoginHolds
      <4>3. QED
        BY <4>1, <4>2
    <3>6. TokensAreCurrent'
      BY <3>1, <3>3 DEF TokensInv, TokensAreCurrent
    <3>7. QED
      BY <2>0, <3>1, <3>5, <3>6 DEF TokensInv, SeenTyped
  <2>7. ASSUME NEW by \in Uid \cup {Environment}, NEW role \in Roles, NEW s \in Secret, Creates(by, role, s)
        PROVE  TokensInv'
    BY <2>0, <2>7, CreatingKeepsTokens DEF Creates
  <2>8. ASSUME NEW s \in Secret,
               CreatesAdmin(s) \/ \E role \in Roles, active \in BOOLEAN : CreatesUser(role, active, s)
        PROVE  TokensInv'
    BY <2>8, CreatingKeepsTokens DEF CreatesUser, CreatesAdmin
  <2>9. ASSUME NEW t \in tokens, TokenExpires(t) \/ TokenShown(t)
        PROVE  TokensInv'
    <3> DEFINE new == [t EXCEPT !.old = TRUE]
    <3>1. t \in Token /\ new \in Token /\ new.uid = t.uid /\ new.who = t.who /\ new.secret = t.secret
      BY <2>0 DEF Token
    <3>2. UNCHANGED <<users, ask, loose, raced, unchecked>> /\ tokens' \subseteq tokens \cup {new}
      BY <2>9 DEF TokenExpires, TokenShown
    <3> HIDE DEF new
    <3>3. QED
      BY <2>0, <3>1, <3>2, NoUserChanges
  <2>10. CASE TokensCleaned
    <3>1. UNCHANGED <<users, ask, loose, raced, unchecked>> /\ tokens' \subseteq tokens
      BY <2>10 DEF TokensCleaned
    <3>2. QED
      BY <2>0, <3>1, NoUserChanges
  <2>11. ASSUME NEW u \in Uid, Logout(u) \/ \E s \in Secret : ChangesOwnPassword(u, s)
         PROVE  TokensInv'
    <3>1. /\ Withdraws(u) /\ UNCHANGED <<ask, raced, unchecked>>
          /\ \A v \in Uid \ {u} : users'[v] = users[v]
      BY <2>11 DEF Logout, ChangesOwnPassword, Shape
    <3>2. SeenTyped'
      BY <2>0, <3>1, WithdrawnOrLoose DEF SeenTyped
    <3>3. QED
      BY <3>1, <3>2, WithdrawnOrLoose, OneUserChanges
  <2>12. ASSUME NEW u \in Uid, FromOutside(u), \A v \in Uid \ {u} : users'[v] = users[v]
         PROVE  TokensInv'
    <3>1. SeenTyped' /\ u \in loose' /\ loose \subseteq loose' /\ UNCHANGED <<tokens, ask>>
      BY <2>0, <2>12 DEF FromOutside, SeenTyped
    <3>2. QED
      BY <2>12, <3>1, OneUserChanges
  <2>13. ASSUME NEW u \in Uid,
                \/ \E active \in BOOLEAN : SetsActive(u, active)
                \/ \E role \in Roles : SetsRole(u, role)
                \/ \E s \in Secret : SetsPassword(u, s) \/ UpdatesAdmin(u, s)
                \/ DeletesUser(u)
         PROVE  TokensInv'
    <3>1. FromOutside(u)
      BY <2>13 DEF SetsActive, SetsRole, SetsPassword, UpdatesAdmin, DeletesUser
    <3>2. \A v \in Uid \ {u} : users'[v] = users[v]
      BY <2>13 DEF SetsActive, SetsRole, SetsPassword, UpdatesAdmin, DeletesUser, Shape
    <3>3. QED
      BY <2>12, <3>1, <3>2
  <2>14. CASE UNCHANGED accessVars
    BY <2>0, <2>14, NoUserChanges DEF accessVars
  <2>15. QED
    BY <2>2, <2>3, <2>4, <2>5, <2>6, <2>7, <2>8, <2>9, <2>10, <2>11, <2>13, <2>14, Zenon
       DEF AccessNext
<1>3. AccessSpec => []Shape
  <2>1. IInv => Shape
    BY DEF IInv
  <2>2. QED
    BY <2>1, AdministratorsAreKept, PTL
<1>4. QED
  BY <1>1, <1>2, <1>3, PTL DEF AccessSpec

(* Whoever holds a token may still come in, with the password the token was   *)
(* made for and as the user who logged in, unless a change came from outside  *)
(* or a login was under way.                                                  *)
THEOREM TokensAreSound == AccessSpec => []TokensSound
<1>1. Shape /\ TokensInv => TokensSound
  <2> SUFFICES ASSUME Shape, TokensInv
               PROVE  TokensSound
    OBVIOUS
  <2>1. TokenIsCurrent
    BY DEF TokensInv, TokensAreCurrent, IsCurrent, TokenIsCurrent
  <2>2. AccessTypeOK
    BY DEF Shape, TokensInv, TokensAreCurrent, SeenTyped, AccessTypeOK, Request, Known
  <2>3. QED
    BY <2>1, <2>2 DEF TokensSound
<1>2. QED
  BY <1>1, TokensAreKept, PTL

(***************************************************************************)
(* The file of server profiles.                                            *)
(***************************************************************************)
Stage == {"idle", "stop", "reserve", "spawn", "reload", "judge", "write"}
Call == [at : Stage, what : Whats, port : Port \cup {Missing}, config : Config \cup {Missing},
         copy : File \cup {Missing}]

(* What a request carries at each stage. *)
CallSound(r) ==
    /\ r.what = "poll" => r.at \in {"idle", "judge", "write"} /\ r.port = Missing
    /\ r.what # "poll" => r.at # "judge" /\ r.port \in Port
    /\ r.what \in {"create", "update", "start"} => r.config \in Config
    /\ r.what \in {"create", "delete"} => r.at = "write"
    /\ r.at \in {"reserve", "spawn"} => r.what = "start"
    /\ r.at = "stop" => r.what \in {"stop", "update"}
    /\ r.at \in {"judge", "write"} => r.copy \in File
    /\ r.at = "write" /\ r.what = "stop" => r.copy[r.port] # Missing

Calls == call \in [Caller -> Call] /\ \A c \in Caller : CallSound(call[c])

FileShape ==
    /\ file \in File /\ runs \in [Port -> Config \cup {Missing}]
    /\ reserved \subseteq Port /\ said \subseteq Port /\ crossed \subseteq Port /\ mixed \in BOOLEAN
    /\ Calls

LEMMA NoCallIsSound == NoCall \in Call /\ CallSound(NoCall) /\ NoCall.at = "idle"
BY DEF NoCall, Call, CallSound, Stage, Whats

LEMMA CallsKept ==
  ASSUME Calls, NEW c \in Caller, NEW r \in Call, CallSound(r), call' = [call EXCEPT ![c] = r]
  PROVE  Calls'
BY DEF Calls

LEMMA AnsweredKeepsCalls ==
  ASSUME Calls, NEW c \in Caller, Answered(c)
  PROVE  Calls'
BY NoCallIsSound, CallsKept DEF Answered

LEMMA StepKeepsCalls ==
  ASSUME Calls, NEW c \in Caller, NEW at \in Stage, Step(c, at), at \notin {"judge", "write"},
         call[c].what \notin {"poll", "create", "delete"},
         at \in {"reserve", "spawn"} => call[c].what = "start",
         at = "stop" => call[c].what \in {"stop", "update"}
  PROVE  Calls'
<1> DEFINE r == [call[c] EXCEPT !.at = at]
<1>1. call[c] \in Call /\ CallSound(call[c])
  BY DEF Calls
<1>2. r \in Call
  BY <1>1 DEF Call
<1>3. CallSound(r)
  BY <1>1 DEF Call, CallSound
<1>4. call' = [call EXCEPT ![c] = r]
  BY DEF Step
<1> HIDE DEF r
<1>5. QED
  BY <1>2, <1>3, <1>4, CallsKept

(* The stages in which each request begins. *)
Entrance(what, p, config, at) ==
    \/ what \in {"create", "delete"} /\ at = "write" /\ p \in Port
    \/ what = "update" /\ at \in {"stop", "reload"} /\ p \in Port
    \/ what = "stop" /\ at = "stop" /\ p \in Port
    \/ what = "start" /\ at = "reserve" /\ p \in Port
    \/ what = "poll" /\ at = "judge" /\ p = Missing

LEMMA ArrivesKeepsShape ==
  ASSUME FileShape, NEW c \in Caller, NEW what \in Whats, NEW p, NEW config \in Config \cup {Missing},
         NEW at \in Stage, Entrance(what, p, config, at),
         what \in {"create", "update", "start"} => config \in Config,
         Arrives(c, what, p, config, at)
  PROVE  FileShape'
<1> DEFINE r == [at |-> at, what |-> what, port |-> p, config |-> config,
                 copy |-> IF at \in {"judge", "write"} THEN Loaded ELSE Missing]
<1>1. r \in Call
  BY DEF Call, Entrance, Loaded, FileShape
<1>2. CallSound(r)
  BY DEF CallSound, Entrance, Loaded, FileShape, Whats
<1>3. call' = [call EXCEPT ![c] = r]
  BY DEF Arrives
<1> HIDE DEF r
<1>4. Calls'
  BY <1>1, <1>2, <1>3, CallsKept DEF FileShape
<1>5. QED
  BY <1>4 DEF FileShape, Arrives

LEMMA EntriesAreProfiles ==
  ASSUME FileShape, NEW c \in Caller, call[c].at = "write", call[c].what # "poll"
  PROVE  /\ call[c].what # "delete" => Entry(call[c]) \in Profile /\ Entry(call[c]) # Missing
         /\ call[c].what = "delete" => Entry(call[c]) = Missing
         /\ call[c].what \in {"create", "update", "start"} => Entry(call[c]).config = call[c].config
<1> DEFINE r == call[c]
<1>1. r \in Call /\ CallSound(r)
  BY DEF FileShape, Calls
<1>2. CASE r.what \in {"create", "update"}
  <2>1. Entry(r) = [pid |-> FALSE, config |-> r.config]
    BY <1>2 DEF Entry
  <2>2. r.config \in Config
    BY <1>1, <1>2 DEF CallSound
  <2>3. Entry(r) \in Profile /\ Entry(r).config = r.config
    BY <2>1, <2>2 DEF Profile
  <2>4. QED
    BY <1>2, <2>3, RegistryAssumption
<1>3. CASE r.what = "start"
  <2>1. Entry(r) = [pid |-> TRUE, config |-> r.config]
    BY <1>3 DEF Entry
  <2>2. r.config \in Config
    BY <1>1, <1>3 DEF CallSound
  <2>3. Entry(r) \in Profile /\ Entry(r).config = r.config
    BY <2>1, <2>2 DEF Profile
  <2>4. QED
    BY <1>3, <2>3, RegistryAssumption
<1>4. CASE r.what = "stop"
  <2>1. r.copy[r.port] \in Profile
    BY <1>1, <1>4 DEF CallSound, File
  <2>2. Entry(r) = [r.copy[r.port] EXCEPT !.pid = FALSE]
    BY <1>4 DEF Entry
  <2>3. Entry(r) \in Profile
    BY <2>1, <2>2 DEF Profile
  <2>4. QED
    BY <1>4, <2>3, RegistryAssumption
<1>5. CASE r.what = "delete"
  BY <1>5 DEF Entry
<1>6. QED
  BY <1>1, <1>2, <1>3, <1>4, <1>5 DEF Call, Whats

LEMMA ShapeInvariant == RegistrySpec => []FileShape
<1>1. RegistryInit => FileShape
  <2> SUFFICES ASSUME RegistryInit PROVE FileShape
    OBVIOUS
  <2>1. Calls
    BY NoCallIsSound DEF RegistryInit, Calls
  <2>2. file \in File
    BY DEF RegistryInit, File, Profile
  <2>3. QED
    BY <2>1, <2>2 DEF RegistryInit, FileShape
<1>2. FileShape /\ [RegistryNext]_registryVars => FileShape'
  <2> SUFFICES ASSUME FileShape, [RegistryNext]_registryVars
               PROVE  FileShape'
    OBVIOUS
  <2>1. ASSUME NEW c \in Caller, PollLoads(c)
        PROVE  FileShape'
    BY <2>1, ArrivesKeepsShape DEF PollLoads, Entrance, Whats, Stage
  <2>2. ASSUME NEW c \in Caller, NEW p \in Port, StopLoads(c, p) \/ DeleteLoads(c, p)
        PROVE  FileShape'
    BY <2>2, ArrivesKeepsShape DEF StopLoads, DeleteLoads, Entrance, Whats, Stage
  <2>3. ASSUME NEW c \in Caller, NEW p \in Port, NEW config \in Config,
               CreateLoads(c, p, config) \/ UpdateLoads(c, p, config) \/ StartLoads(c, p, config)
        PROVE  FileShape'
    BY <2>3, ArrivesKeepsShape
       DEF CreateLoads, UpdateLoads, StartLoads, FirstOfUpdate, Entrance, Whats, Stage
  <2>4. ASSUME NEW c \in Caller, NEW p \in Port, SavedStartLoads(c, p)
        PROVE  FileShape'
    <3>1. file[p].config \in Config
      BY <2>4 DEF SavedStartLoads, Listed, FileShape, File, Profile
    <3>2. QED
      BY <2>3, <2>4, <3>1 DEF SavedStartLoads
  <2>5. ASSUME NEW c \in Caller, Stops(c) \/ StopFails(c)
        PROVE  FileShape'
    <3>1. call[c] \in Call /\ CallSound(call[c]) /\ call[c].at = "stop"
      BY <2>5 DEF FileShape, Calls, Stops, StopFails
    <3>2. Calls'
      BY <2>5, <3>1, StepKeepsCalls, AnsweredKeepsCalls DEF FileShape, Stops, StopFails, CallSound, Stage
    <3>3. QED
      BY <2>5, <3>2 DEF FileShape, Stops, StopFails
  <2>6. ASSUME NEW c \in Caller, Reserves(c) \/ Serves(c) \/ StartFails(c)
        PROVE  FileShape'
    <3>1. /\ call[c] \in Call /\ CallSound(call[c]) /\ call[c].at \in {"reserve", "spawn"}
          /\ call[c].what = "start" /\ call[c].port \in Port /\ call[c].config \in Config
      BY <2>6 DEF FileShape, Calls, Reserves, Serves, StartFails, CallSound
    <3>2. Calls'
      BY <2>6, <3>1, StepKeepsCalls, AnsweredKeepsCalls DEF FileShape, Reserves, Serves, StartFails, Stage
    <3>3. QED
      BY <2>6, <3>1, <3>2 DEF FileShape, Reserves, Serves, StartFails
  <2>7. ASSUME NEW c \in Caller, Reloads(c)
        PROVE  FileShape'
    <3> DEFINE r == [call[c] EXCEPT !.at = "write", !.copy = Loaded]
    <3>1. call[c] \in Call /\ CallSound(call[c]) /\ call[c].at = "reload"
      BY <2>7 DEF FileShape, Calls, Reloads
    <3>2. CASE call[c].what = "stop" /\ ~Listed(call[c].port)
      BY <2>7, <3>2, AnsweredKeepsCalls DEF Reloads, FileShape
    <3>3. CASE ~(call[c].what = "stop" /\ ~Listed(call[c].port))
      <4>1. r \in Call
        BY <3>1 DEF Call, Stage, Loaded, FileShape
      <4>2. CallSound(r)
        BY <3>1, <3>3 DEF Call, CallSound, Loaded, Listed, FileShape
      <4>3. call' = [call EXCEPT ![c] = r]
        BY <2>7, <3>3 DEF Reloads
      <4> HIDE DEF r
      <4>4. QED
        BY <2>7, <4>1, <4>2, <4>3, CallsKept DEF FileShape, Reloads
    <3>4. QED
      BY <3>2, <3>3
  <2>8. ASSUME NEW c \in Caller, Judges(c)
        PROVE  FileShape'
    <3> DEFINE copy == call[c].copy
               stale == {p \in Port : copy[p] # Missing /\ copy[p].pid /\ ~Serving(p)}
               new == [p \in Port |-> IF p \in stale THEN [copy[p] EXCEPT !.pid = FALSE] ELSE copy[p]]
               r == [call[c] EXCEPT !.at = "write", !.copy = new]
    <3>1. call[c] \in Call /\ CallSound(call[c]) /\ call[c].at = "judge"
      BY <2>8 DEF FileShape, Calls, Judges
    <3>2. CASE stale = {}
      BY <2>8, <3>2, AnsweredKeepsCalls DEF Judges, FileShape
    <3>3. CASE stale # {}
      <4>1. new \in File
        BY <3>1 DEF CallSound, File, Profile
      <4>2. call' = [call EXCEPT ![c] = r]
        BY <2>8, <3>3 DEF Judges
      <4> HIDE DEF new
      <4>3. r \in Call
        BY <3>1, <4>1 DEF Call, Stage
      <4>4. CallSound(r)
        BY <3>1, <4>1 DEF Call, CallSound
      <4> HIDE DEF r
      <4>5. QED
        BY <2>8, <4>2, <4>3, <4>4, CallsKept DEF FileShape, Judges
    <3>4. QED
      BY <3>2, <3>3
  <2>9. ASSUME NEW c \in Caller, Saves(c)
        PROVE  FileShape'
    <3>1. call[c] \in Call /\ CallSound(call[c]) /\ call[c].at = "write"
      BY <2>9 DEF FileShape, Calls, Saves
    <3>2. Calls'
      BY <2>9, AnsweredKeepsCalls DEF Saves, FileShape
    <3>3. file' \in File
      <4>1. CASE call[c].what = "poll"
        BY <2>9, <3>1, <4>1 DEF Saves, CallSound
      <4>2. CASE call[c].what # "poll"
        <5>1. Entry(call[c]) \in Profile \cup {Missing} /\ call[c].copy \in File /\ call[c].port \in Port
          BY <3>1, <4>2, EntriesAreProfiles DEF CallSound
        <5>2. file' = [call[c].copy EXCEPT ![call[c].port] = Entry(call[c])]
          BY <2>9, <4>2 DEF Saves
        <5>3. QED
          BY <5>1, <5>2 DEF File
      <4>3. QED
        BY <4>1, <4>2
    <3>4. said' \subseteq Port
      BY <2>9, <3>1 DEF Saves, FileShape, CallSound
    <3>5. QED
      BY <2>9, <3>2, <3>3, <3>4 DEF FileShape, Saves
  <2>10. ASSUME NEW c \in Caller, Raises(c)
         PROVE  FileShape'
    <3>1. call[c] \in Call
      BY DEF FileShape, Calls
    <3>2. Calls'
      BY <2>10, AnsweredKeepsCalls DEF Raises, FileShape
    <3>3. QED
      BY <2>10, <3>1, <3>2 DEF FileShape, Raises, Call
  <2>11. ASSUME NEW p \in Port, ServerDies(p)
         PROVE  FileShape'
    BY <2>11 DEF FileShape, ServerDies, Calls
  <2>12. CASE UNCHANGED registryVars
    BY <2>12 DEF FileShape, registryVars, Calls
  <2>13. QED
    BY <2>1, <2>2, <2>3, <2>4, <2>5, <2>6, <2>7, <2>8, <2>9, <2>10, <2>11, <2>12, Zenon
       DEF RegistryNext
<1>3. QED
  BY <1>1, <1>2, PTL DEF RegistrySpec
-----------------------------------------------------------------------------
(* What is known of a port while one request is about it. *)
Matches(p) == Serving(p) => Listed(p) /\ file[p].config = runs[p]

StageRule(r) ==
    /\ r.at \in {"stop", "reserve"} => Matches(r.port)
    /\ r.at = "spawn" => ~Serving(r.port)
    /\ r.at \in {"reload", "write"} =>
          IF r.what = "start" THEN runs[r.port] \in {r.config, Missing} ELSE ~Serving(r.port)

Holds(r) == r.at # "idle" /\ r.port \in Port => StageRule(r) \/ r.port \in crossed

(* A copy that was loaded says what the file says, but for the pids. *)
Fresh(r) ==
    r.at \in {"judge", "write"} =>
        \A p \in Port : /\ r.copy[p] = Missing <=> file[p] = Missing
                        /\ file[p] # Missing => r.copy[p].config = file[p].config

(* Two requests about one port are known to have met. *)
Alone ==
    \A c, d \in Caller :
        c # d /\ call[c].at # "idle" /\ call[d].at # "idle" /\ call[c].port = call[d].port
          => call[c].port \in crossed \cup {Missing}

AtRest == \A p \in Port : Matches(p) \/ Busy(p) \/ p \in crossed

Promised == said \subseteq {p \in Port : Listed(p)} \cup crossed

KeptInv == Alone /\ AtRest /\ Promised /\ \A c \in Caller : Holds(call[c]) /\ Fresh(call[c])

(* A request goes on without touching the file, and with it the server of its *)
(* own port at most.                                                          *)
LEMMA GoingOnKeepsIt ==
  ASSUME FileShape, KeptInv, NEW c \in Caller, NEW r, NEW p, p = call[c].port,
         call' = [call EXCEPT ![c] = r],
         UNCHANGED <<file, said>>, crossed \subseteq crossed', call[c].at # "idle",
         r.at = "idle" \/ r.port = p,
         \A q \in Port : q # p => runs'[q] = runs[q],
         Holds(r)', Fresh(r),
         r.at = "idle" /\ p \in Port => Matches(p)' \/ p \in crossed'
  PROVE  KeptInv'
<1>1. call'[c] = r /\ \A d \in Caller \ {c} : call'[d] = call[d]
  BY DEF FileShape, Calls
<1>2. \A q : Listed(q)' <=> Listed(q)
  BY DEF Listed
<1>3. \A q \in Port : q # p => (Serving(q)' <=> Serving(q)) /\ (Matches(q)' <=> Matches(q))
  BY <1>2 DEF Serving, Matches
<1>4. Alone'
  BY <1>1 DEF KeptInv, Alone
<1>5. AtRest'
  <2> SUFFICES ASSUME NEW q \in Port, ~Busy(q)', q \notin crossed'
               PROVE  Matches(q)'
    BY DEF AtRest
  <2>1. CASE q = p
    <3>1. r.at = "idle"
      BY <1>1, <2>1 DEF Busy
    <3>2. QED
      BY <2>1, <3>1
  <2>2. CASE q # p
    <3>1. ~Busy(q)
      BY <1>1, <2>2 DEF Busy
    <3>2. QED
      BY <1>3, <2>2, <3>1 DEF KeptInv, AtRest
  <2>3. QED
    BY <2>1, <2>2
<1>6. Promised'
  BY <1>2 DEF KeptInv, Promised
<1>7. ASSUME NEW d \in Caller \ {c}
      PROVE  Holds(call[d])' /\ Fresh(call[d])'
  <2>1. call'[d] = call[d] /\ Holds(call[d]) /\ Fresh(call[d])
    BY <1>1 DEF KeptInv
  <2>2. Fresh(call[d])'
    BY <2>1 DEF Fresh
  <2>3. CASE call[d].port # p
    BY <1>3, <2>1, <2>2, <2>3 DEF Holds, StageRule, Serving
  <2>4. CASE call[d].port = p
    BY <2>1, <2>2, <2>4, RegistryAssumption DEF KeptInv, Alone, Holds
  <2>5. QED
    BY <2>3, <2>4
<1>8. Fresh(r)'
  BY DEF Fresh
<1>9. \A d \in Caller : Holds(call[d])' /\ Fresh(call[d])'
  <2> TAKE d \in Caller
  <2>1. CASE d = c
    BY <1>1, <1>8, <2>1 DEF Holds, StageRule, Fresh
  <2>2. QED
    BY <1>7, <2>1
<1>10. QED
  BY <1>4, <1>5, <1>6, <1>9 DEF KeptInv

(* A request that comes finds the port at rest, or meets another. *)
LEMMA ComingKeepsIt ==
  ASSUME FileShape, KeptInv, NEW c \in Caller, NEW what, NEW p \in Port \cup {Missing}, NEW config, NEW at,
         Arrives(c, what, p, config, at), at # "idle",
         p \in Port /\ Matches(p) =>
            /\ at \in {"stop", "reserve", "reload", "write"}
            /\ at \in {"reload", "write"} => ~Serving(p)
  PROVE  KeptInv'
<1>0. PICK r : r = [at |-> at, what |-> what, port |-> p, config |-> config,
                    copy |-> IF at \in {"judge", "write"} THEN Loaded ELSE Missing]
  OBVIOUS
<1>1. r.at = at /\ r.what = what /\ r.port = p /\ (at \in {"judge", "write"} => r.copy = file)
  BY <1>0 DEF Loaded
<1>2. /\ call[c].at = "idle" /\ call' = [call EXCEPT ![c] = r]
      /\ UNCHANGED <<file, runs, reserved, said, mixed>> /\ crossed \subseteq crossed'
      /\ p \in Port /\ (\E d \in Caller \ {c} : call[d].at # "idle" /\ call[d].port = p) => p \in crossed'
  BY <1>0 DEF Arrives
<1>3. call'[c] = r /\ \A d \in Caller \ {c} : call'[d] = call[d]
  BY <1>2 DEF FileShape, Calls
<1>4. \A q : (Listed(q)' <=> Listed(q)) /\ (Serving(q)' <=> Serving(q)) /\ (Matches(q)' <=> Matches(q))
  BY <1>2 DEF Listed, Serving, Matches
<1>5. Alone'
  <2> SUFFICES ASSUME NEW d \in Caller, NEW e \in Caller, d # e, call'[d].at # "idle", call'[e].at # "idle",
                      call'[d].port = call'[e].port
               PROVE  call'[d].port \in crossed' \cup {Missing}
    BY DEF Alone
  <2>1. CASE d # c /\ e # c
    BY <1>2, <1>3, <2>1 DEF KeptInv, Alone
  <2>2. CASE d = c \/ e = c
    BY <1>1, <1>2, <1>3, <2>2
  <2>3. QED
    BY <2>1, <2>2
<1>6. AtRest'
  BY <1>2, <1>3, <1>4 DEF KeptInv, AtRest, Busy
<1>7. Promised'
  BY <1>2, <1>4 DEF KeptInv, Promised
<1>8. Holds(r)'
  <2> SUFFICES ASSUME p \in Port, p \notin crossed'
               PROVE  StageRule(r)'
    BY <1>1 DEF Holds
  <2>1. Matches(p)
    BY <1>2 DEF KeptInv, AtRest, Busy
  <2>2. at \in {"reload", "write"} => ~Serving(p) /\ runs[p] = Missing
    BY <2>1 DEF Serving
  <2>3. QED
    BY <1>1, <1>2, <1>4, <2>1, <2>2 DEF StageRule
<1>9. Fresh(r)'
  BY <1>1, <1>2 DEF Fresh
<1>10. \A d \in Caller : Holds(call[d])' /\ Fresh(call[d])'
  <2> TAKE d \in Caller
  <2>1. CASE d = c
    BY <1>3, <1>8, <1>9, <2>1 DEF Holds, StageRule, Fresh
  <2>2. CASE d # c
    BY <1>2, <1>3, <1>4, <2>2 DEF KeptInv, Holds, StageRule, Fresh, Serving
  <2>3. QED
    BY <2>1, <2>2
<1>11. QED
  BY <1>5, <1>6, <1>7, <1>10 DEF KeptInv

(* Who saves writes what it loaded, which is what the file says, and its port. *)
LEMMA SavingKeepsIt ==
  ASSUME FileShape, KeptInv, NEW c \in Caller, Saves(c), ~mixed'
  PROVE  KeptInv'
<1>0. PICK r : r = call[c]
  OBVIOUS
<1>1. /\ r.at = "write" /\ CallSound(r) /\ r \in Call /\ r.copy \in File /\ Holds(r) /\ Fresh(r)
      /\ UNCHANGED <<runs, reserved, crossed>>
  BY <1>0 DEF Saves, FileShape, Calls, CallSound, KeptInv
<1>2. call'[c] = NoCall /\ \A d \in Caller \ {c} : call'[d] = call[d]
  BY DEF Saves, Answered, FileShape, Calls
<1>3. \A d \in Caller \ {c} : call[d].at \notin {"judge", "write"}
  BY DEF Saves
<1>4. \A q \in Port : r.what = "poll" \/ q # r.port => file'[q] = r.copy[q]
  BY <1>0, <1>1 DEF Saves, File
<1>5. \A q \in Port : r.what = "poll" \/ q # r.port =>
         (Listed(q)' <=> Listed(q)) /\ (Matches(q)' <=> Matches(q)) /\ (Serving(q)' <=> Serving(q))
  BY <1>1, <1>4 DEF Fresh, Listed, Matches, Serving
<1>6. ASSUME r.what # "poll"
      PROVE  /\ r.port \in Port /\ file'[r.port] = Entry(r)
             /\ Matches(r.port)' \/ r.port \in crossed
             /\ r.port \in said' => Listed(r.port)' \/ r.port \in crossed
  <2>1. r.port \in Port
    BY <1>1, <1>6 DEF CallSound
  <2>2. file'[r.port] = Entry(r)
    BY <1>0, <1>1, <1>6, <2>1 DEF Saves, File
  <2>3. r.what # "delete" => Listed(r.port)'
    BY <1>0, <1>1, <1>6, <2>2, EntriesAreProfiles DEF Listed
  <2>4. r.what = "delete" => r.port \notin said'
    BY <1>0, <1>6 DEF Saves
  <2>5. Matches(r.port)' \/ r.port \in crossed
    <3> SUFFICES ASSUME r.port \notin crossed
                 PROVE  Matches(r.port)'
      OBVIOUS
    <3>1. StageRule(r)
      BY <1>1, <2>1 DEF Holds
    <3>2. CASE r.what = "start"
      <4>1. Entry(r).config = r.config
        BY <1>0, <1>1, <3>2, EntriesAreProfiles
      <4>2. runs[r.port] \in {r.config, Missing}
        BY <1>1, <3>1, <3>2 DEF StageRule
      <4>3. QED
        BY <1>1, <2>2, <2>3, <3>2, <4>1, <4>2 DEF Matches, Serving
    <3>3. CASE r.what # "start"
      <4>1. ~Serving(r.port)
        BY <1>1, <3>1, <3>3 DEF StageRule
      <4>2. QED
        BY <1>1, <4>1 DEF Matches, Serving
    <3>4. QED
      BY <3>2, <3>3
  <2>6. QED
    BY <2>1, <2>2, <2>3, <2>4, <2>5
<1>7. r.what = "poll" => r.port = Missing
  BY <1>1 DEF CallSound
<1>8. NoCall.at = "idle"
  BY NoCallIsSound
<1>9. Alone'
  BY <1>0, <1>1, <1>2, <1>8 DEF KeptInv, Alone
<1>10. AtRest'
  <2> SUFFICES ASSUME NEW q \in Port, ~Busy(q)', q \notin crossed'
               PROVE  Matches(q)'
    BY DEF AtRest
  <2>1. CASE r.what # "poll" /\ q = r.port
    BY <1>1, <1>6, <2>1
  <2>2. CASE r.what = "poll" \/ q # r.port
    <3>1. ~Busy(q)
      BY <1>0, <1>2, <1>7, <2>2, RegistryAssumption DEF Busy
    <3>2. QED
      BY <1>1, <1>5, <2>2, <3>1 DEF KeptInv, AtRest
  <2>3. QED
    BY <2>1, <2>2
<1>11. Promised'
  <2> SUFFICES ASSUME NEW q \in said', q \notin crossed'
               PROVE  q \in Port /\ Listed(q)'
    BY DEF Promised
  <2>1. CASE r.what # "poll" /\ q = r.port
    BY <1>1, <1>6, <2>1
  <2>2. CASE r.what = "poll" \/ q # r.port
    <3>1. q \in said
      BY <1>0, <2>2 DEF Saves
    <3>2. q \in Port /\ Listed(q)
      BY <1>1, <3>1 DEF KeptInv, Promised
    <3>3. QED
      BY <1>5, <2>2, <3>2
  <2>3. QED
    BY <2>1, <2>2
<1>12. \A d \in Caller : Holds(call[d])' /\ Fresh(call[d])'
  <2> TAKE d \in Caller
  <2>1. CASE d = c
    BY <1>2, <1>8, <2>1 DEF Holds, Fresh
  <2>2. CASE d # c
    <3>1. call'[d] = call[d] /\ Holds(call[d])
      BY <1>2, <2>2 DEF KeptInv
    <3>2. Fresh(call[d])'
      BY <1>3, <2>2, <3>1 DEF Fresh
    <3>3. CASE call[d].port = r.port
      <4>1. call[d].at # "idle" /\ call[d].port \in Port => call[d].port \in crossed
        BY <1>0, <1>1, <2>2, <3>3, RegistryAssumption DEF KeptInv, Alone
      <4>2. QED
        BY <1>1, <3>1, <3>2, <4>1 DEF Holds
    <3>4. CASE call[d].port # r.port
      BY <1>1, <1>5, <3>1, <3>2, <3>4 DEF Holds, StageRule, Serving
    <3>5. QED
      BY <3>3, <3>4
  <2>3. QED
    BY <2>1, <2>2
<1>13. QED
  BY <1>9, <1>10, <1>11, <1>12 DEF KeptInv

LEMMA KeptInvariant == RegistrySpec => [](FileShape /\ (mixed \/ KeptInv))
<1>1. RegistryInit => KeptInv
  <2> SUFFICES ASSUME RegistryInit PROVE KeptInv
    OBVIOUS
  <2>1. \A c \in Caller : call[c] = NoCall /\ call[c].at = "idle"
    BY NoCallIsSound DEF RegistryInit
  <2>2. \A p \in Port : ~Serving(p)
    BY DEF RegistryInit, Serving
  <2>3. QED
    BY <2>1, <2>2 DEF RegistryInit, KeptInv, Alone, AtRest, Promised, Holds, Fresh, Matches, Listed
<1>2. FileShape /\ FileShape' /\ (mixed \/ KeptInv) /\ [RegistryNext]_registryVars => (mixed \/ KeptInv)'
  <2> SUFFICES ASSUME FileShape, FileShape', mixed \/ KeptInv, [RegistryNext]_registryVars, ~mixed'
               PROVE  KeptInv'
    OBVIOUS
  <2>1. mixed \in BOOLEAN /\ mixed' \in BOOLEAN
    BY DEF FileShape
  <2>2. mixed => mixed'
    <3>1. ASSUME NEW c \in Caller, NEW what, NEW p, NEW config, NEW at, Arrives(c, what, p, config, at)
          PROVE  UNCHANGED mixed
      BY <3>1 DEF Arrives
    <3>2. ASSUME NEW c \in Caller, Saves(c)
          PROVE  mixed => mixed'
      BY <3>2 DEF Saves
    <3>3. QED
      BY <3>1, <3>2
         DEF RegistryNext, registryVars, PollLoads, StopLoads, DeleteLoads, SavedStartLoads, CreateLoads,
             UpdateLoads, StartLoads, Stops, StopFails, Reserves, Serves, StartFails, Reloads, Judges,
             Raises, ServerDies
  <2>3. KeptInv
    BY <2>2
  <2>4. ASSUME NEW c \in Caller, PollLoads(c)
        PROVE  KeptInv'
    BY <2>3, <2>4, ComingKeepsIt, RegistryAssumption DEF PollLoads
  <2>5. ASSUME NEW c \in Caller, NEW p \in Port, StopLoads(c, p) \/ DeleteLoads(c, p)
        PROVE  KeptInv'
    BY <2>3, <2>5, ComingKeepsIt DEF StopLoads, DeleteLoads, Deletable
  <2>6. ASSUME NEW c \in Caller, NEW p \in Port, NEW config,
               CreateLoads(c, p, config) \/ UpdateLoads(c, p, config) \/ StartLoads(c, p, config)
        PROVE  KeptInv'
    <3>1. CASE CreateLoads(c, p, config)
      BY <2>3, <3>1, ComingKeepsIt DEF CreateLoads, Matches
    <3>2. CASE UpdateLoads(c, p, config)
      BY <2>3, <3>2, ComingKeepsIt DEF UpdateLoads, FirstOfUpdate
    <3>3. CASE StartLoads(c, p, config)
      BY <2>3, <3>3, ComingKeepsIt DEF StartLoads
    <3>4. QED
      BY <2>6, <3>1, <3>2, <3>3
  <2>7. ASSUME NEW c \in Caller, NEW p \in Port, SavedStartLoads(c, p)
        PROVE  KeptInv'
    BY <2>6, <2>7 DEF SavedStartLoads
  <2>8. ASSUME NEW c \in Caller
        PROVE  /\ call[c] \in Call /\ CallSound(call[c]) /\ Holds(call[c]) /\ Fresh(call[c])
               /\ call[c].port \in Port => Port \cap {Missing} = {}
    BY <2>3, RegistryAssumption DEF KeptInv, FileShape, Calls
  <2>9. ASSUME NEW c \in Caller, NEW p, p = call[c].port, Answered(c), UNCHANGED <<file, said, runs>>,
               crossed \subseteq crossed', call[c].at # "idle",
               p \in Port => Matches(p) \/ p \in crossed'
        PROVE  KeptInv'
    <3>1. Holds(NoCall)' /\ Fresh(NoCall) /\ NoCall.at = "idle"
      BY NoCallIsSound DEF Holds, Fresh
    <3>2. Matches(p)' <=> Matches(p)
      BY <2>9 DEF Matches, Listed, Serving
    <3>3. call' = [call EXCEPT ![c] = NoCall] /\ \A q \in Port : q # p => runs'[q] = runs[q]
      BY <2>9 DEF Answered
    <3>4. QED
      BY <2>3, <2>9, <3>1, <3>2, <3>3, GoingOnKeepsIt
  <2>10. ASSUME NEW c \in Caller, NEW p, NEW r, p = call[c].port, call' = [call EXCEPT ![c] = r],
                UNCHANGED <<file, said, crossed>>, call[c].at # "idle",
                r.at # "idle", r.port = p, Fresh(r),
                \A q \in Port : q # p => runs'[q] = runs[q],
                p \in Port => StageRule(r)' \/ p \in crossed
         PROVE  KeptInv'
    <3>1. Holds(r)'
      BY <2>10 DEF Holds
    <3>2. QED
      BY <2>3, <2>10, <3>1, GoingOnKeepsIt
  <2>11. ASSUME NEW c \in Caller, NEW p, p = call[c].port, call[c].at # "idle", p \in Port, p \notin crossed
         PROVE  StageRule(call[c])
    BY <2>8, <2>11 DEF Holds
  <2>12. ASSUME NEW c \in Caller, Stops(c) \/ StopFails(c)
         PROVE  KeptInv'
    <3>1. PICK p, r : p = call[c].port /\ r = [call[c] EXCEPT !.at = "reload"]
      OBVIOUS
    <3>2. call[c].at = "stop" /\ p \in Port /\ UNCHANGED <<file, said, crossed>>
      BY <2>8, <2>12, <3>1 DEF Stops, StopFails, CallSound
    <3>3. CASE Stops(c)
      <4>1. r.at = "reload" /\ r.port = p /\ r.what # "start"
        BY <2>8, <3>1, <3>2 DEF Call, CallSound
      <4>2. call' = [call EXCEPT ![c] = r] /\ runs' = [runs EXCEPT ![p] = Missing]
        BY <3>1, <3>3 DEF Stops, Step
      <4>3. runs'[p] = Missing /\ \A q \in Port : q # p => runs'[q] = runs[q]
        BY <3>2, <4>2 DEF FileShape
      <4>4. StageRule(r)' /\ Fresh(r)
        BY <4>1, <4>3 DEF StageRule, Serving, Fresh
      <4>5. QED
        BY <2>10, <3>1, <3>2, <4>1, <4>2, <4>3, <4>4
    <3>4. CASE StopFails(c)
      <4>1. Matches(p) \/ p \in crossed
        BY <2>11, <3>1, <3>2 DEF StageRule
      <4>2. QED
        BY <2>9, <3>1, <3>2, <3>4, <4>1 DEF StopFails
    <3>5. QED
      BY <2>12, <3>3, <3>4
  <2>13. ASSUME NEW c \in Caller, Reserves(c) \/ Serves(c) \/ StartFails(c)
         PROVE  KeptInv'
    <3>1. PICK p : p = call[c].port
      OBVIOUS
    <3>2. /\ call[c].at \in {"reserve", "spawn"} /\ call[c].what = "start" /\ p \in Port
          /\ UNCHANGED <<file, said, crossed>>
      BY <2>8, <2>13, <3>1 DEF Reserves, Serves, StartFails, CallSound
    <3>3. call[c].at = "spawn" => ~Serving(p) \/ p \in crossed
      BY <2>11, <3>1, <3>2 DEF StageRule
    <3>4. Matches(p) \/ p \in crossed
      BY <2>11, <3>1, <3>2, <3>3 DEF StageRule, Matches
    <3>5. CASE Answered(c) /\ UNCHANGED runs
      BY <2>9, <3>1, <3>2, <3>4, <3>5
    <3>6. CASE Reserves(c) /\ ~Serving(p) /\ Step(c, "spawn")
      <4>1. PICK r : r = [call[c] EXCEPT !.at = "spawn"]
        OBVIOUS
      <4>2. r.at = "spawn" /\ r.port = p /\ call' = [call EXCEPT ![c] = r] /\ UNCHANGED runs
        BY <2>8, <3>1, <3>6, <4>1 DEF Call, Reserves, Step
      <4>3. StageRule(r)' /\ Fresh(r)
        BY <3>6, <4>2 DEF StageRule, Serving, Fresh
      <4>4. QED
        BY <2>10, <3>1, <3>2, <4>2, <4>3
    <3>7. CASE Serves(c)
      <4>1. PICK r : r = [call[c] EXCEPT !.at = "reload"]
        OBVIOUS
      <4>2. /\ r.at = "reload" /\ r.port = p /\ r.what = "start" /\ r.config = call[c].config
            /\ call' = [call EXCEPT ![c] = r] /\ runs' = [runs EXCEPT ![p] = r.config]
        BY <2>8, <3>1, <3>2, <3>7, <4>1 DEF Call, Serves, Step
      <4>3. runs'[p] = r.config /\ \A q \in Port : q # p => runs'[q] = runs[q]
        BY <3>2, <4>2 DEF FileShape
      <4>4. StageRule(r)' /\ Fresh(r)
        BY <4>2, <4>3 DEF StageRule, Fresh
      <4>5. QED
        BY <2>10, <3>1, <3>2, <4>2, <4>3, <4>4
    <3>8. QED
      BY <2>13, <3>1, <3>5, <3>6, <3>7 DEF Reserves, StartFails
  <2>14. ASSUME NEW c \in Caller, Reloads(c)
         PROVE  KeptInv'
    <3>1. PICK p, r : p = call[c].port /\ r = [call[c] EXCEPT !.at = "write", !.copy = file]
      OBVIOUS
    <3>2. call[c].at = "reload" /\ p \in Port /\ UNCHANGED <<file, runs, said, crossed>>
      BY <2>8, <2>14, <3>1 DEF Reloads, CallSound
    <3>3. StageRule(call[c]) \/ p \in crossed
      BY <2>11, <3>1, <3>2
    <3>4. CASE call[c].what = "stop" /\ Answered(c)
      <4>1. Matches(p) \/ p \in crossed
        BY <3>1, <3>2, <3>3, <3>4 DEF StageRule, Matches
      <4>2. QED
        BY <2>9, <3>1, <3>2, <3>4, <4>1
    <3>5. CASE call' = [call EXCEPT ![c] = r]
      <4>1. /\ r.at = "write" /\ r.port = p /\ r.what = call[c].what /\ r.config = call[c].config
            /\ r.copy = file
        BY <2>8, <3>1 DEF Call
      <4>2. StageRule(r)' \/ p \in crossed
        BY <3>1, <3>2, <3>3, <4>1 DEF StageRule, Serving
      <4>3. Fresh(r)
        BY <4>1 DEF Fresh
      <4>4. QED
        BY <2>10, <3>1, <3>2, <3>5, <4>1, <4>2, <4>3
    <3>6. QED
      BY <2>14, <3>1, <3>4, <3>5 DEF Reloads, Loaded
  <2>15. ASSUME NEW c \in Caller, Judges(c)
         PROVE  KeptInv'
    <3> DEFINE copy == call[c].copy
               stale == {p \in Port : copy[p] # Missing /\ copy[p].pid /\ ~Serving(p)}
               new == [p \in Port |-> IF p \in stale THEN [copy[p] EXCEPT !.pid = FALSE] ELSE copy[p]]
    <3>1. PICK p, r : p = call[c].port /\ r = [call[c] EXCEPT !.at = "write", !.copy = new]
      OBVIOUS
    <3>2. call[c].at = "judge" /\ p = Missing /\ copy \in File /\ UNCHANGED <<file, runs, said, crossed>>
      BY <2>8, <2>15, <3>1 DEF Judges, CallSound
    <3>3. p \notin Port
      BY <3>2, RegistryAssumption
    <3>4. CASE Answered(c)
      BY <2>9, <3>1, <3>2, <3>3, <3>4
    <3>5. CASE call' = [call EXCEPT ![c] = r]
      <4>1. r.at = "write" /\ r.port = p /\ r.copy = new
        BY <2>8, <3>1 DEF Call
      <4>2. \A q \in Port : /\ new[q] = Missing <=> file[q] = Missing
                            /\ file[q] # Missing => new[q].config = file[q].config
        <5> SUFFICES ASSUME NEW q \in Port
                     PROVE  /\ new[q] = Missing <=> file[q] = Missing
                            /\ file[q] # Missing => new[q].config = file[q].config
          OBVIOUS
        <5>1. /\ copy[q] = Missing <=> file[q] = Missing
              /\ file[q] # Missing => copy[q].config = file[q].config
          BY <2>8, <3>2 DEF Fresh
        <5>2. CASE q \in stale
          <6>1. copy[q] \in Profile
            BY <3>2, <5>2 DEF File
          <6>2. new[q] \in Profile /\ new[q].config = copy[q].config
            BY <5>2, <6>1 DEF Profile
          <6>3. QED
            BY <5>1, <5>2, <6>2, RegistryAssumption
        <5>3. CASE q \notin stale
          BY <5>1, <5>3
        <5>4. QED
          BY <5>2, <5>3
      <4> HIDE DEF new
      <4>3. Fresh(r)
        BY <4>1, <4>2 DEF Fresh
      <4>4. QED
        BY <2>10, <3>1, <3>2, <3>3, <3>5, <4>1, <4>3
    <3>6. QED
      BY <2>15, <3>1, <3>4, <3>5 DEF Judges
  <2>16. ASSUME NEW c \in Caller, Raises(c)
         PROVE  KeptInv'
    <3>1. PICK p : p = call[c].port
      OBVIOUS
    <3>2. /\ call[c].at # "idle" /\ Answered(c) /\ UNCHANGED <<file, runs, said>>
          /\ crossed' = IF p = Missing THEN crossed ELSE crossed \cup {p}
      BY <2>16, <3>1 DEF Raises
    <3>3. p \in Port => p \in crossed'
      BY <3>2, RegistryAssumption
    <3>4. QED
      BY <2>9, <3>1, <3>2, <3>3
  <2>17. ASSUME NEW c \in Caller, Saves(c)
         PROVE  KeptInv'
    BY <2>3, <2>17, SavingKeepsIt
  <2>18. ASSUME NEW p \in Port, ServerDies(p)
         PROVE  KeptInv'
    <3>1. /\ runs' = [runs EXCEPT ![p] = Missing] /\ UNCHANGED <<file, call, said, crossed>>
      BY <2>18 DEF ServerDies
    <3>2. \A q \in Port : runs'[q] = runs[q] \/ runs'[q] = Missing
      BY <3>1 DEF FileShape
    <3>3. \A q \in Port : (Matches(q) => Matches(q)') /\ (~Serving(q) => ~Serving(q)') /\ (Listed(q)' <=> Listed(q))
      BY <3>1, <3>2 DEF Matches, Serving, Listed
    <3>4. \A c \in Caller : Holds(call[c])' /\ Fresh(call[c])'
      <4> TAKE c \in Caller
      <4>1. Holds(call[c]) /\ Fresh(call[c]) /\ call'[c] = call[c]
        BY <2>8, <3>1
      <4>2. Holds(call[c])'
        BY <3>1, <3>2, <3>3, <4>1 DEF Holds, StageRule
      <4>3. QED
        BY <3>1, <4>1, <4>2 DEF Fresh
    <3>5. QED
      BY <2>3, <3>1, <3>3, <3>4 DEF KeptInv, Alone, AtRest, Promised, Busy
  <2>19. CASE UNCHANGED registryVars
    BY <2>3, <2>19
       DEF registryVars, KeptInv, Alone, AtRest, Promised, Busy, Holds, StageRule, Fresh, Matches, Serving, Listed
  <2>20. ASSUME NEW c \in Caller, NEW p \in Port,
                \E config \in Config : CreateLoads(c, p, config) \/ UpdateLoads(c, p, config) \/ StartLoads(c, p, config)
         PROVE  KeptInv'
    BY <2>6, <2>20
  <2>21. QED
    BY <2>4, <2>5, <2>7, <2>12, <2>13, <2>14, <2>15, <2>16, <2>17, <2>18, <2>19, <2>20, Zenon DEF RegistryNext
<1>3. QED
  BY <1>1, <1>2, ShapeInvariant, PTL DEF RegistrySpec

(* Whatever requests load and save the file of profiles at once, profiles stay *)
(* as promised and servers serve what their profiles say, except for ports two *)
(* requests were about and files two requests saved over each other.           *)
THEOREM ProfilesAreKept == RegistrySpec => []ProfilesKept
<1>1. FileShape /\ (mixed \/ KeptInv) => ProfilesKept
  <2> SUFFICES ASSUME FileShape, mixed \/ KeptInv
               PROVE  ProfilesKept
    OBVIOUS
  <2>1. RegistryTypeOK
    BY DEF RegistryTypeOK, FileShape, Calls, Call, CallSound, Stage
  <2>2. ServesItsProfile
    BY DEF KeptInv, AtRest, Matches, ServesItsProfile
  <2>3. ProfileStays
    BY DEF KeptInv, Promised, ProfileStays
  <2>4. QED
    BY <2>1, <2>2, <2>3 DEF ProfilesKept
<1>2. QED
  BY <1>1, KeptInvariant, PTL
=============================================================================
