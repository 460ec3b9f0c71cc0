--------------------------------- MODULE Access ---------------------------------
(***************************************************************************)
(* The users of the dashboard and their tokens                             *)
(* (dashboard/routes/users.py, dashboard/decorators.py,                    *)
(* dashboard/__init__.py, the password route of settings.py), and those    *)
(* who change users from outside it (secproxy_cli/services/user_service.py *)
(* and scripts/create_admin.py).  A request of the dashboard looks at the  *)
(* users first and writes later; a login verifies a password and makes the *)
(* token in another transaction.                                           *)
(***************************************************************************)
EXTENDS Integers, FiniteSets

CONSTANTS
    Uid,        \* numbers of users
    Secret,     \* passwords
    Actor,      \* requests of the dashboard
    MaxBorn,    \* bound: users ever created
    MaxHeld,    \* bound: tokens at a time
    Nobody

VARIABLES
    users,      \* the record of each number, or Nobody
    tokens,     \* the stored tokens
    ask,        \* each request
    born,       \* observation: users ever created; "who" in a record is one of them
    loose,      \* observation: numbers whose tokens were not withdrawn, or could not be
    raced,      \* observation: a request wrote while another had looked
    unchecked   \* observation: someone changed users from outside the dashboard

accessVars == <<users, tokens, ask, born, loose, raced, unchecked>>

Roles == {"admin", "manager", "user"}   \* a manager is a user with users.manage added
Privileged(role) == role = "admin"
Environment == 0                        \* the administrator of DASHBOARD_PASSWORD

User == [role : Roles, active : BOOLEAN, secret : Secret, who : 1..MaxBorn]

ASSUME AccessAssumption ==
    /\ Uid \subseteq Nat \ {0} /\ {1, 2} \subseteq Uid /\ IsFiniteSet(Uid) /\ IsFiniteSet(Actor)
    /\ MaxBorn \in Nat /\ MaxBorn >= 2 /\ MaxHeld \in Nat
    /\ Nobody \notin User \cup Roles \cup BOOLEAN

Token == [uid : Uid, secret : Secret, who : 1..MaxBorn, old : BOOLEAN]

NoAsk == [at |-> "idle", what |-> "none", by |-> Environment, target |-> 0,
          role |-> Nobody, active |-> Nobody, secret |-> Nobody, who |-> 0]

(* The bound: each of Actor makes one request, or none. *)
Silent == [NoAsk EXCEPT !.at = "ended"]

Known == {u \in Uid : users[u] # Nobody}
ActiveAdmins == {u \in Known : users[u].active /\ Privileged(users[u].role)}

AccessTypeOK ==
    /\ \A u \in Known : users[u] \in User
    /\ tokens \subseteq Token
    /\ \A a \in Actor : ask[a].at \in {"idle", "looked", "verified", "ended"}
    /\ born \in 0..MaxBorn /\ loose \subseteq Uid /\ {raced, unchecked} \subseteq BOOLEAN

(* One administrator and a manager to begin with. *)
AccessInit ==
    /\ \E s \in Secret :
          users = [u \in Uid |-> CASE u = 1 -> [role |-> "admin", active |-> TRUE, secret |-> s, who |-> 1]
                                   [] u = 2 -> [role |-> "manager", active |-> TRUE, secret |-> s, who |-> 2]
                                   [] OTHER -> Nobody]
    /\ tokens = {} /\ ask \in [Actor -> {NoAsk, Silent}]
    /\ born = 2 /\ loose = {} /\ raced = FALSE /\ unchecked = FALSE

-----------------------------------------------------------------------------
Manages(u) == u = Environment \/ (u \in Known /\ users[u].active /\ users[u].role \in {"admin", "manager"})
ActorIsPrivileged(u) == u = Environment \/ (u \in Known /\ users[u].active /\ Privileged(users[u].role))

(* "Only an administrator can modify privileged users". *)
MayTouch(by, target, role) ==
    Privileged(users[target].role) \/ Privileged(role) => ActorIsPrivileged(by)

(* Seeded fault: nobody counts. *)
NeverLast(target, role, active) == TRUE

(* "At least one active administrator must remain". *)
NotLast(target, role, active) ==
    Privileged(users[target].role) /\ (~active \/ ~Privileged(role)) => Cardinality(ActiveAdmins) > 1

Looked(a, request) ==
    /\ ask' = [ask EXCEPT ![a] = request]
    /\ UNCHANGED <<users, tokens, born, loose, raced, unchecked>>

(* What a request changes of the record it finds: Nobody stands for a column it *)
(* leaves as it is.  The bound: one column each.                                *)
Changes(r) ==
    {[role |-> role, active |-> Nobody, secret |-> Nobody] : role \in Roles \ {r.role}}
      \cup {[role |-> Nobody, active |-> ~r.active, secret |-> Nobody]}
      \cup {[role |-> Nobody, active |-> Nobody, secret |-> s] : s \in Secret \ {r.secret}}

(* data.get(column, what it is now). *)
Else(value, now) == IF value = Nobody THEN now ELSE value

(* The request to change a user: everything is refused or found right here. *)
UpdateLooks(a, by, u, change) ==
    LET role == Else(change.role, users[u].role)
        active == Else(change.active, users[u].active)
    IN /\ ask[a].at = "idle" /\ Manages(by)
       /\ MayTouch(by, u, role)
       /\ u = by => active /\ Privileged(role)
       /\ NotLast(u, role, active)
       /\ Looked(a, [at |-> "looked", what |-> "update", by |-> by, target |-> u, who |-> 0,
                     role |-> change.role, active |-> change.active,
                     secret |-> change.secret])

DeleteLooks(a, by, u) ==
    /\ ask[a].at = "idle" /\ Manages(by) /\ u \in Known /\ u # by
    /\ MayTouch(by, u, users[u].role)
    /\ users[u].active => NotLast(u, users[u].role, FALSE)
    /\ Looked(a, [NoAsk EXCEPT !.at = "looked", !.what = "delete", !.by = by, !.target = u])

(* Logins that have verified a password and not made their token. *)
InFlight(u) == {a \in Actor : ask[a].at = "verified" /\ ask[a].target = u}

OthersLooked(a) == \E b \in Actor \ {a} : ask[b].at = "looked"
Ended(a) == ask' = [ask EXCEPT ![a] = Silent]

(* Seeded fault: the tokens stay. *)
KeepsTokens(u) == UNCHANGED <<tokens, loose>>

Withdraws(u) ==
    /\ tokens' = {t \in tokens : t.uid # u}
    /\ loose' = IF InFlight(u) # {} THEN loose \cup {u} ELSE loose

(* The columns the request changes are written, and the tokens go when *)
(* the password changes or the user may not come in any more.  A user that is *)
(* gone fails the commit.                                                     *)
Updates(a) ==
    /\ ask[a].at = "looked" /\ ask[a].what = "update"
    /\ LET r == ask[a]
           u == r.target
       IN IF u \in Known
          THEN /\ users' = [users EXCEPT ![u].role = Else(r.role, @),
                                         ![u].active = Else(r.active, @),
                                         ![u].secret = Else(r.secret, @)]
               /\ IF r.secret # Nobody \/ r.active = FALSE THEN Withdraws(u) ELSE UNCHANGED <<tokens, loose>>
               /\ raced' = (raced \/ OthersLooked(a))
          ELSE UNCHANGED <<users, tokens, loose, raced>>
    /\ Ended(a)
    /\ UNCHANGED <<born, unchecked>>

Deletes(a) ==
    /\ ask[a].at = "looked" /\ ask[a].what = "delete"
    /\ users' = [users EXCEPT ![ask[a].target] = Nobody]
    /\ Withdraws(ask[a].target)
    /\ raced' = (raced \/ OthersLooked(a))
    /\ Ended(a)
    /\ UNCHANGED <<born, unchecked>>

(* A new user takes the number after the last one in use. *)
NextUid == {u \in Uid : \A v \in Known : v < u}

Created(role, active, secret) ==
    /\ born < MaxBorn /\ born' = born + 1
    /\ \E u \in NextUid :
          /\ \A v \in NextUid : u <= v
          /\ users' = [users EXCEPT ![u] = [role |-> role, active |-> active, secret |-> secret, who |-> born + 1]]
          /\ loose' = IF InFlight(u) # {} THEN loose \cup {u} ELSE loose
    /\ UNCHANGED <<tokens, ask, raced>>

Creates(by, role, secret) ==
    /\ Manages(by)
    /\ Privileged(role) => ActorIsPrivileged(by)
    /\ Created(role, TRUE, secret)
    /\ unchecked' = unchecked

-----------------------------------------------------------------------------
(* A login for a token: the password is verified in one transaction and the *)
(* token made in the next.                                                  *)
Verifies(a, u, s) ==
    /\ ask[a].at = "idle" /\ u \in Known /\ users[u].active /\ users[u].secret = s
    /\ Looked(a, [NoAsk EXCEPT !.at = "verified", !.what = "login", !.target = u, !.secret = s, !.who = users[u].who])

CreatesToken(a) ==
    /\ ask[a].at = "verified"
    /\ Cardinality(tokens) < MaxHeld
    /\ tokens' = tokens \cup {[uid |-> ask[a].target, secret |-> ask[a].secret, who |-> ask[a].who, old |-> FALSE]}
    /\ Ended(a)
    /\ UNCHANGED <<users, born, loose, raced, unchecked>>

TokenExpires(t) ==
    /\ tokens' = (tokens \ {t}) \cup {[t EXCEPT !.old = TRUE]}
    /\ UNCHANGED <<users, ask, born, loose, raced, unchecked>>

(* A token past its time is deleted when it is shown, or by the cleanup that *)
(* every process makes now and then.                                         *)
TokenShown(t) ==
    /\ t.old
    /\ tokens' = tokens \ {t}
    /\ UNCHANGED <<users, ask, born, loose, raced, unchecked>>

TokensCleaned ==
    /\ \E t \in tokens : t.old
    /\ tokens' = {t \in tokens : ~t.old}
    /\ UNCHANGED <<users, ask, born, loose, raced, unchecked>>

(* A browser keeps a signed cookie with the number of its user, of which the *)
(* database knows nothing; to log out withdraws the tokens of that number.    *)
Logout(u) ==
    /\ Withdraws(u)
    /\ UNCHANGED <<users, ask, born, raced, unchecked>>

(* The password route of the settings: one's own password. *)
ChangesOwnPassword(u, s) ==
    /\ u \in Known /\ users[u].active /\ Privileged(users[u].role)
    /\ users' = [users EXCEPT ![u].secret = s]
    /\ Withdraws(u)
    /\ UNCHANGED <<ask, born, raced, unchecked>>

-----------------------------------------------------------------------------
(* The command line and the script ask nobody and withdraw no token.  The *)
(* bound: one change from outside.                                        *)
FromOutside(u) ==
    /\ ~unchecked
    /\ loose' = loose \cup {u}
    /\ unchecked' = TRUE
    /\ UNCHANGED <<tokens, ask, raced>>

SetsActive(u, active) ==
    /\ u \in Known /\ users' = [users EXCEPT ![u].active = active]
    /\ FromOutside(u) /\ born' = born

SetsRole(u, role) ==
    /\ u \in Known /\ users' = [users EXCEPT ![u].role = role]
    /\ FromOutside(u) /\ born' = born

SetsPassword(u, s) ==
    /\ u \in Known /\ users' = [users EXCEPT ![u].secret = s]
    /\ FromOutside(u) /\ born' = born

DeletesUser(u) ==
    /\ u \in Known /\ Cardinality(Known) > 1
    /\ users' = [users EXCEPT ![u] = Nobody]
    /\ FromOutside(u) /\ born' = born

CreatesUser(role, active, s) == Created(role, active, s) /\ ~unchecked /\ unchecked' = TRUE

CreatesAdmin(s) == Created("admin", TRUE, s) /\ ~unchecked /\ unchecked' = TRUE

UpdatesAdmin(u, s) ==
    /\ u \in Known
    /\ users' = [users EXCEPT ![u].role = "admin", ![u].active = TRUE, ![u].secret = s]
    /\ FromOutside(u) /\ born' = born

AccessNext ==
    \/ \E a \in Actor :
          \/ \E by \in Uid \cup {Environment}, u \in Uid :
                \/ DeleteLooks(a, by, u)
                \/ u \in Known /\ \E change \in Changes(users[u]) : UpdateLooks(a, by, u, change)
          \/ Updates(a) \/ Deletes(a) \/ CreatesToken(a)
          \/ \E u \in Uid, s \in Secret : Verifies(a, u, s)
    \/ \E by \in Uid \cup {Environment}, role \in Roles, s \in Secret : Creates(by, role, s)
    \/ \E t \in tokens : TokenExpires(t) \/ TokenShown(t)
    \/ TokensCleaned
    \/ \E u \in Uid :
          \/ Logout(u) \/ \E s \in Secret : ChangesOwnPassword(u, s)
          \/ \E active \in BOOLEAN : SetsActive(u, active)
          \/ \E role \in Roles : SetsRole(u, role)
          \/ \E s \in Secret : SetsPassword(u, s) \/ UpdatesAdmin(u, s)
          \/ DeletesUser(u)
    \/ \E s \in Secret : CreatesAdmin(s) \/ \E role \in Roles, active \in BOOLEAN : CreatesUser(role, active, s)

AccessSpec == AccessInit /\ [][AccessNext]_accessVars

-----------------------------------------------------------------------------
(* There is an active administrator, unless two requests looked at the users *)
(* at once or they were changed from outside the dashboard.                  *)
AdministratorRemains == ActiveAdmins # {} \/ raced \/ unchecked

(* A token speaks for the very user who logged in with the present password *)
(* and may still come in, unless a login was under way when that changed or *)
(* it was changed from outside.                                             *)
TokenIsCurrent ==
    \A t \in tokens : t.uid \notin loose =>
        /\ t.uid \in Known /\ users[t.uid].active
        /\ users[t.uid].who = t.who /\ users[t.uid].secret = t.secret

(* What holds of users and tokens in every state. *)
TokensSound == AccessTypeOK /\ TokenIsCurrent
=============================================================================
