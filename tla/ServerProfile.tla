----------------------------- MODULE ServerProfile -----------------------------
(***************************************************************************)
(* What a profile of a proxy server may say: the rules a request goes      *)
(* through before its profile is saved (secproxy_core/server.py), those    *)
(* the server goes through when it reads the saved profile at its start    *)
(* (proxy_server/config.py), and the two selections of upstream proxies a  *)
(* profile stands for: the one a preview counts (server.py), for a user of *)
(* the dashboard within what the user may see (dashboard/proxy_scope.py),  *)
(* and the one the server draws from (proxy_server/server/proxy_store.py). *)
(* One profile is followed through its life; who else may write the file   *)
(* meanwhile is in Registry.                                               *)
(***************************************************************************)
EXTENDS Integers, FiniteSets

CONSTANTS
    Given,      \* what requests may say: functions from some fields to values
    Rows,       \* records of the proxies table, as the two selections see them
    Scopes,     \* what users may see: the statuses and the protocols, all if none
    Blank,      \* a field that is empty, or null
    Space       \* a text of spaces alone

(* The fields that are told apart.  "threads" stands for the numbers that have *)
(* a range, "web" for the capabilities that may be required, "mobile" for the  *)
(* flags that may be, "country" for the lists of texts.                        *)
Field == {"protocol", "bind", "username", "password", "public", "certfile", "keyfile",
          "min_cost", "cost_threshold", "threads", "statuses", "upstream", "web",
          "mobile", "country", "auth"}

Scheme == {"http", "https", "socks4", "socks5"}
Status == {"untested", "alive", "soft", "flaky", "cooling", "revived", "semi-revived", "dead"}

(* The command line has no user: it sees all. *)
Everything == [statuses |-> {}, protocols |-> {}]

(* A list of texts has no empty items: both selections drop them.  Whatever *)
(* adds or edits a record of a proxy admits these protocols alone.          *)
ASSUME ProfileAssumption ==
    /\ Blank \notin Scheme \cup Status \cup {"auth", "no_auth"} /\ Space \notin {Blank, "loopback"}
    /\ Everything \in Scopes
    /\ \A s \in Scopes : s.statuses \subseteq Status /\ s.protocols \subseteq Scheme
    /\ \A data \in Given :
          /\ DOMAIN data \subseteq Field \cup {"clear_credentials"}
          /\ "country" \in DOMAIN data => Blank \notin data.country
    /\ \A r \in Rows :
          /\ DOMAIN r = {"protocol", "status", "web", "mobile", "country",
                         "username", "password", "cost"}
          /\ r.protocol \in Scheme

VARIABLES
    profile,    \* the profile that is saved, or Blank
    cleared,    \* did the last request that was saved clear the credentials, by
                \* saying so or by a user name of nothing but spaces
    warned      \* did the last preview warn that no candidate matches

profileVars == <<profile, cleared, warned>>

Refused == [refused |-> TRUE]

ProfileTypeOK ==
    /\ profile = Blank \/ DOMAIN profile = Field
    /\ {cleared, warned} \subseteq BOOLEAN

ProfileInit == profile = Blank /\ cleared = FALSE /\ warned = FALSE

-----------------------------------------------------------------------------
(* The rules before a profile is saved.                                      *)

Default ==
    [f \in Field |->
        CASE f = "protocol" -> "http"
          [] f = "bind" -> "loopback"
          [] f = "min_cost" -> 0
          [] f = "threads" -> 100
          [] f \in {"public", "web"} -> FALSE
          [] f \in {"statuses", "upstream", "country"} -> {}
          [] OTHER -> Blank]

(* str(value).strip() of the texts, which leaves nothing of spaces. *)
Text == {"bind", "username", "password", "certfile", "keyfile", "auth"}
Stripped(f, v) == IF f \in Text /\ v = Space THEN Blank ELSE v

(* A field that is not given keeps what it was. *)
Merged(data, old) ==
    [f \in Field |-> IF f \in DOMAIN data THEN Stripped(f, data[f])
                     ELSE IF old # Blank THEN old[f] ELSE Default[f]]

InRange(n) == n \in 1..1000

IsBoolean(v) == v \in BOOLEAN

(* The checks of single fields. *)
WellFormed(m) ==
    /\ m.protocol \in Scheme
    /\ m.bind # Blank
    /\ InRange(m.threads)
    /\ m.min_cost >= 0 /\ (m.cost_threshold = Blank \/ m.cost_threshold >= 0)
    /\ IsBoolean(m.public) /\ IsBoolean(m.web) /\ (m.mobile = Blank \/ IsBoolean(m.mobile))
    /\ m.statuses \subseteq Status /\ m.upstream \subseteq Scheme

(* No status at all means the alive ones. *)
Statuses(m) == IF m.statuses = {} THEN {"alive"} ELSE m.statuses

Says(data, f) == f \in DOMAIN data /\ data[f] # Blank

(* Seeded fault: an empty field empties the credentials. *)
CredentialAsGiven(data, old, m, f) == IF "clear_credentials" \in DOMAIN data THEN Blank ELSE m[f]

(* An empty user name or password in an update means the one there is; one of *)
(* spaces is not empty yet, and leaves none.                                  *)
Credential(data, old, m, f) ==
    IF "clear_credentials" \in DOMAIN data THEN Blank
    ELSE IF old # Blank /\ ~Says(data, f) THEN old[f] ELSE m[f]

IsLocalBind(bind) == bind = "loopback"

(* Seeded fault: the password that was kept does not matter to SOCKS4. *)
PairFits(p) == (p.username = Blank) <=> (p.password = Blank)

CredentialsFit(p) ==
    IF p.protocol = "socks4" THEN p.password = Blank
    ELSE (p.username = Blank) <=> (p.password = Blank)

CertificateFits(p) == (p.certfile = Blank) <=> (p.keyfile = Blank)

CostFits(p) == p.cost_threshold = Blank \/ p.cost_threshold >= p.min_cost

MayBeReached(p) == IsLocalBind(p.bind) \/ p.username # Blank \/ p.public

(* _normalize_server_config. *)
Normalized(data, old) ==
    LET m == Merged(data, old)
        p == [m EXCEPT !.statuses = Statuses(m),
                       !.username = Credential(data, old, m, "username"),
                       !.password = Credential(data, old, m, "password")]
    IN  IF WellFormed(m) /\ CredentialsFit(p) /\ CertificateFits(p) /\ CostFits(p) /\ MayBeReached(p)
        THEN p ELSE Refused

-----------------------------------------------------------------------------
(* The rules of the server that reads the profile.                           *)

(* _as_bool, which the parser and validate_args apply to the flags: what is *)
(* not there is not set.                                                    *)
AsBool(v) == v = Blank \/ v \in BOOLEAN

(* _parser, with the saved profile for its defaults: choices are not checked *)
(* of defaults.                                                              *)
Parses(p) == AsBool(p.public) /\ AsBool(p.web)

IsLoopback(bind) == bind = "loopback"

(* validate_args. *)
ValidArgs(p) ==
    /\ InRange(p.threads)
    /\ p.cost_threshold # Blank => p.cost_threshold >= p.min_cost
    /\ (p.certfile = Blank) = (p.keyfile = Blank)
    /\ (p.username = Blank) # (p.password = Blank) => p.protocol = "socks4"
    /\ p.protocol = "socks4" => p.password = Blank
    /\ IsLoopback(p.bind) \/ p.username # Blank \/ p.public
    /\ AsBool(p.mobile)

-----------------------------------------------------------------------------
(* The two selections.  A row may have no status, no flag and no cost.       *)

Listed(S, value) == S = {} \/ value \in S

(* apply_proxy_scope: here no status is none of those listed. *)
InScope(scope, r) == Listed(scope.statuses, r.status) /\ Listed(scope.protocols, r.protocol)

(* _candidate_query: no status counts as untested, credentials are a user name, *)
(* the cost does not matter.                                                    *)
Previewed(p, scope, r) ==
    /\ InScope(scope, r)
    /\ (IF r.status = Blank THEN "untested" ELSE r.status) \in Statuses(p)
    /\ p.web => r.web = TRUE
    /\ Listed(p.upstream, r.protocol) /\ Listed(p.country, r.country)
    /\ p.mobile # Blank => r.mobile = p.mobile
    /\ p.auth = "auth" => r.username # Blank
    /\ p.auth = "no_auth" => r.username = Blank

(* _match_csv, _match_flag. *)
MatchCsv(S, value) == S = {} \/ (value # Blank /\ value \in S)
MatchFlag(wanted, value) == wanted = Blank \/ (value # Blank /\ value = wanted)

(* _load_candidates_from_db. *)
Loaded(p, r) == r.protocol \in Scheme /\ r.status \in p.statuses

HasCredentials(r) == r.username # Blank \/ r.password # Blank

(* Seeded fault: the upstream protocols are left to the preview. *)
FilteredByStatus(p, r) == Loaded(p, r) /\ r.cost # Blank

(* fetch_candidates. *)
Filtered(p, r) ==
    /\ Loaded(p, r)
    /\ p.web => r.web = TRUE
    /\ p.auth = "auth" => HasCredentials(r)
    /\ p.auth = "no_auth" => ~HasCredentials(r)
    /\ p.upstream = {} \/ r.protocol \in p.upstream
    /\ MatchCsv(p.country, r.country) /\ MatchFlag(p.mobile, r.mobile)
    /\ r.cost # Blank /\ r.cost >= p.min_cost
    /\ p.cost_threshold # Blank => r.cost <= p.cost_threshold

(* _candidate_snapshot. *)
Snapshot(p, scope) == {r \in Rows : Previewed(p, scope, r)}

-----------------------------------------------------------------------------
(* A request that leaves no credentials. *)
Clears(data) == "clear_credentials" \in DOMAIN data \/ ("username" \in DOMAIN data /\ data.username = Space)

Saves(data) ==
    /\ Normalized(data, profile) # Refused
    /\ profile' = Normalized(data, profile)
    /\ cleared' = Clears(data) /\ warned' = FALSE

(* What create and update have in common; what they do to the file is in Registry. *)
Creates(data) == profile = Blank /\ Saves(data)
Updates(data) == profile # Blank /\ Saves(data)

(* The create command has a value for each of its options, the edit command *)
(* sends those it was given.                                                *)
Option == Field \ {"certfile", "keyfile", "mobile", "auth"}
OptionsOf(data) == [f \in Option \cup DOMAIN data |-> IF f \in DOMAIN data THEN data[f] ELSE Default[f]]
CreateCommand(data) == DOMAIN data \subseteq Option /\ Creates(OptionsOf(data))
EditCommand(data) == Updates([f \in {g \in DOMAIN data : data[g] # Blank} |-> data[f]])

(* A start saves what it started, with what the request changed. *)
Starts(data) == Saves(data)

Tells(p, scope) == p # Refused /\ warned' = (Snapshot(p, scope) = {}) /\ UNCHANGED <<profile, cleared>>

(* The preview of the dashboard, within what its user may see: of a request on *)
(* top of the saved profile, or of a profile that is not saved.                *)
Previews(data, scope) == \E old \in {profile, Blank} : Tells(Normalized(data, old), scope)

(* preview_server, and the command: of a profile that is not saved. *)
PreviewsNew(data) == Tells(Normalized(data, Blank), Everything)
PreviewCommand(data) == DOMAIN data \subseteq Option /\ PreviewsNew(OptionsOf(data))

(* get_server: of the saved profile. *)
Shows == profile # Blank /\ Tells(Normalized(profile, profile), Everything)

(* The page of the dashboard shows a profile that is no longer valid, too. *)
ShowsDetail(scope) ==
    profile # Blank /\ Tells(IF Normalized(profile, profile) = Refused THEN profile
                             ELSE Normalized(profile, profile), scope)

Deletes == profile # Blank /\ profile' = Blank /\ cleared' = FALSE /\ warned' = FALSE

ProfileNext ==
    \/ \E data \in Given : Creates(data) \/ CreateCommand(data) \/ Updates(data) \/ EditCommand(data)
                           \/ Starts(data) \/ PreviewsNew(data) \/ PreviewCommand(data)
                           \/ \E scope \in Scopes : Previews(data, scope)
    \/ Shows \/ Deletes \/ \E scope \in Scopes : ShowsDetail(scope)

ProfileSpec == ProfileInit /\ [][ProfileNext]_profileVars

-----------------------------------------------------------------------------
(* Every profile that was saved can be started: both sets of rules were      *)
(* written on their own, and what the first lets pass the second must accept.*)
LauncherAccepts == profile # Blank => Parses(profile) /\ ValidArgs(profile)

(* A saved profile goes through the rules once more at every start, test and *)
(* look at it, as a request on top of itself: it comes out as it went in.    *)
RereadsAsItIs == profile # Blank => Normalized(profile, profile) = profile

(* Of what a user may see, the server draws from what that user's preview    *)
(* counted, less what its cost limits and the lack of a recorded status or   *)
(* cost leave out.  A user who may not see all is shown less than the server *)
(* draws from.  Left apart: records with a password and no user name under a *)
(* filter of credentials.                                                    *)
ServesWhatWasShown ==
    profile # Blank => \A r \in Rows, scope \in Scopes :
        ~(r.username = Blank /\ r.password # Blank /\ profile.auth # Blank) =>
            (Filtered(profile, r) /\ InScope(scope, r) <=>
                /\ Previewed(profile, scope, r) /\ r.status # Blank
                /\ r.cost # Blank /\ r.cost >= profile.min_cost
                /\ profile.cost_threshold = Blank \/ profile.cost_threshold >= r.cost)

(* A listener that asks for credentials goes on asking, whatever else of its *)
(* profile is changed, until it is deleted, or a request says to clear them  *)
(* or gives a user name of nothing but spaces.                               *)
StaysProtected ==
    [][profile # Blank /\ profile' # Blank /\ profile.username # Blank =>
          profile'.username # Blank \/ cleared']_profileVars

(* What may be saved can be read again and started. *)
ServerStartsAsSaved == ProfileTypeOK /\ RereadsAsItIs /\ LauncherAccepts
=============================================================================
