---------------------------- MODULE Profiles_proofs ----------------------------
(* Proofs about the profiles of proxy servers and of monitors, and about the *)
(* public feed.                                                              *)
EXTENDS Profiles, PublicFeed, FiniteSetTheorems, TLAPS

-----------------------------------------------------------------------------
(* Profiles of proxy servers.                                                *)

(* A saved profile is one of the shape and under the rules that the next request *)
(* is merged with.                                                               *)
Ruled(p) ==
    /\ p = [f \in Field |-> p[f]]
    /\ WellFormed(p) /\ p.statuses # {} /\ Blank \notin p.country
    /\ \A f \in Text : p[f] # Space
    /\ CredentialsFit(p) /\ CertificateFits(p) /\ CostFits(p) /\ MayBeReached(p)

ProfileInv ==
    /\ {cleared, warned} \subseteq BOOLEAN
    /\ profile # Blank => Ruled(profile)

(* What a request may say, in whatever way it is sent. *)
ListsTexts(data) == "country" \in DOMAIN data => Blank \notin data.country

LEMMA FieldNames ==
    /\ \A f \in {"protocol", "bind", "username", "password", "public", "certfile", "keyfile",
                 "min_cost", "cost_threshold", "threads", "statuses", "upstream", "web",
                 "mobile", "country", "auth"} : f \in Field
    /\ "clear_credentials" \notin Field
BY DEF Field

(* The rules let through what is under them. *)
LEMMA NormalizedIsRuled ==
    ASSUME NEW data, NEW old, ListsTexts(data), old # Blank => Ruled(old),
           Normalized(data, old) # Refused
    PROVE  Ruled(Normalized(data, old))
<1> DEFINE m == Merged(data, old)
           a == [m EXCEPT !.statuses = Statuses(m)]
           b == [a EXCEPT !.username = Credential(data, old, m, "username")]
           p == [b EXCEPT !.password = Credential(data, old, m, "password")]
<1>1. /\ Normalized(data, old) = p
      /\ WellFormed(m) /\ CredentialsFit(p) /\ CertificateFits(p) /\ CostFits(p) /\ MayBeReached(p)
  BY DEF Normalized
<1>2. m = [f \in Field |-> m[f]] /\ Blank \notin m.country
  <2>1. m = [f \in Field |-> m[f]]
    BY DEF Merged
  <2>2. m.country = IF "country" \in DOMAIN data THEN data.country
                    ELSE IF old # Blank THEN old.country ELSE {}
    BY FieldNames DEF Merged, Default, Stripped, Text
  <2> QED BY <2>1, <2>2 DEF ListsTexts, Ruled
<1>3. /\ p = [f \in Field |-> p[f]]
      /\ p.statuses = Statuses(m)
      /\ p.username = Credential(data, old, m, "username")
      /\ p.password = Credential(data, old, m, "password")
      /\ \A f \in Field \ {"statuses", "username", "password"} : p[f] = m[f]
  <2> HIDE DEF m
  <2>1. /\ a = [f \in Field |-> a[f]] /\ a.statuses = Statuses(m)
        /\ \A f \in Field \ {"statuses"} : a[f] = m[f]
    BY <1>2, FieldNames
  <2> HIDE DEF a
  <2>2. /\ b = [f \in Field |-> b[f]]
        /\ b.username = Credential(data, old, m, "username")
        /\ \A f \in Field \ {"username"} : b[f] = a[f]
    BY <2>1, FieldNames
  <2> HIDE DEF b
  <2>3. /\ p = [f \in Field |-> p[f]]
        /\ p.password = Credential(data, old, m, "password")
        /\ \A f \in Field \ {"password"} : p[f] = b[f]
    BY <2>2, FieldNames
  <2> HIDE DEF p
  <2> QED BY <2>1, <2>2, <2>3, FieldNames
<1> HIDE DEF m, p
<1>4. ASSUME NEW f \in Text PROVE p[f] # Space
  <2>1. f \in Field /\ f # "statuses" /\ Default[f] # Space
    BY ProfileAssumption DEF Text, Field, Default
  <2>2. m[f] # Space
    BY <2>1, ProfileAssumption DEF m, Merged, Stripped, Ruled
  <2>3. f \in {"username", "password"} => p[f] = Credential(data, old, m, f)
    BY <1>3
  <2>4. Credential(data, old, m, f) # Space
    BY <2>2, ProfileAssumption DEF Credential, Ruled
  <2> QED BY <1>3, <2>1, <2>2, <2>3, <2>4
<1>5. Statuses(m) # {} /\ Statuses(m) \subseteq Status
  BY <1>1 DEF Statuses, WellFormed, Status
<1>6. WellFormed(p)
  BY <1>1, <1>3, <1>5, FieldNames DEF WellFormed
<1> QED BY <1>1, <1>2, <1>3, <1>4, <1>5, <1>6, FieldNames DEF Ruled

(* A request that is saved keeps the invariant, and the credentials. *)
LEMMA SavesKeeps ==
    ASSUME ProfileInv, NEW data, ListsTexts(data), Saves(data)
    PROVE  ProfileInv'
<1>1. Ruled(Normalized(data, profile))
  BY NormalizedIsRuled DEF ProfileInv, Saves
<1>2. Ruled(profile')
  BY <1>1 DEF Saves
<1>3. cleared' \in BOOLEAN /\ warned' \in BOOLEAN
  <2>1. cleared' = Clears(data) /\ warned' = FALSE
    BY DEF Saves
  <2>2. Clears(data) \in BOOLEAN
    BY DEF Clears
  <2> QED BY <2>1, <2>2
<1> QED BY <1>2, <1>3 DEF ProfileInv

LEMMA TellsKeeps ==
    ASSUME ProfileInv, NEW p, NEW scope, Tells(p, scope)
    PROVE  ProfileInv'
BY DEF ProfileInv, Tells

(* The three ways a request is sent. *)
LEMMA RequestsList ==
    ASSUME NEW data \in Given
    PROVE  /\ ListsTexts(data) /\ ListsTexts(OptionsOf(data))
           /\ ListsTexts([f \in {g \in DOMAIN data : data[g] # Blank} |-> data[f]])
<1>1. ListsTexts(data)
  BY ProfileAssumption DEF ListsTexts
<1>2. "country" \in Option /\ Default.country = {}
  BY DEF Option, Default, Field
<1>3. ListsTexts(OptionsOf(data))
  BY <1>1, <1>2 DEF ListsTexts, OptionsOf
<1>4. ListsTexts([f \in {g \in DOMAIN data : data[g] # Blank} |-> data[f]])
  BY <1>1 DEF ListsTexts
<1> QED BY <1>1, <1>3, <1>4

LEMMA ProfileInvInductive ==
    /\ ProfileInit => ProfileInv
    /\ ProfileInv /\ [ProfileNext]_profileVars => ProfileInv'
<1>1. ProfileInit => ProfileInv
  BY DEF ProfileInit, ProfileInv
<1>2. ASSUME ProfileInv, [ProfileNext]_profileVars PROVE ProfileInv'
  <2>1. ASSUME NEW data \in Given,
               \/ Creates(data) \/ CreateCommand(data) \/ Updates(data) \/ EditCommand(data)
               \/ Starts(data)
        PROVE  ProfileInv'
    <3>1. CASE Creates(data) \/ Updates(data) \/ Starts(data)
      BY <1>2, <3>1, SavesKeeps, RequestsList DEF Creates, Updates, Starts
    <3>2. CASE CreateCommand(data)
      BY <1>2, <3>2, SavesKeeps, RequestsList DEF CreateCommand, Creates
    <3>3. CASE EditCommand(data)
      BY <1>2, <3>3, SavesKeeps, RequestsList DEF EditCommand, Updates
    <3> QED BY <2>1, <3>1, <3>2, <3>3
  <2>2. ASSUME NEW data \in Given,
               PreviewsNew(data) \/ PreviewCommand(data) \/ \E scope \in Scopes : Previews(data, scope)
        PROVE  ProfileInv'
    BY <1>2, <2>2, TellsKeeps DEF Previews, PreviewsNew, PreviewCommand
  <2>3. CASE Shows \/ \E scope \in Scopes : ShowsDetail(scope)
    BY <1>2, <2>3, TellsKeeps DEF Shows, ShowsDetail
  <2>4. CASE Deletes
    BY <2>4 DEF Deletes, ProfileInv
  <2>5. CASE UNCHANGED profileVars
    BY <1>2, <2>5 DEF profileVars, ProfileInv
  <2> QED BY <1>2, <2>1, <2>2, <2>3, <2>4, <2>5 DEF ProfileNext
<1> QED BY <1>1, <1>2

(* What is under the rules comes out of them as it went in, with its texts as *)
(* they have been stripped.                                                   *)
LEMMA RuledRereads ==
    ASSUME NEW p, Ruled(p), p # Blank
    PROVE  Normalized(p, p) = p
<1>1. DOMAIN p = Field /\ p = [f \in Field |-> p[f]]
  BY DEF Ruled
<1>2. Merged(p, p) = p
  <2>1. \A f \in Field : Stripped(f, p[f]) = p[f]
    BY DEF Ruled, Stripped
  <2> QED BY <1>1, <2>1 DEF Merged
<1>3. Statuses(p) = p.statuses
  BY DEF Ruled, Statuses
<1>4. Credential(p, p, p, "username") = p.username /\ Credential(p, p, p, "password") = p.password
  BY <1>1, FieldNames DEF Credential
<1>5. [p EXCEPT !.statuses = p.statuses, !.username = p.username, !.password = p.password] = p
  <2> DEFINE a == [p EXCEPT !.statuses = p.statuses]
             b == [a EXCEPT !.username = p.username]
             c == [b EXCEPT !.password = p.password]
  <2>1. a = p
    BY <1>1, FieldNames
  <2>2. b = p
    <3> HIDE DEF a
    <3> QED BY <1>1, <2>1, FieldNames
  <2>3. c = p
    <3> HIDE DEF b
    <3> QED BY <1>1, <2>2, FieldNames
  <2> QED BY <2>3
<1> QED BY <1>2, <1>3, <1>4, <1>5 DEF Normalized, Ruled

(* What is under the rules is accepted by the server's own. *)
LEMMA RuledStarts ==
    ASSUME NEW p, Ruled(p)
    PROVE  Parses(p) /\ ValidArgs(p)
BY DEF Ruled, Parses, ValidArgs, WellFormed, CredentialsFit, CertificateFits, CostFits, MayBeReached,
       AsBool, IsBoolean, IsLoopback, IsLocalBind

LEMMA ServerInvStarts == ProfileInv => ServerStartsAsSaved
<1> SUFFICES ASSUME ProfileInv PROVE ServerStartsAsSaved
  OBVIOUS
<1>1. ProfileTypeOK
  BY DEF ProfileInv, ProfileTypeOK, Ruled
<1>2. RereadsAsItIs
  BY RuledRereads DEF ProfileInv, RereadsAsItIs
<1>3. LauncherAccepts
  BY RuledStarts DEF ProfileInv, LauncherAccepts
<1> QED BY <1>1, <1>2, <1>3 DEF ServerStartsAsSaved

LEMMA ServerInvShows == ProfileInv => ServesWhatWasShown
<1> SUFFICES ASSUME ProfileInv, profile # Blank, NEW r \in Rows,
                    NEW scope \in Scopes,
                    ~(r.username = Blank /\ r.password # Blank /\ profile.auth # Blank)
             PROVE  Filtered(profile, r) /\ InScope(scope, r) <=>
                      /\ Previewed(profile, scope, r) /\ r.status # Blank
                      /\ r.cost # Blank /\ r.cost >= profile.min_cost
                      /\ profile.cost_threshold = Blank \/ profile.cost_threshold >= r.cost
  BY DEF ServesWhatWasShown
<1>1. Ruled(profile)
  BY DEF ProfileInv
<1>2. Blank \notin Status /\ Blank # "auth" /\ Blank # "no_auth" /\ r.protocol \in Scheme
  BY ProfileAssumption
<1>3. Statuses(profile) = profile.statuses /\ Blank \notin profile.statuses
  BY <1>1, <1>2 DEF Ruled, WellFormed, Statuses
<1>4. Loaded(profile, r) <=>
         (IF r.status = Blank THEN "untested" ELSE r.status) \in Statuses(profile) /\ r.status # Blank
  BY <1>2, <1>3 DEF Loaded
<1>5. /\ MatchCsv(profile.country, r.country) <=> Listed(profile.country, r.country)
      /\ MatchFlag(profile.mobile, r.mobile) <=> (profile.mobile # Blank => r.mobile = profile.mobile)
      /\ (profile.upstream = {} \/ r.protocol \in profile.upstream) <=> Listed(profile.upstream, r.protocol)
  BY <1>1 DEF MatchCsv, MatchFlag, Listed, Ruled
<1>6. /\ (profile.auth = "auth" => HasCredentials(r)) <=> (profile.auth = "auth" => r.username # Blank)
      /\ (profile.auth = "no_auth" => ~HasCredentials(r)) <=> (profile.auth = "no_auth" => r.username = Blank)
  BY <1>2 DEF HasCredentials
<1>7. (profile.cost_threshold # Blank => r.cost <= profile.cost_threshold) <=>
         (profile.cost_threshold = Blank \/ profile.cost_threshold >= r.cost)
  OBVIOUS
<1> QED BY <1>4, <1>5, <1>6, <1>7 DEF Filtered, Previewed

(* What a request makes of the credentials of a saved profile. *)
LEMMA CredentialsStay ==
    ASSUME NEW data, NEW old, old # Blank, old.username # Blank,
           ~Clears(data), Normalized(data, old) # Refused
    PROVE  Normalized(data, old).username # Blank
<1> DEFINE m == Merged(data, old)
           a == [m EXCEPT !.statuses = Statuses(m)]
           b == [a EXCEPT !.username = Credential(data, old, m, "username")]
           p == [b EXCEPT !.password = Credential(data, old, m, "password")]
<1>1. Normalized(data, old) = p
  BY DEF Normalized
<1>2. m = [f \in Field |-> m[f]]
  BY DEF Merged
<1>3. p.username = Credential(data, old, m, "username")
  <2> HIDE DEF m
  <2>1. a = [f \in Field |-> a[f]]
    BY <1>2, FieldNames
  <2> HIDE DEF a
  <2>2. b = [f \in Field |-> b[f]] /\ b.username = Credential(data, old, m, "username")
    BY <2>1, FieldNames
  <2> HIDE DEF b
  <2> QED BY <2>2, FieldNames
<1>4. "username" \in DOMAIN data => m.username = data.username
  BY FieldNames DEF Merged, Stripped, Clears
<1> QED BY <1>1, <1>3, <1>4 DEF Credential, Says, Clears

(* The invariant of the profile is one of the specification. *)
LEMMA ProfileInvHolds == ProfileSpec => []ProfileInv
BY ProfileInvInductive, PTL DEF ProfileSpec

(* A listener that asks for credentials goes on asking, whatever else of its *)
(* profile is changed, until it is deleted, or a request says to clear them  *)
(* or gives a user name of nothing but spaces: an update, an edit and a      *)
(* start all merge with what is saved.                                       *)
THEOREM ProtectionStays == ProfileSpec => StaysProtected
<1>1. ASSUME [ProfileNext]_profileVars
      PROVE  [profile # Blank /\ profile' # Blank /\ profile.username # Blank =>
                profile'.username # Blank \/ cleared']_profileVars
  <2> SUFFICES ASSUME profile # Blank, profile' # Blank, profile.username # Blank
               PROVE  profile'.username # Blank \/ cleared' \/ UNCHANGED profileVars
    OBVIOUS
  <2>1. ASSUME NEW data, Saves(data) PROVE profile'.username # Blank \/ cleared'
    <3>1. CASE Clears(data)
      BY <2>1, <3>1 DEF Saves
    <3>2. CASE ~Clears(data)
      <4>1. Normalized(data, profile).username # Blank
        BY <2>1, <3>2, CredentialsStay DEF Saves
      <4> QED BY <2>1, <4>1 DEF Saves
    <3> QED BY <3>1, <3>2
  <2>2. ASSUME NEW data \in Given,
               \/ Creates(data) \/ CreateCommand(data) \/ Updates(data) \/ EditCommand(data)
               \/ Starts(data)
        PROVE  profile'.username # Blank \/ cleared'
    BY <2>1, <2>2 DEF Creates, CreateCommand, Updates, EditCommand, Starts
  <2>3. ASSUME NEW p, NEW scope, Tells(p, scope) PROVE profile' = profile
    BY <2>3 DEF Tells
  <2>4. CASE \/ \E data \in Given : \/ PreviewsNew(data) \/ PreviewCommand(data)
                                  \/ \E scope \in Scopes : Previews(data, scope)
             \/ Shows \/ \E scope \in Scopes : ShowsDetail(scope)
    BY <2>3, <2>4 DEF Previews, PreviewsNew, PreviewCommand, Shows, ShowsDetail
  <2>5. CASE Deletes
    BY <2>5 DEF Deletes
  <2> QED BY <1>1, <2>2, <2>4, <2>5 DEF ProfileNext
<1> QED BY <1>1, PTL DEF ProfileSpec, StaysProtected

-----------------------------------------------------------------------------
(* Profiles of monitors.                                                     *)

LEMMA EntryNames ==
    \A f \in {"name", "protocol", "status", "urls", "threads", "run_mode",
              "schedule_time", "schedule_days", "geo", "create_service"} : f \in Entry
BY DEF Entry

(* What the rules let through is a profile. *)
LEMMA NormalIsProfile ==
    ASSUME NEW data, NEW old, NormalProfile(data, old) # Invalid
    PROVE  NormalProfile(data, old) \in Profile
<1> DEFINE t == [f \in Entry |-> Taken(data, old, f)]
           p == [t EXCEPT !.schedule_time =
                    IF t.run_mode = "schedule" /\ @ = Empty THEN "midnight" ELSE @]
<1>1. NormalProfile(data, old) = p /\ Allowed(p)
  BY DEF NormalProfile
<1>2. p = [f \in Entry |-> p[f]]
  <2>1. t = [f \in Entry |-> t[f]]
    OBVIOUS
  <2> HIDE DEF t
  <2> QED BY <2>1, EntryNames
<1> HIDE DEF t, p
<1>3. p = [name |-> p.name, protocol |-> p.protocol, status |-> p.status, urls |-> p.urls,
           threads |-> p.threads, run_mode |-> p.run_mode, schedule_time |-> p.schedule_time,
           schedule_days |-> p.schedule_days, geo |-> p.geo, create_service |-> p.create_service]
  BY <1>2 DEF Entry
<1>4. p \in Profile
  <2>1. /\ p.name \in Name /\ p.protocol \in SUBSET MonitorProtocol /\ p.status \in SUBSET MonitorStatus
        /\ p.urls \in Url \cup {Empty} /\ p.threads \in 1..200 /\ p.run_mode \in RunMode
        /\ p.schedule_time \in Time \cup {Empty} /\ p.schedule_days \in (SUBSET Day) \ {{}}
        /\ p.geo \in {"true", "false"} /\ p.create_service \in {"yes", "no"}
    <3>1. /\ p.protocol \in SUBSET MonitorProtocol /\ p.status \in SUBSET MonitorStatus
          /\ p.urls \in Url \cup {Empty}
      BY <1>1 DEF Allowed, CheckUrls
    <3>2. p.schedule_days \in (SUBSET Day) \ {{}}
      BY <1>1 DEF Allowed, ScheduleDays
    <3>3. /\ p.name \in Name /\ p.threads \in 1..200 /\ p.run_mode \in RunMode
          /\ p.schedule_time \in Time \cup {Empty}
          /\ p.geo \in {"true", "false"} /\ p.create_service \in {"yes", "no"}
      BY <1>1 DEF Allowed, Bounded
    <3> QED BY <3>1, <3>2, <3>3
  <2> QED BY <1>3, <2>1 DEF Profile
<1> QED BY <1>1, <1>4

(* The fields of a profile, and what none of them is. *)
LEMMA ProfileFields ==
    ASSUME NEW p \in Profile
    PROVE  /\ p = [f \in Entry |-> p[f]] /\ p.name \in Name
           /\ p.protocol \subseteq MonitorProtocol /\ p.status \subseteq MonitorStatus
           /\ p.threads \in 1..200 /\ p.run_mode \in RunMode
           /\ p.schedule_time \in Time \cup {Empty} /\ p.geo \in {"true", "false"}
           /\ p.urls \in Url \cup {Empty}
           /\ \A f \in Entry \ {"urls", "schedule_time"} : f = "create_service" \/ p[f] # Empty
<1>1. /\ p.name \in Name
      /\ p.protocol \in SUBSET MonitorProtocol /\ p.status \in SUBSET MonitorStatus
      /\ p.threads \in 1..200 /\ p.run_mode \in RunMode
      /\ p.schedule_time \in Time \cup {Empty} /\ p.geo \in {"true", "false"}
      /\ p.urls \in Url \cup {Empty} /\ p.schedule_days \in SUBSET Day
  BY DEF Profile
<1>2. p = [f \in Entry |-> p[f]]
  BY DEF Profile, Entry
<1>3. /\ p.name # Empty /\ p.run_mode # Empty /\ p.geo # Empty /\ p.threads # Empty
      /\ p.protocol # Empty /\ p.status # Empty /\ p.schedule_days # Empty
  <2>1. p.name # Empty /\ p.run_mode # Empty /\ p.geo # Empty
    BY <1>1, MonitorAssumption
  <2>2. p.threads # Empty
    BY <1>1, MonitorAssumption
  <2>3. p.protocol # Empty /\ p.status # Empty /\ p.schedule_days # Empty
    BY <1>1, MonitorAssumption
  <2> QED BY <2>1, <2>2, <2>3
<1> QED BY <1>1, <1>2, <1>3 DEF Entry

(* What systemd hands on as it is written is what was written. *)
LEMMA HandedAsWritten ==
    ASSUME NEW p, ReadAsWritten(p)
    PROVE  Handed(p) = BuildArgs(p)
<1> DEFINE args == BuildArgs(p)
<1>1. \A f \in DOMAIN args : args[f] = p[f] /\ p[f] # Empty
  BY DEF BuildArgs
<1>2. args = [f \in DOMAIN args |-> args[f]]
  BY DEF BuildArgs
<1> HIDE DEF args
<1>3. CASE InUnit(p)
  <2>1. \A f \in DOMAIN args : f \in {"name", "urls"} => UnitReads[args[f]] = args[f]
    BY <1>1, <1>3 DEF ReadAsWritten
  <2>2. [f \in DOMAIN args |-> IF f \in {"name", "urls"} THEN UnitReads[args[f]] ELSE args[f]]
          = [f \in DOMAIN args |-> args[f]]
    BY <2>1
  <2> QED BY <1>2, <1>3, <2>2 DEF Handed, args
<1>4. CASE ~InUnit(p)
  BY <1>4 DEF Handed, args
<1> QED BY <1>3, <1>4

(* The command line says what the profile says, unless its name is taken for an *)
(* option.                                                                      *)
LEMMA CommandLineSays ==
    ASSUME NEW p \in Profile, p.name \notin Dashed
    PROVE  ParseArgs(BuildArgs(p)) = [f \in Flag |-> p[f]]
<1> DEFINE args == BuildArgs(p)
<1>1. \A f \in Flag : ValueOf(args, f, Usual[f]) = p[f]
  <2> SUFFICES ASSUME NEW f \in Flag PROVE ValueOf(args, f, Usual[f]) = p[f]
    OBVIOUS
  <2>1. CASE p[f] = Empty
    <3>1. f \in {"urls", "schedule_time"}
      BY <2>1, ProfileFields DEF Flag
    <3>2. Usual[f] = Empty
      BY <3>1, EntryNames DEF Usual
    <3> QED BY <2>1, <3>2 DEF ValueOf, BuildArgs
  <2>2. CASE p[f] # Empty /\ f \in {"protocol", "status"} /\ p[f] = {}
    <3>1. Usual[f] = {}
      BY <2>2, EntryNames DEF Usual
    <3> QED BY <2>2, <3>1 DEF ValueOf, BuildArgs
  <2>3. CASE p[f] # Empty /\ (f \in {"protocol", "status"} => p[f] # {})
    BY <2>3 DEF ValueOf, BuildArgs
  <2> QED BY <2>1, <2>2, <2>3
<1>2. /\ {"name", "threads", "run_mode", "schedule_time", "geo"} \subseteq Flag
      /\ Usual["name"] = Empty /\ Usual["threads"] = 50 /\ Usual["run_mode"] = "once"
      /\ Usual["schedule_time"] = Empty /\ Usual["geo"] = "true"
  BY DEF Flag, Entry, Usual
<1>3. /\ ValueOf(args, "name", Empty) = p.name /\ ValueOf(args, "threads", 50) = p.threads
      /\ ValueOf(args, "run_mode", "once") = p.run_mode
      /\ ValueOf(args, "schedule_time", Empty) = p.schedule_time
      /\ ValueOf(args, "geo", "true") = p.geo
  <2> HIDE DEF args
  <2> QED BY <1>1, <1>2
<1>4. [f \in Flag |-> ValueOf(args, f, Usual[f])] = [f \in Flag |-> p[f]]
  BY <1>1
<1> HIDE DEF args
<1>5. ParseArgs(args) = IF p.name \notin Dashed THEN [f \in Flag |-> p[f]] ELSE Invalid
  BY <1>3, <1>4, ProfileFields DEF ParseArgs, Bounded
<1> QED BY <1>5 DEF args

Running == [profile : Profile, unit : BOOLEAN]
Request == [kind : {"update", "start"}, id : Id, profile : Profile]

(* Every record is where its name says. *)
RecordsOK ==
    /\ records \in [Id -> Record \cup {Empty}]
    /\ \A i \in Known : IdOf(records[i].profile) = i

RequestsOK == request \in [Caller -> Request \cup {Empty}]

RunningOK == running \in [Id -> Running \cup {Empty}]

UnitsOK == paused \subseteq Id /\ units \in [Id -> Profile \cup {Empty}]

MonitorInv == RecordsOK /\ RequestsOK /\ RunningOK /\ UnitsOK

LEMMA IdsOfProfiles == ASSUME NEW p \in Profile PROVE IdOf(p) \in Id
BY ProfileFields DEF IdOf, Id

LEMMA RecordFields ==
    ASSUME RecordsOK, NEW i \in Known
    PROVE  /\ i \in Id /\ records[i] \in Record
           /\ records[i].profile \in Profile /\ records[i].service \in Id \cup {Empty}
           /\ records[i] = [profile |-> records[i].profile, service |-> records[i].service]
           /\ IdOf(records[i].profile) = i
<1>1. i \in Id /\ records[i] \in Record
  BY DEF RecordsOK, Known
<1>2. /\ records[i].profile \in Profile /\ records[i].service \in Id \cup {Empty}
      /\ records[i] = [profile |-> records[i].profile, service |-> records[i].service]
  BY <1>1 DEF Record
<1> QED BY <1>1, <1>2 DEF RecordsOK

LEMMA RequestFields ==
    ASSUME RequestsOK, NEW u \in Caller, request[u] # Empty
    PROVE  request[u].id \in Id /\ request[u].profile \in Profile
<1>1. request[u] \in Request
  BY DEF RequestsOK
<1> QED BY <1>1 DEF Request, RequestsOK

(* A record that is put in place. *)
LEMMA RecordPut ==
    ASSUME RecordsOK, NEW j \in Id, NEW p \in Profile, IdOf(p) = j,
           NEW v \in Id \cup {Empty},
           records' = [records EXCEPT ![j] = [profile |-> p, service |-> v]]
    PROVE  RecordsOK' /\ Known' = Known \cup {j}
<1>1. [profile |-> p, service |-> v] \in Record
  BY DEF Record
<1>2. /\ records' \in [Id -> Record \cup {Empty}]
      /\ records'[j] = [profile |-> p, service |-> v]
      /\ \A i \in Id \ {j} : records'[i] = records[i]
  BY <1>1 DEF RecordsOK
<1>3. records'[j] # Empty /\ records'[j].profile = p
  BY <1>1, <1>2, MonitorAssumption
<1>4. Known' = Known \cup {j}
  BY <1>2, <1>3 DEF Known
<1>5. ASSUME NEW i \in Known' PROVE IdOf(records'[i].profile) = i
  <2>1. CASE i = j
    BY <1>3, <2>1
  <2>2. CASE i # j
    <3>1. i \in Known /\ records'[i] = records[i]
      BY <1>2, <1>4, <1>5, <2>2 DEF Known
    <3> QED BY <3>1 DEF RecordsOK
  <2> QED BY <2>1, <2>2
<1> QED BY <1>2, <1>4, <1>5 DEF RecordsOK, IdOf

(* A field of a record that is changed is a record that is put in its place. *)
LEMMA RecordChanged ==
    ASSUME RecordsOK, NEW i \in Known, NEW x
    PROVE  /\ [records EXCEPT ![i].profile = x] =
                [records EXCEPT ![i] = [profile |-> x, service |-> records[i].service]]
           /\ [records EXCEPT ![i].service = x] =
                [records EXCEPT ![i] = [profile |-> records[i].profile, service |-> x]]
           /\ [records[i] EXCEPT !.profile = x] = [profile |-> x, service |-> records[i].service]
<1> DEFINE r == records[i]
<1>1. r = [profile |-> r.profile, service |-> r.service]
  BY RecordFields
<1> HIDE DEF r
<1>2. /\ [r EXCEPT !.profile = x] = [profile |-> x, service |-> r.service]
      /\ [r EXCEPT !.service = x] = [profile |-> r.profile, service |-> x]
  BY <1>1
<1> QED BY <1>2 DEF r

(* A record that is taken away. *)
LEMMA RecordTaken ==
    ASSUME RecordsOK, NEW i \in Id, records' = [records EXCEPT ![i] = Empty]
    PROVE  RecordsOK' /\ Known' = Known \ {i}
<1>1. /\ records' \in [Id -> Record \cup {Empty}] /\ records'[i] = Empty
      /\ \A k \in Id \ {i} : records'[k] = records[k]
  BY DEF RecordsOK
<1>2. Known' = Known \ {i}
  BY <1>1 DEF Known
<1>3. ASSUME NEW k \in Known' PROVE IdOf(records'[k].profile) = k
  <2>1. k \in Known /\ records'[k] = records[k]
    BY <1>1, <1>2, <1>3 DEF Known
  <2> QED BY <2>1 DEF RecordsOK
<1> QED BY <1>1, <1>2, <1>3 DEF RecordsOK, IdOf

(* A record that gets another id, which is free. *)
LEMMA RecordMoved ==
    ASSUME RecordsOK, NEW i \in Known, NEW j \in Id \ Known,
           NEW p \in Profile, IdOf(p) = j, NEW v \in Id \cup {Empty},
           records' = [records EXCEPT ![i] = Empty, ![j] = [profile |-> p, service |-> v]]
    PROVE  RecordsOK' /\ Known' = (Known \ {i}) \cup {j}
<1>1. [profile |-> p, service |-> v] \in Record
  BY DEF Record
<1>2. i \in Id /\ i # j
  BY DEF Known
<1>3. /\ records' \in [Id -> Record \cup {Empty}]
      /\ records'[j] = [profile |-> p, service |-> v] /\ records'[i] = Empty
      /\ \A k \in Id \ {i, j} : records'[k] = records[k]
  BY <1>1, <1>2 DEF RecordsOK
<1>4. records'[j] # Empty /\ records'[j].profile = p
  BY <1>1, <1>3, MonitorAssumption
<1>5. Known' = (Known \ {i}) \cup {j}
  BY <1>2, <1>3, <1>4 DEF Known
<1>6. ASSUME NEW k \in Known' PROVE IdOf(records'[k].profile) = k
  <2>1. CASE k = j
    BY <1>4, <2>1
  <2>2. CASE k # j
    <3>1. k \in Known /\ records'[k] = records[k]
      BY <1>3, <1>5, <1>6, <2>2 DEF Known
    <3> QED BY <3>1 DEF RecordsOK
  <2> QED BY <2>1, <2>2
<1> QED BY <1>3, <1>5, <1>6 DEF RecordsOK, IdOf

LEMMA RecordsStay == ASSUME RecordsOK, records' = records PROVE RecordsOK' /\ Known' = Known
BY DEF RecordsOK, Known, IdOf

(* A request that has looked up what it carries, and one that is over. *)
LEMMA RequestMade ==
    ASSUME RequestsOK, NEW u \in Caller, NEW k \in {"update", "start"}, NEW i \in Id,
           NEW p \in Profile,
           request' = [request EXCEPT ![u] = [kind |-> k, id |-> i, profile |-> p]]
    PROVE  RequestsOK'
<1>1. [kind |-> k, id |-> i, profile |-> p] \in Request
  BY DEF Request
<1>2. /\ request' \in [Caller -> Request \cup {Empty}]
      /\ request'[u].profile = p /\ \A w \in Caller \ {u} : request'[w] = request[w]
  BY <1>1 DEF RequestsOK
<1> QED BY <1>2 DEF RequestsOK

LEMMA RequestOver ==
    ASSUME RequestsOK, NEW u \in Caller, request' = [request EXCEPT ![u] = Empty]
    PROVE  RequestsOK'
BY DEF RequestsOK

LEMMA RequestsStay == ASSUME RequestsOK, request' = request PROVE RequestsOK'
BY DEF RequestsOK

(* A monitor that is started, and monitors that end. *)
LEMMA RunningStarts ==
    ASSUME RunningOK, NEW i \in Id, NEW p \in Profile, NEW b \in BOOLEAN,
           running' = [running EXCEPT ![i] = [profile |-> p, unit |-> b]]
    PROVE  RunningOK'
<1>1. [profile |-> p, unit |-> b] \in Running
  BY DEF Running
<1>2. /\ running' \in [Id -> Running \cup {Empty}]
      /\ running'[i].profile = p /\ \A k \in Id \ {i} : running'[k] = running[k]
  BY <1>1 DEF RunningOK
<1> QED BY <1>2 DEF RunningOK

LEMMA RunningEnds ==
    ASSUME RunningOK, NEW S \in SUBSET Id,
           running' = [i \in Id |-> IF i \in S THEN Empty ELSE running[i]]
    PROVE  RunningOK'
BY DEF RunningOK

LEMMA RunningStays == ASSUME RunningOK, running' = running PROVE RunningOK'
BY DEF RunningOK

LEMMA UnitsStay == ASSUME UnitsOK, paused' \subseteq paused, units' = units PROVE UnitsOK'
BY DEF UnitsOK

(* No record is lost: all are still there, or one has moved to an id that was free. *)
Kept ==
    \/ Known \subseteq Known'
    \/ \E i \in Known : \E j \in Id \ Known : Known' = (Known \ {i}) \cup {j}

LEMMA CreateKeeps ==
    ASSUME MonitorInv, NEW data, CreatesMonitor(data)
    PROVE  MonitorInv' /\ Kept
<1> DEFINE p == NormalProfile(data, Empty)
<1>1. /\ p # Invalid
      /\ records' = [records EXCEPT ![IdOf(p)] = [profile |-> p, service |-> Empty]]
      /\ UNCHANGED <<running, paused, units, request>>
  BY DEF CreatesMonitor
<1>2. p \in Profile
  BY <1>1, NormalIsProfile
<1> HIDE DEF p
<1>3. IdOf(p) \in Id
  BY <1>2, IdsOfProfiles
<1>4. RecordsOK' /\ Known' = Known \cup {IdOf(p)}
  BY <1>1, <1>2, <1>3, RecordPut DEF MonitorInv
<1> QED BY <1>1, <1>4, RequestsStay, RunningStays, UnitsStay DEF MonitorInv, Kept

LEMMA UpdateLooksKeeps ==
    ASSUME MonitorInv, NEW u \in Caller, NEW i \in Id, NEW data, UpdateLooks(u, i, data)
    PROVE  MonitorInv' /\ Kept
<1> DEFINE p == NormalProfile(data, records[i].profile)
<1>1. /\ p # Invalid
      /\ request' = [request EXCEPT ![u] = [kind |-> "update", id |-> i, profile |-> p]]
      /\ UNCHANGED <<records, running, paused, units>>
  BY DEF UpdateLooks
<1>2. p \in Profile
  BY <1>1, NormalIsProfile
<1> HIDE DEF p
<1>3. RequestsOK'
  BY <1>1, <1>2, RequestMade DEF MonitorInv
<1> QED BY <1>1, <1>3, RecordsStay, RunningStays, UnitsStay DEF MonitorInv, Kept

LEMMA UpdateSavesKeeps ==
    ASSUME MonitorInv, NEW u \in Caller, UpdateSaves(u)
    PROVE  MonitorInv' /\ Kept
<1> DEFINE i == request[u].id
           p == request[u].profile
<1>1. /\ request[u] # Empty /\ IdOf(p) = i
      /\ records' = IF i \in Known THEN [records EXCEPT ![i].profile = p] ELSE records
      /\ request' = [request EXCEPT ![u] = Empty]
      /\ UNCHANGED <<running, paused, units>>
  BY DEF UpdateSaves
<1>2. i \in Id /\ p \in Profile
  BY <1>1, RequestFields DEF MonitorInv
<1> HIDE DEF i, p
<1>3. RecordsOK' /\ Known \subseteq Known'
  <2>1. CASE i \in Known
    <3> DEFINE v == records[i].service
    <3>1. v \in Id \cup {Empty}
      BY <2>1, RecordFields DEF MonitorInv
    <3>2. records' = [records EXCEPT ![i] = [profile |-> p, service |-> v]]
      BY <1>1, <2>1, RecordChanged DEF MonitorInv
    <3> HIDE DEF v
    <3>3. RecordsOK' /\ Known' = Known \cup {i}
      BY <1>1, <1>2, <3>1, <3>2, RecordPut DEF MonitorInv
    <3> QED BY <3>3
  <2>2. CASE i \notin Known
    BY <1>1, <2>2, RecordsStay DEF MonitorInv
  <2> QED BY <2>1, <2>2
<1>4. RequestsOK'
  BY <1>1, RequestOver DEF MonitorInv
<1> QED BY <1>1, <1>3, <1>4, RunningStays, UnitsStay DEF MonitorInv, Kept

LEMMA UpdateRenamesKeeps ==
    ASSUME MonitorInv, NEW u \in Caller, UpdateRenames(u)
    PROVE  MonitorInv' /\ Kept
<1> DEFINE i == request[u].id
           p == request[u].profile
           j == IdOf(p)
<1>1. /\ request[u] # Empty
      /\ records' = IF i \in Known /\ j \notin Known
                    THEN [records EXCEPT ![i] = Empty, ![j] = [records[i] EXCEPT !.profile = p]]
                    ELSE records
      /\ request' = [request EXCEPT ![u] = Empty]
      /\ UNCHANGED <<running, paused, units>>
  BY DEF UpdateRenames
<1>2. i \in Id /\ p \in Profile
  BY <1>1, RequestFields DEF MonitorInv
<1> HIDE DEF i, p
<1>3. j \in Id /\ IdOf(p) = j
  BY <1>2, IdsOfProfiles
<1> HIDE DEF j
<1>4. RecordsOK' /\ Kept
  <2>1. CASE i \in Known /\ j \notin Known
    <3> DEFINE v == records[i].service
    <3>1. v \in Id \cup {Empty}
      BY <2>1, RecordFields DEF MonitorInv
    <3>2. [records[i] EXCEPT !.profile = p] = [profile |-> p, service |-> v]
      BY <2>1, RecordChanged DEF MonitorInv
    <3>3. records' = [records EXCEPT ![i] = Empty, ![j] = [profile |-> p, service |-> v]]
      BY <1>1, <2>1, <3>2
    <3> HIDE DEF v
    <3>4. RecordsOK' /\ Known' = (Known \ {i}) \cup {j}
      BY <1>2, <1>3, <2>1, <3>1, <3>3, RecordMoved DEF MonitorInv
    <3> QED BY <1>3, <2>1, <3>4 DEF Kept
  <2>2. CASE ~(i \in Known /\ j \notin Known)
    BY <1>1, <2>2, RecordsStay DEF MonitorInv, Kept
  <2> QED BY <2>1, <2>2
<1>5. RequestsOK'
  BY <1>1, RequestOver DEF MonitorInv
<1> QED BY <1>1, <1>4, <1>5, RunningStays, UnitsStay DEF MonitorInv

LEMMA StartLooksKeeps ==
    ASSUME MonitorInv, NEW u \in Caller, NEW i \in Id, StartLooks(u, i) \/ ResumeLooks(u, i)
    PROVE  MonitorInv' /\ Kept
<1> DEFINE p == records[i].profile
<1>1. /\ i \in Known /\ paused' \subseteq paused
      /\ request' = [request EXCEPT ![u] = [kind |-> "start", id |-> i, profile |-> p]]
      /\ UNCHANGED <<records, running, units>>
  BY DEF StartLooks, ResumeLooks
<1>2. p \in Profile
  BY <1>1, RecordFields DEF MonitorInv
<1> HIDE DEF p
<1>3. RequestsOK'
  BY <1>1, <1>2, RequestMade DEF MonitorInv
<1> QED BY <1>1, <1>3, RecordsStay, RunningStays, UnitsStay DEF MonitorInv, Kept

LEMMA UnitsWritten ==
    ASSUME UnitsOK, NEW i \in Id, NEW p \in Profile, units' = Written(i, p), paused' \subseteq paused
    PROVE  UnitsOK'
BY DEF UnitsOK, Written

LEMMA SpawnsKeeps ==
    ASSUME MonitorInv, NEW u \in Caller, Spawns(u)
    PROVE  MonitorInv' /\ Kept
<1> DEFINE i == request[u].id
           p == request[u].profile
           b == InUnit(p)
           s == IF b THEN i ELSE Empty
<1>1. /\ request[u] # Empty
      /\ units' = Written(i, p) /\ paused' \subseteq paused
      /\ running' = [running EXCEPT ![i] = [profile |-> p, unit |-> b]]
      /\ records' = IF i \in Known THEN [records EXCEPT ![i].service = s] ELSE records
      /\ request' = [request EXCEPT ![u] = Empty]
  BY DEF Spawns
<1>2. i \in Id /\ p \in Profile
  BY <1>1, RequestFields DEF MonitorInv
<1> HIDE DEF i, p
<1>3. b \in BOOLEAN /\ s \in Id \cup {Empty}
  BY <1>2 DEF InUnit
<1> HIDE DEF b, s
<1>4. RecordsOK' /\ Known \subseteq Known'
  <2>1. CASE i \in Known
    <3> DEFINE q == records[i].profile
    <3>1. q \in Profile /\ IdOf(q) = i
      BY <2>1, RecordFields DEF MonitorInv
    <3>2. records' = [records EXCEPT ![i] = [profile |-> q, service |-> s]]
      BY <1>1, <2>1, RecordChanged DEF MonitorInv
    <3> HIDE DEF q
    <3>3. RecordsOK' /\ Known' = Known \cup {i}
      BY <1>2, <1>3, <3>1, <3>2, RecordPut DEF MonitorInv
    <3> QED BY <3>3
  <2>2. CASE i \notin Known
    BY <1>1, <2>2, RecordsStay DEF MonitorInv
  <2> QED BY <2>1, <2>2
<1>5. RequestsOK'
  BY <1>1, RequestOver DEF MonitorInv
<1>6. RunningOK'
  BY <1>1, <1>2, <1>3, RunningStarts DEF MonitorInv
<1>7. UnitsOK'
  BY <1>1, <1>2, UnitsWritten DEF MonitorInv
<1> QED BY <1>4, <1>5, <1>6, <1>7 DEF MonitorInv, Kept

LEMMA SpawnFailsKeeps ==
    ASSUME MonitorInv, NEW u \in Caller, SpawnFails(u)
    PROVE  MonitorInv' /\ Kept
<1> DEFINE i == request[u].id
           p == request[u].profile
<1>1. /\ request[u] # Empty
      /\ units' = IF running[i] = Empty THEN Written(i, p) ELSE units
      /\ request' = [request EXCEPT ![u] = Empty]
      /\ UNCHANGED <<records, running, paused>>
  BY DEF SpawnFails
<1>2. i \in Id /\ p \in Profile
  BY <1>1, RequestFields DEF MonitorInv
<1> HIDE DEF i, p
<1>3. UnitsOK'
  BY <1>1, <1>2, UnitsWritten, UnitsStay DEF MonitorInv
<1>4. RequestsOK'
  BY <1>1, RequestOver DEF MonitorInv
<1> QED BY <1>1, <1>3, <1>4, RecordsStay, RunningStays DEF MonitorInv, Kept

LEMMA EndsKeeps ==
    ASSUME MonitorInv, NEW i \in Id, MonitorEnds(i)
    PROVE  MonitorInv' /\ Kept
<1>1. /\ running' = [running EXCEPT ![i] = Empty]
      /\ paused' \in {paused, paused \cup {i}} /\ UNCHANGED <<records, units, request>>
  BY DEF MonitorEnds
<1>2. running' = [k \in Id |-> IF k \in {i} THEN Empty ELSE running[k]]
  BY <1>1 DEF MonitorInv, RunningOK
<1>3. RunningOK'
  BY <1>2, RunningEnds DEF MonitorInv
<1>4. UnitsOK'
  BY <1>1 DEF MonitorInv, UnitsOK
<1> QED BY <1>1, <1>3, <1>4, RecordsStay, RequestsStay DEF MonitorInv, Kept

LEMMA RemovesServiceKeeps ==
    ASSUME MonitorInv, NEW i \in Id, RemovesService(i)
    PROVE  MonitorInv' /\ Kept
<1> DEFINE v == records[i].service
           p == records[i].profile
<1>1. /\ i \in Known /\ v # Empty
      /\ units' = [units EXCEPT ![v] = Empty] /\ running' = StoppedWith(v)
      /\ records' = [records EXCEPT ![i].service = Empty]
      /\ UNCHANGED <<paused, request>>
  BY DEF RemovesService
<1>2. v \in Id /\ p \in Profile /\ IdOf(p) = i
  BY <1>1, RecordFields DEF MonitorInv
<1>3. records' = [records EXCEPT ![i] = [profile |-> p, service |-> Empty]]
  BY <1>1, RecordChanged DEF MonitorInv
<1> HIDE DEF v, p
<1>4. RecordsOK' /\ Known' = Known \cup {i}
  BY <1>2, <1>3, RecordPut DEF MonitorInv
<1>5. RunningOK'
  <2>1. CASE running' = [running EXCEPT ![v] = Empty]
    <3>1. running' = [k \in Id |-> IF k \in {v} THEN Empty ELSE running[k]]
      BY <2>1 DEF MonitorInv, RunningOK
    <3> QED BY <1>2, <3>1, RunningEnds DEF MonitorInv
  <2>2. CASE running' = running
    BY <2>2, RunningStays DEF MonitorInv
  <2> QED BY <1>1, <2>1, <2>2 DEF StoppedWith
<1>6. UnitsOK'
  BY <1>1, <1>2 DEF MonitorInv, UnitsOK
<1> QED BY <1>1, <1>4, <1>5, <1>6, RequestsStay DEF MonitorInv, Kept

LEMMA DeletesKeeps ==
    ASSUME MonitorInv, NEW i \in Id, DeletesMonitor(i)
    PROVE  MonitorInv'
<1> DEFINE v == records[i].service
           first == IF v = Empty THEN running ELSE StoppedWith(v)
<1>1. /\ i \in Known
      /\ units' = IF v = Empty THEN units ELSE [units EXCEPT ![v] = Empty]
      /\ running' = [first EXCEPT ![i] = Empty]
      /\ records' = [records EXCEPT ![i] = Empty] /\ paused' = paused \ {i} /\ request' = request
  BY DEF DeletesMonitor
<1>2. v \in Id \cup {Empty}
  BY <1>1, RecordFields DEF MonitorInv
<1> HIDE DEF v
<1>3. RecordsOK'
  BY <1>1, RecordTaken DEF MonitorInv
<1>4. \E S \in SUBSET Id : running' = [k \in Id |-> IF k \in S THEN Empty ELSE running[k]]
  <2>1. CASE v # Empty /\ first = [running EXCEPT ![v] = Empty]
    <3>1. running' = [k \in Id |-> IF k \in {v, i} THEN Empty ELSE running[k]]
      <4> HIDE DEF first
      <4> QED BY <1>1, <2>1 DEF MonitorInv, RunningOK
    <3> QED BY <1>2, <2>1, <3>1
  <2>2. CASE first = running
    <3>1. running' = [k \in Id |-> IF k \in {i} THEN Empty ELSE running[k]]
      <4> HIDE DEF first
      <4> QED BY <1>1, <2>2 DEF MonitorInv, RunningOK
    <3> QED BY <3>1
  <2> QED BY <2>1, <2>2 DEF StoppedWith
<1>5. RunningOK'
  BY <1>4, RunningEnds DEF MonitorInv
<1>6. UnitsOK'
  BY <1>1, <1>2 DEF MonitorInv, UnitsOK
<1> QED BY <1>1, <1>3, <1>5, <1>6, RequestsStay DEF MonitorInv

(* One step of the specification, whichever it is. *)
LEMMA MonitorStepKeeps ==
    ASSUME MonitorInv, [MonitorNext]_monitorVars
    PROVE  MonitorInv' /\ (Kept \/ \E i \in Id : DeletesMonitor(i))
<1>1. ASSUME NEW data \in Wanted, CreatesMonitor(data) \/ CreateMonitorCommand(data)
      PROVE  MonitorInv' /\ Kept
  BY <1>1, CreateKeeps DEF CreateMonitorCommand
<1>2. ASSUME NEW u \in Caller, NEW i \in Id, NEW data \in Wanted,
             UpdateLooks(u, i, data) \/ EditMonitorCommand(u, i, data)
      PROVE  MonitorInv' /\ Kept
  BY <1>2, UpdateLooksKeeps DEF EditMonitorCommand
<1>3. ASSUME NEW u \in Caller, NEW i \in Id, StartLooks(u, i) \/ ResumeLooks(u, i)
      PROVE  MonitorInv' /\ Kept
  BY <1>3, StartLooksKeeps
<1>4. ASSUME NEW u \in Caller, UpdateSaves(u) \/ UpdateRenames(u) \/ Spawns(u) \/ SpawnFails(u)
      PROVE  MonitorInv' /\ Kept
  BY <1>4, UpdateSavesKeeps, UpdateRenamesKeeps, SpawnsKeeps, SpawnFailsKeeps
<1>5. ASSUME NEW i \in Id, MonitorEnds(i) \/ RemovesService(i)
      PROVE  MonitorInv' /\ Kept
  BY <1>5, EndsKeeps, RemovesServiceKeeps
<1>6. ASSUME NEW i \in Id, DeletesMonitor(i) PROVE MonitorInv'
  BY <1>6, DeletesKeeps
<1>7. CASE UNCHANGED monitorVars
  <2>1. MonitorInv'
    BY <1>7, RecordsStay, RequestsStay, RunningStays, UnitsStay DEF monitorVars, MonitorInv
  <2> QED BY <1>7, <2>1, RecordsStay DEF monitorVars, MonitorInv, Kept
<1> QED BY <1>1, <1>2, <1>3, <1>4, <1>5, <1>6, <1>7 DEF MonitorNext

LEMMA MonitorInvInitially == MonitorInit => MonitorInv
BY DEF MonitorInit, MonitorInv, RecordsOK, RequestsOK, RunningOK, UnitsOK, Known

LEMMA MonitorInvHolds == MonitorSpec => []MonitorInv
<1>1. MonitorInv /\ [MonitorNext]_monitorVars => MonitorInv'
  BY MonitorStepKeeps
<1> QED BY <1>1, MonitorInvInitially, PTL DEF MonitorSpec

LEMMA MonitorInvStarts == MonitorInv => MonitorStartsAsSaved
<1> SUFFICES ASSUME MonitorInv PROVE MonitorStartsAsSaved
  OBVIOUS
<1>1. MonitorTypeOK
  BY DEF MonitorInv, MonitorTypeOK, RecordsOK, RequestsOK, RunningOK, UnitsOK, Request, Running
<1>2. NameFits
  BY DEF MonitorInv, RecordsOK, NameFits
<1>3. StartsAsSaved
  <2> SUFFICES ASSUME NEW i \in Known, records[i].profile.name \notin Dashed,
                      ReadAsWritten(records[i].profile)
               PROVE  ParseArgs(Handed(records[i].profile)) = [f \in Flag |-> records[i].profile[f]]
    BY DEF StartsAsSaved
  <2>1. records[i].profile \in Profile
    BY RecordFields DEF MonitorInv
  <2> QED BY <2>1, CommandLineSays, HandedAsWritten
<1> QED BY <1>1, <1>2, <1>3 DEF MonitorStartsAsSaved

-----------------------------------------------------------------------------
(* Both.                                                                     *)

(* Whatever requests say, and in whatever order they overtake each other, what   *)
(* the rules of the services let be saved can be read again, and the processes   *)
(* that are started with it accept it as it was saved, but for the names and the *)
(* URLs that StartsAsSaved leaves apart.                                         *)
THEOREM ProfilesLaunch == ProfileSpec /\ MonitorSpec => []LaunchesAsSaved
<1>1. ProfileInv /\ MonitorInv => LaunchesAsSaved
  BY ServerInvStarts, MonitorInvStarts DEF LaunchesAsSaved
<1> QED BY <1>1, ProfileInvHolds, MonitorInvHolds, PTL

(* Of what a user may see, what a preview counts is what the server draws from, *)
(* for every table of proxies and every user.                                   *)
THEOREM PreviewsAreTrue == ProfileSpec => []ServesWhatWasShown
BY ServerInvShows, ProfileInvHolds, PTL

(* No profile of a monitor is lost to another: a rename to an id that is taken by *)
(* then does nothing, and only deleting a monitor makes the profiles fewer.       *)
THEOREM ProfilesRemain == MonitorSpec => NoneOverwritten
<1>1. IsFiniteSet(Id)
  <2> DEFINE g == [n \in Name |-> SafeName[n]]
  <2>1. g \in Surjection(Name, Id)
    BY DEF Surjection, Id
  <2> QED BY <2>1, FS_Surjection, MonitorAssumption
<1>2. ASSUME MonitorInv, [MonitorNext]_monitorVars
      PROVE  [Cardinality(Known') >= Cardinality(Known) \/ \E i \in Id : DeletesMonitor(i)]_monitorVars
  <2>1. ASSUME Known \subseteq Known' PROVE Cardinality(Known') >= Cardinality(Known)
    <3>1. Known' \subseteq Id
      BY DEF Known
    <3>2. IsFiniteSet(Known')
      BY <1>1, <3>1, FS_Subset
    <3> QED BY <2>1, <3>2, FS_Subset, FS_CardinalityType
  <2>2. ASSUME NEW i \in Known, NEW j \in Id \ Known, Known' = (Known \ {i}) \cup {j}
        PROVE  Cardinality(Known') >= Cardinality(Known)
    <3>1. IsFiniteSet(Known)
      BY <1>1, FS_Subset DEF Known
    <3>2. IsFiniteSet(Known \ {i}) /\ Cardinality(Known \ {i}) = Cardinality(Known) - 1
      BY <3>1, FS_RemoveElement
    <3>3. Cardinality((Known \ {i}) \cup {j}) = Cardinality(Known \ {i}) + 1
      BY <3>2, FS_AddElement
    <3> QED BY <2>2, <3>1, <3>2, <3>3, FS_CardinalityType
  <2> QED BY <1>2, <2>1, <2>2, MonitorStepKeeps DEF Kept
<1> QED BY <1>2, MonitorInvHolds, PTL DEF MonitorSpec, NoneOverwritten

-----------------------------------------------------------------------------
(* The public feed: orders.                                                  *)

Below(S, R, c) == {d \in S : <<d, c>> \in R}

(* In a finite set with a strict total order each element has a place of its own: *)
(* the number of those below it, and all places are taken.                        *)
LEMMA Places ==
    ASSUME NEW S, IsFiniteSet(S), NEW R,
           \A c \in S : <<c, c>> \notin R,
           \A c, d \in S : c # d => <<c, d>> \in R \/ <<d, c>> \in R,
           \A c, d, e \in S : <<c, d>> \in R /\ <<d, e>> \in R => <<c, e>> \in R
    PROVE  /\ Cardinality(S) \in Nat
           /\ \A c \in S : Cardinality(Below(S, R, c)) \in 0..Cardinality(S) - 1
           /\ \A c, d \in S :
                 <<c, d>> \in R <=> Cardinality(Below(S, R, c)) < Cardinality(Below(S, R, d))
           /\ \A i \in 1..Cardinality(S) : \E c \in S : Cardinality(Below(S, R, c)) = i - 1
<1> DEFINE m == Cardinality(S)
           B(c) == Below(S, R, c)
           f == [c \in S |-> Cardinality(B(c))]
<1>1. m \in Nat
  BY FS_CardinalityType
<1>2. ASSUME NEW c \in S PROVE IsFiniteSet(B(c)) /\ Cardinality(B(c)) \in 0..m - 1
  <2>1. B(c) \subseteq S \ {c}
    BY DEF Below
  <2>2. IsFiniteSet(S \ {c}) /\ Cardinality(S \ {c}) = m - 1
    BY FS_RemoveElement
  <2>3. IsFiniteSet(B(c)) /\ Cardinality(B(c)) <= m - 1
    BY <2>1, <2>2, FS_Subset
  <2> QED BY <1>1, <2>3, FS_CardinalityType
<1>3. ASSUME NEW c \in S, NEW d \in S, <<c, d>> \in R PROVE Cardinality(B(c)) < Cardinality(B(d))
  <2>1. B(c) \subseteq B(d) /\ c \in B(d) /\ c \notin B(c)
    BY <1>3 DEF Below
  <2>2. B(c) # B(d)
    BY <2>1
  <2>3. Cardinality(B(c)) <= Cardinality(B(d)) /\ Cardinality(B(c)) # Cardinality(B(d))
    <3> HIDE DEF B
    <3> QED BY <1>2, <2>1, <2>2, FS_Subset
  <2> QED BY <1>2, <2>3
<1>4. ASSUME NEW c \in S, NEW d \in S, Cardinality(B(c)) < Cardinality(B(d)) PROVE <<c, d>> \in R
  <2>1. Cardinality(B(c)) \in Int /\ Cardinality(B(d)) \in Int
    BY <1>2
  <2>2. c # d
    BY <1>4, <2>1
  <2>3. CASE <<d, c>> \in R
    <3>1. Cardinality(B(d)) < Cardinality(B(c))
      BY <1>3, <2>3
    <3> QED BY <1>4, <2>1, <3>1
  <2> QED BY <2>2, <2>3
<1>5. f \in Injection(S, 0..m - 1)
  <2>1. f \in [S -> 0..m - 1]
    BY <1>2
  <2>2. ASSUME NEW c \in S, NEW d \in S, f[c] = f[d] PROVE c = d
    <3>1. Cardinality(B(c)) = Cardinality(B(d)) /\ Cardinality(B(c)) \in Int
      BY <1>2, <2>2
    <3>2. ~(Cardinality(B(c)) < Cardinality(B(d))) /\ ~(Cardinality(B(d)) < Cardinality(B(c)))
      BY <3>1
    <3> QED BY <1>3, <3>2
  <2> HIDE DEF f
  <2> QED BY <2>1, <2>2 DEF Injection, IsInjective
<1>6. f \in Surjection(S, 0..m - 1)
  <2>1. IsFiniteSet(0..m - 1) /\ Cardinality(0..m - 1) = m
    <3> DEFINE k == m - 1
    <3>1. k \in Int /\ 0 \in Int /\ (0 > k => m = 0) /\ (~(0 > k) => k - 0 + 1 = m)
      BY <1>1
    <3> HIDE DEF k
    <3>2. IsFiniteSet(0..k) /\ Cardinality(0..k) = IF 0 > k THEN 0 ELSE k - 0 + 1
      BY <3>1, FS_Interval
    <3>3. Cardinality(0..k) = m
      BY <3>1, <3>2
    <3> QED BY <3>2, <3>3 DEF k
  <2> QED BY <1>5, <2>1, FS_Injection
<1>7. ASSUME NEW i \in 1..m PROVE \E c \in S : Cardinality(B(c)) = i - 1
  <2>1. i - 1 \in 0..m - 1
    BY <1>1
  <2>2. \E c \in S : f[c] = i - 1
    BY <1>6, <2>1 DEF Surjection
  <2> QED BY <2>2
<1> QED BY <1>1, <1>2, <1>3, <1>4, <1>7

-----------------------------------------------------------------------------
(* What was counted and found.                                               *)

DataOK ==
    /\ count \in [Candidate -> Nat]
    /\ DOMAIN results \subseteq Candidate
    /\ \A c \in DOMAIN results : results[c] \in Outcomes

LEMMA CandidatesFinite == IsFiniteSet(Candidate)
<1> DEFINE h == [q \in Protocol \X Address |-> [protocol |-> q[1], address |-> q[2]]]
<1>1. IsFiniteSet(Protocol \X Address)
  BY FeedAssumption, FS_Product
<1>2. h \in Surjection(Protocol \X Address, Candidate)
  <2>1. h \in [Protocol \X Address -> Candidate]
    BY DEF Candidate
  <2>2. ASSUME NEW c \in Candidate PROVE \E q \in Protocol \X Address : h[q] = c
    <3>1. <<c.protocol, c.address>> \in Protocol \X Address
      BY DEF Candidate
    <3>2. h[<<c.protocol, c.address>>] = c
      BY <3>1 DEF Candidate
    <3> QED BY <3>1, <3>2
  <2> HIDE DEF h
  <2> QED BY <2>1, <2>2 DEF Surjection
<1> QED BY <1>1, <1>2, FS_Surjection

LEMMA GroupsFinite ==
    ASSUME DataOK, NEW n
    PROVE  /\ Grouped(n) \subseteq Candidate /\ IsFiniteSet(Grouped(n))
           /\ Tested(n) \subseteq Candidate /\ IsFiniteSet(Tested(n))
           /\ Healthy(n) \subseteq Tested(n) /\ IsFiniteSet(Healthy(n))
           /\ Cardinality(Grouped(n)) \in Nat /\ Cardinality(Tested(n)) \in Nat
           /\ Cardinality(Healthy(n)) \in Nat
<1>1. /\ Grouped(n) \subseteq Candidate /\ Tested(n) \subseteq Candidate
      /\ Healthy(n) \subseteq Tested(n)
  BY DEF Grouped, Tested, Healthy, DataOK
<1>2. IsFiniteSet(Grouped(n)) /\ IsFiniteSet(Tested(n)) /\ IsFiniteSet(Healthy(n))
  BY <1>1, CandidatesFinite, FS_Subset
<1> QED BY <1>1, <1>2, FS_CardinalityType

LEMMA CandidateNumbers ==
    ASSUME DataOK, NEW c \in DOMAIN results
    PROVE  Successes(c) \in Nat /\ ScoreOf(c) \in Int /\ Place[c] \in Nat
<1>1. c \in Candidate /\ count[c] \in Nat
  BY DEF DataOK
<1>2. Probes \in Nat
  BY FeedAssumption
<1>3. Successes(c) \in Nat
  <2>1. {i \in 1..Probes : results[c].exits[i] # None} \subseteq 1..Probes /\ IsFiniteSet(1..Probes)
    BY <1>2, FS_Interval
  <2> QED BY <2>1, FS_Subset, FS_CardinalityType DEF Successes
<1>4. Lesser(count[c], 4) \in Int
  BY <1>1 DEF Lesser
<1>5. ScoreOf(c) \in Int
  <2> DEFINE one == 4 * Probes
             a == 240 * Successes(c)
             b == 5 * one
             d == IF results[c].quick THEN 25 * one ELSE 0
             e == IF Cardinality(ExitsOf(c)) = 1 THEN 5 * one ELSE 0
             f == 5 * Probes * Lesser(count[c], 4)
  <2>1. one \in Int
    BY <1>2
  <2>2. a \in Int /\ b \in Int /\ d \in Int /\ e \in Int
    <3> HIDE DEF one
    <3> QED BY <1>3, <2>1
  <2>3. f \in Int
    BY <1>2, <1>4
  <2>4. ScoreOf(c) = a + b + d + e + f
    BY DEF ScoreOf
  <2> HIDE DEF a, b, d, e, f
  <2> QED BY <2>2, <2>3, <2>4
<1> QED BY <1>1, <1>3, <1>5, FeedAssumption

(* The sort of choose_top is a strict total order of the healthy ones. *)
LEMMA BetterIsOrder ==
    ASSUME DataOK, NEW n
    PROVE  /\ \A c \in Healthy(n) : ~Better(c, c)
           /\ \A c, d \in Healthy(n) : c # d => Better(c, d) \/ Better(d, c)
           /\ \A c, d, e \in Healthy(n) : Better(c, d) /\ Better(d, e) => Better(c, e)
           /\ \A c, d \in Healthy(n) : Better(c, d) => Successes(c) >= Successes(d)
<1>1. \A c \in Healthy(n) : Successes(c) \in Int /\ ScoreOf(c) \in Int /\ Place[c] \in Int
  BY CandidateNumbers DEF Healthy, Tested
<1>2. \A c, d \in Healthy(n) : Place[c] = Place[d] => c = d
  BY GroupsFinite, FeedAssumption
<1> QED BY <1>1, <1>2 DEF Better

(* So is the order in which it takes them. *)
LEMMA ComesIsOrder ==
    ASSUME DataOK, NEW n
    PROVE  /\ \A c \in Healthy(n) : ~Comes(c, c, n)
           /\ \A c, d \in Healthy(n) : c # d => Comes(c, d, n) \/ Comes(d, c, n)
           /\ \A c, d, e \in Healthy(n) : Comes(c, d, n) /\ Comes(d, e, n) => Comes(c, e, n)
           /\ \A c, d \in Healthy(n) : Comes(c, d, n) => Successes(c) >= Successes(d)
<1>1. \A c \in Healthy(n) : Successes(c) \in Int
  BY CandidateNumbers DEF Healthy, Tested
<1>2. ASSUME NEW c \in Healthy(n) PROVE ~Comes(c, c, n)
  BY <1>1, BetterIsOrder DEF Comes
<1>3. ASSUME NEW c \in Healthy(n), NEW d \in Healthy(n), c # d
      PROVE  Comes(c, d, n) \/ Comes(d, c, n)
  BY <1>1, <1>3, BetterIsOrder DEF Comes
<1>4. ASSUME NEW c \in Healthy(n), NEW d \in Healthy(n), NEW e \in Healthy(n),
             Comes(c, d, n), Comes(d, e, n)
      PROVE  Comes(c, e, n)
  <2>1. Better(c, d) /\ Better(d, e) => Better(c, e)
    BY BetterIsOrder
  <2> QED BY <1>1, <1>4, <2>1 DEF Comes
<1>5. ASSUME NEW c \in Healthy(n), NEW d \in Healthy(n), Comes(c, d, n)
      PROVE  Successes(c) >= Successes(d)
  BY <1>1, <1>5 DEF Comes
<1> QED BY <1>2, <1>3, <1>4, <1>5

(* The places of the healthy ones in that order. *)
LEMMA AheadPlaces ==
    ASSUME DataOK, NEW n
    PROVE  /\ \A c \in Healthy(n) : Ahead(c, n) \in 0..Cardinality(Healthy(n)) - 1
           /\ \A c, d \in Healthy(n) : Comes(c, d, n) <=> Ahead(c, n) < Ahead(d, n)
           /\ \A i \in 1..Cardinality(Healthy(n)) : \E c \in Healthy(n) : Ahead(c, n) = i - 1
<1> DEFINE H == Healthy(n)
           R == {q \in H \X H : Comes(q[1], q[2], n)}
<1>1. \A c, d \in H : <<c, d>> \in R <=> Comes(c, d, n)
  OBVIOUS
<1>2. \A c \in H : Cardinality(Below(H, R, c)) = Ahead(c, n)
  <2>1. ASSUME NEW c \in H PROVE Below(H, R, c) = {d \in H : Comes(d, c, n)}
    BY <1>1 DEF Below
  <2> QED BY <2>1 DEF Ahead
<1> HIDE DEF R
<1>3. /\ IsFiniteSet(H)
      /\ \A c \in H : <<c, c>> \notin R
      /\ \A c, d \in H : c # d => <<c, d>> \in R \/ <<d, c>> \in R
      /\ \A c, d, e \in H : <<c, d>> \in R /\ <<d, e>> \in R => <<c, e>> \in R
  BY <1>1, GroupsFinite, ComesIsOrder
<1> HIDE DEF H
<1>4. /\ \A c \in H : Cardinality(Below(H, R, c)) \in 0..Cardinality(H) - 1
      /\ \A c, d \in H : <<c, d>> \in R <=> Cardinality(Below(H, R, c)) < Cardinality(Below(H, R, d))
      /\ \A i \in 1..Cardinality(H) : \E c \in H : Cardinality(Below(H, R, c)) = i - 1
  BY <1>3, Places
<1> QED BY <1>1, <1>2, <1>4 DEF H

-----------------------------------------------------------------------------
(* What is listed.                                                           *)

Room(n) == Lesser(TopN, Cardinality(Healthy(n)))

(* The rows are the healthy ones in the order they come in, as far as there is room. *)
LEMMA TopRows ==
    ASSUME DataOK, NEW n
    PROVE  /\ Room(n) \in 0..Cardinality(Healthy(n)) /\ Room(n) <= TopN
           /\ DOMAIN Top(n) = 1..Room(n) /\ Top(n) \in Seq(Healthy(n)) /\ Len(Top(n)) = Room(n)
           /\ \A i \in 1..Room(n) : Top(n)[i] \in Healthy(n) /\ Ahead(Top(n)[i], n) = i - 1
           /\ \A c \in Healthy(n) : Ahead(c, n) < Room(n) => \E i \in 1..Room(n) : Top(n)[i] = c
<1> DEFINE k == Room(n)
           m == Cardinality(Healthy(n))
<1>1. k \in 0..m /\ k <= TopN /\ m \in Nat
  BY GroupsFinite, FeedAssumption DEF Room, Lesser
<1>2. Top(n) = [i \in 1..k |-> CHOOSE c \in Healthy(n) : Ahead(c, n) = i - 1]
  BY DEF Top, Room
<1> HIDE DEF k
<1>3. ASSUME NEW i \in 1..k PROVE Top(n)[i] \in Healthy(n) /\ Ahead(Top(n)[i], n) = i - 1
  <2>1. i \in 1..m
    BY <1>1
  <2>2. \E c \in Healthy(n) : Ahead(c, n) = i - 1
    BY <2>1, AheadPlaces
  <2> QED BY <1>2, <2>2
<1>4. DOMAIN Top(n) = 1..k /\ Top(n) \in [1..k -> Healthy(n)]
  BY <1>2, <1>3
<1>5. Top(n) \in Seq(Healthy(n)) /\ Len(Top(n)) = k
  BY <1>1, <1>4
<1>6. ASSUME NEW c \in Healthy(n), Ahead(c, n) < k PROVE \E i \in 1..k : Top(n)[i] = c
  <2>1. Ahead(c, n) \in Nat
    BY AheadPlaces, <1>1
  <2> DEFINE i == Ahead(c, n) + 1
  <2>2. i \in 1..k /\ i - 1 = Ahead(c, n)
    BY <1>1, <1>6, <2>1
  <2> HIDE DEF i
  <2>3. Top(n)[i] \in Healthy(n) /\ Ahead(Top(n)[i], n) = Ahead(c, n)
    BY <1>3, <2>2
  <2>4. ~(Ahead(Top(n)[i], n) < Ahead(c, n)) /\ ~(Ahead(c, n) < Ahead(Top(n)[i], n))
    BY <2>1, <2>3
  <2>5. Top(n)[i] = c
    BY <2>3, <2>4, AheadPlaces, ComesIsOrder
  <2> QED BY <2>2, <2>5
<1> QED BY <1>1, <1>3, <1>4, <1>5, <1>6 DEF k

ListedOf(n) == {Top(n)[i] : i \in DOMAIN Top(n)}

(* Who is listed comes before who is not. *)
LEMMA ListedComeFirst ==
    ASSUME DataOK, NEW n
    PROVE  /\ ListedOf(n) \subseteq Healthy(n)
           /\ \A c \in Healthy(n) \ ListedOf(n) : \A d \in ListedOf(n) : Comes(d, c, n)
           /\ \A c \in Healthy(n), d \in ListedOf(n) : Comes(c, d, n) => c \in ListedOf(n)
           /\ Cardinality(ListedOf(n)) = Room(n)
<1> DEFINE k == Room(n)
<1>1. \A d \in ListedOf(n) : d \in Healthy(n) /\ Ahead(d, n) < k
  BY TopRows DEF ListedOf
<1>2. \A c \in Healthy(n) : Ahead(c, n) < k => c \in ListedOf(n)
  BY TopRows DEF ListedOf
<1>3. /\ k \in Int /\ \A c \in Healthy(n) : Ahead(c, n) \in Int
      /\ \A c, d \in Healthy(n) : Comes(c, d, n) <=> Ahead(c, n) < Ahead(d, n)
  BY TopRows, AheadPlaces, GroupsFinite
<1>4. Cardinality(ListedOf(n)) = k
  <2> DEFINE rows == Top(n)
             L == ListedOf(n)
  <2>1. rows \in Surjection(1..k, L)
    <3>1. rows \in [1..k -> L] /\ \A c \in L : \E i \in 1..k : rows[i] = c
      BY TopRows DEF ListedOf
    <3> HIDE DEF rows, L
    <3> QED BY <3>1 DEF Surjection
  <2>2. rows \in Injection(1..k, L)
    <3>1. \A i, j \in 1..k : rows[i] = rows[j] => i = j
      <4> SUFFICES ASSUME NEW i \in 1..k, NEW j \in 1..k, rows[i] = rows[j] PROVE i = j
        OBVIOUS
      <4>1. Ahead(rows[i], n) = i - 1 /\ Ahead(rows[j], n) = j - 1
        BY TopRows
      <4>2. i - 1 = j - 1 /\ i \in Int /\ j \in Int
        BY <4>1
      <4> QED BY <4>2
    <3>2. rows \in [1..k -> L]
      BY <2>1 DEF Surjection
    <3> HIDE DEF rows, L
    <3> QED BY <3>1, <3>2 DEF Injection, IsInjective
  <2>3. k \in Nat /\ IsFiniteSet(1..k) /\ Cardinality(1..k) = k
    BY TopRows, GroupsFinite, FS_Interval
  <2> HIDE DEF rows, L, k
  <2>4. Cardinality(L) = k
    BY <2>1, <2>2, <2>3, FS_Surjection
  <2> QED BY <2>4 DEF L
<1> HIDE DEF k
<1>5. ASSUME NEW c \in Healthy(n) \ ListedOf(n), NEW d \in ListedOf(n) PROVE Comes(d, c, n)
  <2>1. ~(Ahead(c, n) < k) /\ d \in Healthy(n) /\ Ahead(d, n) < k
    BY <1>1, <1>2
  <2>2. Ahead(d, n) < Ahead(c, n)
    BY <1>3, <2>1
  <2> QED BY <1>3, <2>1, <2>2
<1>6. ASSUME NEW c \in Healthy(n), NEW d \in ListedOf(n), Comes(c, d, n) PROVE c \in ListedOf(n)
  <2>1. d \in Healthy(n) /\ Ahead(d, n) < k /\ Ahead(c, n) < Ahead(d, n)
    BY <1>1, <1>3, <1>6
  <2> QED BY <1>2, <1>3, <2>1
<1> QED BY <1>1, <1>4, <1>5, <1>6 DEF k

(* The first of those with one exit does not repeat it. *)
LEMMA FirstOfExit ==
    ASSUME DataOK, NEW n, NEW c \in Healthy(n)
    PROVE  \E d \in Healthy(n) : /\ ExitIp(d) = ExitIp(c) /\ ~Repeats(d, n)
                                 /\ d = c \/ Better(d, c)
<1> DEFINE H == Healthy(n)
           S == {d \in H : ExitIp(d) = ExitIp(c) /\ (d = c \/ Better(d, c))}
           R == {q \in H \X H : Better(q[1], q[2])}
<1>1. \A d, e \in H : <<d, e>> \in R <=> Better(d, e)
  OBVIOUS
<1>2. S \subseteq H /\ c \in S /\ IsFiniteSet(S)
  BY GroupsFinite, FS_Subset
<1> HIDE DEF R
<1>3. /\ \A d \in S : <<d, d>> \notin R
      /\ \A d, e \in S : d # e => <<d, e>> \in R \/ <<e, d>> \in R
      /\ \A d, e, f \in S : <<d, e>> \in R /\ <<e, f>> \in R => <<d, f>> \in R
  <2> HIDE DEF S
  <2> QED BY <1>1, <1>2, BetterIsOrder
<1>4. PICK d \in S : Cardinality(Below(S, R, d)) = 0
  <2> HIDE DEF S
  <2>1. /\ Cardinality(S) \in Nat
        /\ \A i \in 1..Cardinality(S) : \E d \in S : Cardinality(Below(S, R, d)) = i - 1
    BY <1>2, <1>3, Places
  <2>2. Cardinality(S) # 0
    BY <1>2, FS_EmptySet
  <2>3. 1 \in 1..Cardinality(S)
    BY <2>1, <2>2
  <2> QED BY <2>1, <2>3
<1>5. \A e \in S : ~Better(e, d)
  <2>1. IsFiniteSet(Below(S, R, d))
    <3> HIDE DEF S
    <3>1. Below(S, R, d) \subseteq S
      BY DEF Below
    <3> QED BY <1>2, <3>1, FS_Subset
  <2>2. Below(S, R, d) = {}
    BY <1>4, <2>1, FS_EmptySet
  <2> QED BY <1>1, <1>2, <2>2 DEF Below
<1>6. ASSUME NEW e \in H, Better(e, d), ExitIp(e) = ExitIp(d) PROVE FALSE
  <2>1. e = c \/ Better(e, c)
    BY <1>4, <1>6, BetterIsOrder
  <2>2. e \in S
    BY <1>4, <1>6, <2>1
  <2> QED BY <1>5, <1>6, <2>2
<1>7. ~Repeats(d, n)
  BY <1>6 DEF Repeats
<1> QED BY <1>4, <1>7

(* No one is listed for the sake of an exit before one that was reached more often. *)
LEMMA TopReliability ==
    ASSUME DataOK, NEW n, NEW c \in Healthy(n) \ ListedOf(n), NEW d \in ListedOf(n)
    PROVE  Successes(d) >= Successes(c)
BY ListedComeFirst, ComesIsOrder

(* An exit is listed again only when those left out leave by listed ones, or were *)
(* reached less often.                                                            *)
LEMMA TopSpreads ==
    ASSUME DataOK, NEW n, NEW c \in Healthy(n) \ ListedOf(n),
           \A d \in ListedOf(n) : ExitIp(d) # ExitIp(c),
           NEW i \in DOMAIN Top(n), NEW j \in DOMAIN Top(n), i < j,
           ExitIp(Top(n)[i]) = ExitIp(Top(n)[j])
    PROVE  Successes(Top(n)[j]) > Successes(c)
<1> DEFINE a == Top(n)[i]
           b == Top(n)[j]
<1>1. a \in ListedOf(n) /\ b \in ListedOf(n) /\ a \in Healthy(n) /\ b \in Healthy(n)
  BY ListedComeFirst DEF ListedOf
<1>2. Comes(a, b, n)
  <2>1. i \in 1..Room(n) /\ j \in 1..Room(n)
    BY TopRows
  <2>2. Ahead(a, n) = i - 1 /\ Ahead(b, n) = j - 1
    BY <2>1, TopRows
  <2>3. Ahead(a, n) < Ahead(b, n)
    BY <2>1, <2>2
  <2> QED BY <1>1, <2>3, AheadPlaces
<1>3. ExitIp(a) = ExitIp(b)
  OBVIOUS
<1> HIDE DEF a, b
<1>4. /\ Successes(a) \in Int /\ Successes(b) \in Int /\ Successes(c) \in Int
      /\ \A d \in Healthy(n) : Successes(d) \in Int
  BY <1>1, CandidateNumbers DEF Healthy, Tested
<1>5. Repeats(b, n)
  BY <1>1, <1>2, <1>3, <1>4 DEF Comes, Repeats, Better
<1>6. Successes(b) >= Successes(c) /\ Comes(b, c, n)
  BY <1>1, TopReliability, ListedComeFirst
<1>7. ASSUME Successes(b) = Successes(c) PROVE FALSE
  <2>1. PICK d \in Healthy(n) : ExitIp(d) = ExitIp(c) /\ ~Repeats(d, n) /\ (d = c \/ Better(d, c))
    BY FirstOfExit
  <2>2. Successes(d) >= Successes(b)
    BY <1>4, <1>7, <2>1, BetterIsOrder
  <2>3. Comes(d, b, n)
    BY <1>4, <1>5, <2>1, <2>2 DEF Comes
  <2>4. d \in ListedOf(n)
    BY <1>1, <2>3, ListedComeFirst
  <2> QED BY <2>1, <2>4
<1>8. Successes(b) > Successes(c)
  BY <1>4, <1>6, <1>7
<1> QED BY <1>8 DEF b

-----------------------------------------------------------------------------
(* What was found of a group does not change once its list is written.       *)

(* What is said of a candidate, as a function of what was found of it. *)
SuccessesIn(o) == Cardinality({i \in 1..Probes : o.exits[i] # None})
ExitsIn(o) == {o.exits[i] : i \in 1..Probes} \ {None}
ExitIn(o) == LET last == CHOOSE i \in 1..Probes : /\ o.exits[i] # None
                                                  /\ \A j \in i + 1..Probes : o.exits[j] = None
             IN  o.exits[last]

LEMMA FoundStays ==
    ASSUME count' = count, NEW c, results'[c] = results[c]
    PROVE  /\ Successes(c)' = Successes(c) /\ ExitIp(c)' = ExitIp(c) /\ ScoreOf(c)' = ScoreOf(c)
<1>1. Successes(c) = SuccessesIn(results[c]) /\ Successes(c)' = SuccessesIn(results'[c])
  BY DEF Successes, SuccessesIn
<1>2. ExitIp(c) = ExitIn(results[c]) /\ ExitIp(c)' = ExitIn(results'[c])
  BY DEF ExitIp, ExitIn
<1>3. ExitsOf(c) = ExitsIn(results[c]) /\ ExitsOf(c)' = ExitsIn(results'[c])
  BY DEF ExitsOf, ExitsIn
<1>4. Successes(c)' = Successes(c) /\ ExitIp(c)' = ExitIp(c) /\ ExitsOf(c)' = ExitsOf(c)
  BY <1>1, <1>2, <1>3
<1> QED BY <1>4 DEF ScoreOf

LEMMA WorkbookStays ==
    ASSUME count' = count, NEW n, Tested(n)' = Tested(n),
           \A c \in Tested(n) : results'[c] = results[c]
    PROVE  Workbook(n)' = Workbook(n)
<1>1. \A c \in Tested(n) : /\ Successes(c)' = Successes(c) /\ ExitIp(c)' = ExitIp(c)
                           /\ ScoreOf(c)' = ScoreOf(c)
  BY FoundStays
<1>2. Healthy(n)' = Healthy(n) /\ Healthy(n) \subseteq Tested(n)
  BY <1>1 DEF Healthy
<1>3. \A c, d \in Healthy(n) : Better(c, d)' <=> Better(c, d)
  BY <1>1, <1>2 DEF Better
<1>4. \A c \in Healthy(n) : Repeats(c, n)' <=> Repeats(c, n)
  BY <1>1, <1>2, <1>3 DEF Repeats
<1>5. \A c, d \in Healthy(n) : Comes(c, d, n)' <=> Comes(c, d, n)
  BY <1>1, <1>2, <1>3, <1>4 DEF Comes
<1>6. ASSUME NEW c \in Healthy(n) PROVE Ahead(c, n)' = Ahead(c, n)
  <2>1. {d \in Healthy(n) : Comes(d, c, n)}' = {d \in Healthy(n) : Comes(d, c, n)}
    BY <1>2, <1>5
  <2> QED BY <2>1 DEF Ahead
<1>7. Top(n)' = Top(n)
  <2>1. \A i : (CHOOSE c \in Healthy(n) : Ahead(c, n) = i - 1)'
               = (CHOOSE c \in Healthy(n) : Ahead(c, n) = i - 1)
    BY <1>2, <1>6
  <2> QED BY <1>2, <2>1 DEF Top
<1>8. Grouped(n)' = Grouped(n)
  BY DEF Grouped
<1> QED BY <1>2, <1>7, <1>8 DEF Workbook

(* Nor does it when the results stay. *)
LEMMA WorkbookStill ==
    ASSUME UNCHANGED <<count, results>>, NEW n
    PROVE  Workbook(n)' = Workbook(n)
<1>1. Tested(n)' = Tested(n)
  BY DEF Tested
<1> QED BY <1>1, WorkbookStays

-----------------------------------------------------------------------------
(* The invariant.                                                            *)

(* The candidates of a group that were selected. *)
Picked(n) == {c \in selected : c.protocol \in Families[n]}

FeedShape ==
    /\ stage \in {"start", "fetch", "select", "validate", "choose", "build", "done", "raised"}
    /\ pending \subseteq Source /\ failed \subseteq Source /\ lists \in Lists
    /\ family \in 1..Len(Families) + 1
    /\ stage \in {"start", "fetch"} => family = 1
    /\ stage \in {"select", "validate", "choose"} => family <= Len(Families)
    /\ stage \in {"build", "done"} => family = Len(Families) + 1
    /\ site \in {"earlier", "none", "success", "warning"}
    /\ selected \subseteq Candidate /\ DOMAIN results \subseteq selected

(* Of the groups before the one at work all that was selected is tested; of those *)
(* after it nothing is selected.                                                  *)
PickedOf(n) ==
    /\ n < family => MaySelect(Picked(n), Grouped(n)) /\ Picked(n) \subseteq DOMAIN results
    /\ n = family /\ stage \in {"validate", "choose"} => MaySelect(Picked(n), Grouped(n))
    /\ n = family /\ stage = "choose" => Picked(n) \subseteq DOMAIN results
    /\ n = family /\ stage \in {"start", "fetch", "select"} => Picked(n) = {}
    /\ n > family => Picked(n) = {}

(* A workbook says what would be said of its group now. *)
TopsInv == tops = [n \in 1..family - 1 |-> Workbook(n)]

SiteInv == site = "success" => stage = "done" /\ \A n \in DOMAIN tops : tops[n].rows # <<>>

FeedInv ==
    FeedShape /\ DataOK /\ (\A n \in DOMAIN Families : PickedOf(n)) /\ TopsInv /\ SiteInv

LEMMA FamiliesAreMany ==
    /\ Len(Families) \in Nat \ {0} /\ DOMAIN Families = 1..Len(Families)
    /\ \A n \in DOMAIN Families : Families[n] \subseteq Protocol
    /\ \A m, n \in DOMAIN Families : \A p : p \in Families[m] /\ p \in Families[n] => m = n
<1>1. Len(Families) \in Nat /\ DOMAIN Families = 1..Len(Families) /\ Families # <<>>
  BY FeedAssumption
<1>2. Len(Families) # 0
  BY <1>1, FeedAssumption
<1> QED BY <1>1, <1>2, FeedAssumption

(* The selection of a group stays what it is while the counts and it stay. *)
LEMMA SelectionStays ==
    ASSUME count' = count, NEW n, Picked(n)' = Picked(n), MaySelect(Picked(n), Grouped(n))
    PROVE  MaySelect(Picked(n), Grouped(n))'
<1>1. Grouped(n)' = Grouped(n)
  BY DEF Grouped
<1>2. \A c : {d \in Grouped(n) : RankedBefore(d, c)}' = {d \in Grouped(n) : RankedBefore(d, c)}
  BY <1>1 DEF RankedBefore
<1> QED BY <1>1, <1>2 DEF MaySelect

(* Steps that select nothing, find nothing and stay with the group. *)
LEMMA GroupsStay ==
    ASSUME FeedInv, UNCHANGED <<count, selected, results, family, tops>>,
           \/ stage' = stage
           \/ stage' = "raised"
           \/ stage \in {"start", "fetch"} /\ stage' \in {"fetch", "select"}
           \/ stage = "build" /\ stage' = "done"
    PROVE  DataOK' /\ (\A n \in DOMAIN Families : PickedOf(n)') /\ TopsInv'
<1>1. DataOK'
  BY DEF FeedInv, DataOK
<1>2. ASSUME NEW n \in DOMAIN Families PROVE PickedOf(n)'
  <2>1. Picked(n)' = Picked(n)
    BY DEF Picked
  <2>2. PickedOf(n)
    BY DEF FeedInv
  <2>3. MaySelect(Picked(n), Grouped(n)) => MaySelect(Picked(n), Grouped(n))'
    BY <2>1, SelectionStays
  <2> QED BY <2>1, <2>2, <2>3 DEF PickedOf
<1>3. TopsInv'
  <2>1. \A n : Workbook(n)' = Workbook(n)
    BY WorkbookStill
  <2> QED BY <2>1 DEF FeedInv, TopsInv
<1> QED BY <1>1, <1>2, <1>3

LEMMA TimesCount ==
    ASSUME lists \in Lists, NEW s \in Source, NEW c
    PROVE  Times(c, s) \in Nat
<1>1. lists[s] \in Seq(Line)
  BY FeedAssumption
<1>2. Len(lists[s]) \in Nat /\ DOMAIN lists[s] = 1..Len(lists[s])
  BY <1>1
<1>3. {i \in Fetched(s) : lists[s][i].candidate = c} \subseteq 1..Len(lists[s])
  BY <1>2 DEF Fetched
<1>4. IsFiniteSet(1..Len(lists[s]))
  BY <1>2, FS_Interval
<1> QED BY <1>3, <1>4, FS_Subset, FS_CardinalityType DEF Times

LEMMA CollectsKeeps == ASSUME FeedInv, NEW s \in Source, Collects(s) PROVE FeedInv'
<1>1. FeedShape'
  BY DEF FeedInv, FeedShape, Collects
<1>2. DataOK'
  <2>1. \A c : Times(c, s) \in Nat
    BY TimesCount DEF FeedInv, FeedShape
  <2>2. count' \in [Candidate -> Nat]
    BY <2>1 DEF FeedInv, DataOK, Collects, Counted
  <2> QED BY <2>2 DEF FeedInv, DataOK, Collects
<1>3. family = 1 /\ family' = 1
  BY DEF FeedInv, FeedShape, Collects
<1>4. ASSUME NEW n \in DOMAIN Families PROVE PickedOf(n)'
  <2>1. PickedOf(n) /\ n \in Nat \ {0}
    BY FamiliesAreMany DEF FeedInv
  <2>2. Picked(n)' = Picked(n) /\ stage = "fetch" /\ stage' = "fetch"
    BY DEF Picked, Collects
  <2> QED BY <1>3, <2>1, <2>2 DEF PickedOf
<1>5. TopsInv'
  <2>1. 1..1 - 1 = {}
    OBVIOUS
  <2>2. tops = [n \in 1..1 - 1 |-> Workbook(n)] /\ tops' = tops
    BY <1>3 DEF FeedInv, TopsInv, Collects
  <2>3. tops' = [n \in 1..1 - 1 |-> Workbook(n)']
    BY <2>1, <2>2
  <2> QED BY <1>3, <2>3 DEF TopsInv
<1>6. SiteInv'
  BY DEF FeedInv, SiteInv, Collects
<1> QED BY <1>1, <1>2, <1>4, <1>5, <1>6 DEF FeedInv

LEMMA QuietStepsKeep ==
    ASSUME FeedInv,
           \/ Begins \/ AllFetched \/ Raises \/ UNCHANGED feedVars
           \/ \E s \in Source : SourceFails(s)
    PROVE  FeedInv'
<1>1. /\ UNCHANGED <<count, selected, results, family, tops>>
      /\ \/ stage' = stage \/ stage' = "raised"
         \/ stage \in {"start", "fetch"} /\ stage' \in {"fetch", "select"}
  BY DEF Begins, AllFetched, Raises, SourceFails, feedVars
<1>2. DataOK' /\ (\A n \in DOMAIN Families : PickedOf(n)') /\ TopsInv'
  BY <1>1, GroupsStay
<1>3. FeedShape'
  BY FamiliesAreMany DEF FeedInv, FeedShape, Begins, AllFetched, Raises, SourceFails, feedVars
<1>4. SiteInv'
  BY DEF FeedInv, SiteInv, Begins, AllFetched, Raises, SourceFails, feedVars
<1> QED BY <1>2, <1>3, <1>4 DEF FeedInv

LEMMA SelectsKeeps == ASSUME FeedInv, Selects PROVE FeedInv'
<1>1. PICK S \in SUBSET Grouped(family) :
         MaySelect(S, Grouped(family)) /\ selected' = selected \cup S
  BY DEF Selects
<1>2. /\ stage = "select" /\ stage' = "validate"
      /\ UNCHANGED <<lists, pending, failed, count, family, results, tops, site>>
  BY DEF Selects
<1>3. family \in DOMAIN Families /\ S \subseteq Candidate
      /\ \A c \in S : c.protocol \in Families[family]
  BY <1>2, FamiliesAreMany DEF FeedInv, FeedShape, Grouped
<1>4. FeedShape' /\ DataOK'
  BY <1>1, <1>2, <1>3 DEF FeedInv, FeedShape, DataOK
<1>5. ASSUME NEW n \in DOMAIN Families PROVE PickedOf(n)'
  <2>1. PickedOf(n)
    BY DEF FeedInv
  <2>2. CASE n = family
    <3>1. Picked(n)' = S
      BY <1>1, <1>2, <1>3, <2>1, <2>2 DEF PickedOf, Picked
    <3>2. Grouped(n)' = Grouped(n)
      BY <1>2 DEF Grouped
    <3>3. \A c : {d \in Grouped(n) : RankedBefore(d, c)}' = {d \in Grouped(n) : RankedBefore(d, c)}
      BY <1>2, <3>2 DEF RankedBefore
    <3>4. MaySelect(Picked(n), Grouped(n))'
      BY <1>1, <2>2, <3>1, <3>2, <3>3 DEF MaySelect
    <3>5. family' = n /\ n \in Nat
      BY <1>2, <2>2, FamiliesAreMany
    <3> QED BY <1>2, <3>4, <3>5 DEF PickedOf
  <2>3. CASE n # family
    <3>1. Picked(n)' = Picked(n)
      BY <1>1, <1>3, <2>3, FamiliesAreMany DEF Picked
    <3>2. MaySelect(Picked(n), Grouped(n)) => MaySelect(Picked(n), Grouped(n))'
      BY <1>2, <3>1, SelectionStays
    <3> QED BY <1>2, <2>1, <2>3, <3>1, <3>2 DEF PickedOf
  <2> QED BY <2>2, <2>3
<1>6. TopsInv'
  <2>1. \A n : Workbook(n)' = Workbook(n)
    BY <1>2, WorkbookStill
  <2> QED BY <1>2, <2>1 DEF FeedInv, TopsInv
<1>7. SiteInv'
  BY <1>2 DEF FeedInv, SiteInv
<1> QED BY <1>4, <1>5, <1>6, <1>7 DEF FeedInv

LEMMA ProbedKeeps ==
    ASSUME FeedInv, NEW c \in Candidate, NEW outcome \in Outcomes, Probed(c, outcome)
    PROVE  FeedInv'
<1>1. /\ stage = "validate" /\ c \in selected \ DOMAIN results
      /\ results' = [d \in DOMAIN results \cup {c} |-> IF d = c THEN outcome ELSE results[d]]
      /\ UNCHANGED <<lists, stage, pending, failed, count, family, selected, tops, site>>
  BY DEF Probed
<1>2. /\ DOMAIN results' = DOMAIN results \cup {c} /\ results'[c] = outcome
      /\ \A d \in DOMAIN results : results'[d] = results[d]
  BY <1>1
<1>3. FeedShape' /\ DataOK'
  BY <1>1, <1>2 DEF FeedInv, FeedShape, DataOK
<1>4. ASSUME NEW n \in DOMAIN Families PROVE PickedOf(n)'
  <2>1. PickedOf(n)
    BY DEF FeedInv
  <2>2. Picked(n)' = Picked(n)
    BY <1>1 DEF Picked
  <2>3. MaySelect(Picked(n), Grouped(n)) => MaySelect(Picked(n), Grouped(n))'
    BY <1>1, <2>2, SelectionStays
  <2> QED BY <1>1, <1>2, <2>1, <2>2, <2>3 DEF PickedOf
<1>5. ASSUME NEW n \in 1..family - 1 PROVE Workbook(n)' = Workbook(n)
  <2>1. n \in DOMAIN Families /\ n < family
    BY FamiliesAreMany DEF FeedInv, FeedShape
  <2>2. c.protocol \notin Families[n]
    BY <1>1, <2>1 DEF FeedInv, PickedOf, Picked
  <2>3. Tested(n)' = Tested(n)
    BY <1>2, <2>2 DEF Tested
  <2>4. \A d \in Tested(n) : results'[d] = results[d]
    BY <1>2 DEF Tested
  <2> QED BY <1>1, <2>3, <2>4, WorkbookStays
<1>6. TopsInv'
  BY <1>1, <1>5 DEF FeedInv, TopsInv
<1>7. SiteInv'
  BY <1>1 DEF FeedInv, SiteInv
<1> QED BY <1>3, <1>4, <1>6, <1>7 DEF FeedInv

LEMMA ValidatedKeeps == ASSUME FeedInv, Validated PROVE FeedInv'
<1>1. /\ stage = "validate" /\ selected = DOMAIN results /\ stage' = "choose"
      /\ UNCHANGED <<lists, pending, failed, count, family, selected, results, tops, site>>
  BY DEF Validated
<1>2. FeedShape' /\ DataOK'
  BY <1>1 DEF FeedInv, FeedShape, DataOK
<1>3. ASSUME NEW n \in DOMAIN Families PROVE PickedOf(n)'
  <2>1. PickedOf(n) /\ Picked(n)' = Picked(n) /\ Picked(n) \subseteq selected
    BY <1>1 DEF FeedInv, Picked
  <2>2. MaySelect(Picked(n), Grouped(n)) => MaySelect(Picked(n), Grouped(n))'
    BY <1>1, <2>1, SelectionStays
  <2> QED BY <1>1, <2>1, <2>2 DEF PickedOf
<1>4. TopsInv'
  <2>1. \A n : Workbook(n)' = Workbook(n)
    BY <1>1, WorkbookStill
  <2> QED BY <1>1, <2>1 DEF FeedInv, TopsInv
<1>5. SiteInv'
  BY <1>1 DEF FeedInv, SiteInv
<1> QED BY <1>2, <1>3, <1>4, <1>5 DEF FeedInv

LEMMA ChoosesKeeps == ASSUME FeedInv, Chooses PROVE FeedInv'
<1>1. /\ stage = "choose" /\ tops' = Append(tops, Workbook(family)) /\ family' = family + 1
      /\ stage' = IF family = Len(Families) THEN "build" ELSE "select"
      /\ UNCHANGED <<lists, pending, failed, count, selected, results, site>>
  BY DEF Chooses
<1>2. family \in 1..Len(Families) /\ family \in Nat /\ Len(Families) \in Nat
  <2>1. family \in 1..Len(Families) + 1 /\ family <= Len(Families)
    BY <1>1 DEF FeedInv, FeedShape
  <2>2. Len(Families) \in Nat
    BY FamiliesAreMany
  <2> QED BY <2>1, <2>2
<1>3. FeedShape' /\ DataOK'
  BY <1>1, <1>2 DEF FeedInv, FeedShape, DataOK
<1>4. ASSUME NEW n \in DOMAIN Families PROVE PickedOf(n)'
  <2>1. PickedOf(n) /\ Picked(n)' = Picked(n) /\ n \in Nat
    BY <1>1, FamiliesAreMany DEF FeedInv, Picked
  <2>2. MaySelect(Picked(n), Grouped(n)) => MaySelect(Picked(n), Grouped(n))'
    BY <1>1, <2>1, SelectionStays
  <2>3. CASE n < family
    BY <1>1, <1>2, <2>1, <2>2, <2>3 DEF PickedOf
  <2>4. CASE n = family
    BY <1>1, <1>2, <2>1, <2>2, <2>4 DEF PickedOf
  <2>5. CASE n > family
    BY <1>1, <1>2, <2>1, <2>5 DEF PickedOf
  <2> QED BY <1>2, <2>1, <2>3, <2>4, <2>5
<1>5. TopsInv'
  <2>1. \A n : Workbook(n)' = Workbook(n)
    BY <1>1, WorkbookStill
  <2> DEFINE Books == {Workbook(n) : n \in 1..family}
             w == Workbook(family)
  <2>2. tops \in Seq(Books) /\ Len(tops) = family - 1 /\ w \in Books
        /\ \A n \in 1..family - 1 : tops[n] = Workbook(n)
    BY <1>2 DEF FeedInv, TopsInv
  <2>3. tops' = Append(tops, w)
    BY <1>1
  <2> HIDE DEF Books, w
  <2>4. /\ Len(tops') = family /\ tops' \in Seq(Books) /\ tops'[family] = w
        /\ \A n \in 1..family - 1 : tops'[n] = tops[n]
    BY <1>2, <2>2, <2>3
  <2>5. tops' = [n \in 1..family |-> tops'[n]]
    BY <2>4
  <2>6. \A n \in 1..family : tops'[n] = Workbook(n)
    <3>1. w = Workbook(family) /\ \A n \in 1..family : n = family \/ n \in 1..family - 1
      BY <1>2 DEF w
    <3> QED BY <2>2, <2>4, <3>1
  <2>7. tops' = [n \in 1..family |-> Workbook(n)]
    BY <2>5, <2>6
  <2>8. family' - 1 = family
    BY <1>1, <1>2
  <2> QED BY <2>1, <2>7, <2>8 DEF TopsInv
<1>6. SiteInv'
  BY <1>1 DEF FeedInv, SiteInv
<1> QED BY <1>3, <1>4, <1>5, <1>6 DEF FeedInv

LEMMA BuildsKeeps == ASSUME FeedInv, Builds PROVE FeedInv'
<1>1. /\ stage = "build" /\ stage' = "done"
      /\ site' = IF \E n \in DOMAIN tops : tops[n].rows = <<>> THEN "warning" ELSE "success"
      /\ UNCHANGED <<lists, pending, failed, count, family, selected, results, tops>>
  BY DEF Builds
<1>2. FeedShape'
  BY <1>1 DEF FeedInv, FeedShape
<1>3. DataOK' /\ (\A n \in DOMAIN Families : PickedOf(n)') /\ TopsInv'
  BY <1>1, GroupsStay
<1>4. SiteInv'
  BY <1>1 DEF SiteInv
<1> QED BY <1>2, <1>3, <1>4 DEF FeedInv

LEMMA FeedInvInitially == FeedInit => FeedInv
<1> SUFFICES ASSUME FeedInit PROVE FeedInv
  OBVIOUS
<1>1. FeedShape
  BY FamiliesAreMany DEF FeedInit, FeedShape
<1>2. DataOK
  BY DEF FeedInit, DataOK
<1>3. ASSUME NEW n \in DOMAIN Families PROVE PickedOf(n)
  <2>1. n \in Nat \ {0} /\ Picked(n) = {}
    BY FamiliesAreMany DEF FeedInit, Picked
  <2> QED BY <2>1 DEF FeedInit, PickedOf
<1>4. TopsInv
  <2>1. 1..1 - 1 = {}
    OBVIOUS
  <2> QED BY <2>1 DEF FeedInit, TopsInv
<1>5. SiteInv
  BY DEF FeedInit, SiteInv
<1> QED BY <1>1, <1>2, <1>3, <1>4, <1>5 DEF FeedInv

LEMMA FeedInvHolds == FeedSpec => []FeedInv
<1>1. FeedInv /\ [FeedNext]_feedVars => FeedInv'
  BY CollectsKeeps, QuietStepsKeep, SelectsKeeps, ProbedKeeps, ValidatedKeeps, ChoosesKeeps,
     BuildsKeeps DEF FeedNext
<1> QED BY <1>1, FeedInvInitially, PTL DEF FeedSpec

-----------------------------------------------------------------------------
(* What the invariant says of the lists.                                     *)

LEMMA ListsAreTops ==
    ASSUME FeedInv
    PROVE  /\ Len(tops) = family - 1 /\ DOMAIN tops = 1..family - 1 /\ family \in Nat
           /\ \A n \in DOMAIN tops :
                 /\ n \in DOMAIN Families /\ n < family
                 /\ tops[n] = Workbook(n) /\ tops[n].rows = Top(n) /\ Chosen(n) = ListedOf(n)
<1>1. family \in Nat \ {0} /\ family <= Len(Families) + 1 /\ Len(Families) \in Nat
  BY FamiliesAreMany DEF FeedInv, FeedShape
<1>2. tops = [n \in 1..family - 1 |-> Workbook(n)]
  BY DEF FeedInv, TopsInv
<1>3. Len(tops) = family - 1 /\ DOMAIN tops = 1..family - 1
  BY <1>1, <1>2
<1>4. ASSUME NEW n \in DOMAIN tops
      PROVE  /\ n \in DOMAIN Families /\ n < family
             /\ tops[n] = Workbook(n) /\ tops[n].rows = Top(n) /\ Chosen(n) = ListedOf(n)
  <2>1. n \in DOMAIN Families /\ n < family
    BY <1>1, <1>3, FamiliesAreMany
  <2>2. tops[n] = Workbook(n) /\ tops[n].rows = Top(n)
    BY <1>2, <1>3 DEF Workbook
  <2> QED BY <2>1, <2>2 DEF Chosen, ListedOf
<1> QED BY <1>1, <1>3, <1>4

LEMMA GroupsAreTested ==
    ASSUME FeedInv, NEW n \in DOMAIN tops
    PROVE  Tested(n) = Picked(n) /\ MaySelect(Tested(n), Grouped(n))
<1>1. PickedOf(n) /\ n < family
  BY ListsAreTops DEF FeedInv
<1>2. Picked(n) \subseteq DOMAIN results /\ MaySelect(Picked(n), Grouped(n))
  BY <1>1 DEF PickedOf
<1>3. DOMAIN results \subseteq selected
  BY DEF FeedInv, FeedShape
<1>4. Tested(n) = Picked(n)
  BY <1>2, <1>3 DEF Tested, Picked
<1> QED BY <1>2, <1>4

(* The first of a ranking of the fetched candidates are tested: so many were met *)
(* as often as one that is not.                                                  *)
LEMMA FirstAreTested ==
    ASSUME FeedInv, NEW n \in DOMAIN tops, NEW c \in Grouped(n) \ Tested(n)
    PROVE  Cardinality({d \in Tested(n) : count[d] >= count[c]}) >= Floor
<1> DEFINE G == Grouped(n)
           T == Tested(n)
           R == {q \in G \X G : RankedBefore(q[1], q[2])}
           P(d) == Cardinality(Below(G, R, d))
           D == {d \in T : count[d] >= count[c]}
<1>1. DataOK /\ MaySelect(T, G)
  BY GroupsAreTested DEF FeedInv
<1>2. /\ IsFiniteSet(G) /\ G \subseteq Candidate /\ IsFiniteSet(T) /\ Cardinality(G) \in Nat
      /\ Limit \in Nat /\ Floor \in 1..Limit
  BY <1>1, GroupsFinite, FeedAssumption
<1>3. /\ Cardinality(G) > Limit
      /\ \A d \in G : Cardinality({e \in G : RankedBefore(e, d)}) < Floor => d \in T
  BY <1>1, <1>2 DEF MaySelect
<1>4. \A d, e \in G : <<d, e>> \in R <=> RankedBefore(d, e)
  OBVIOUS
<1>5. \A d \in G : P(d) = Cardinality({e \in G : RankedBefore(e, d)})
  <2>1. ASSUME NEW d \in G PROVE Below(G, R, d) = {e \in G : RankedBefore(e, d)}
    BY <1>4 DEF Below
  <2> QED BY <2>1
<1>6. /\ \A d \in G : <<d, d>> \notin R
      /\ \A d, e \in G : d # e => <<d, e>> \in R \/ <<e, d>> \in R
      /\ \A d, e, f \in G : <<d, e>> \in R /\ <<e, f>> \in R => <<d, f>> \in R
  <2> HIDE DEF R
  <2>1. /\ \A d \in G : count[d] \in Int /\ Place[d] \in Int
        /\ \A d, e \in G : Place[d] = Place[e] => d = e
    BY <1>1, <1>2, FeedAssumption DEF DataOK
  <2> HIDE DEF G
  <2> QED BY <1>4, <2>1 DEF RankedBefore
<1>7. /\ \A d \in G : P(d) \in 0..Cardinality(G) - 1
      /\ \A d, e \in G : <<d, e>> \in R <=> P(d) < P(e)
      /\ \A i \in 1..Cardinality(G) : \E d \in G : P(d) = i - 1
  <2> HIDE DEF G, R
  <2> QED BY <1>2, <1>6, Places
<1>8. c \in G /\ c \notin T /\ T \subseteq G
  <2>1. T \subseteq G
    BY <1>1 DEF MaySelect
  <2> QED BY <2>1
<1>9. \A d \in G : count[d] \in Int
  BY <1>1, <1>2 DEF DataOK
<1> DEFINE h == [i \in 1..Floor |-> CHOOSE d \in G : P(d) = i - 1]
<1> HIDE DEF G, T, R, P
<1>10. ASSUME NEW i \in 1..Floor PROVE h[i] \in G /\ P(h[i]) = i - 1
  <2>1. i \in 1..Cardinality(G)
    BY <1>2, <1>3
  <2>2. \E d \in G : P(d) = i - 1
    BY <1>7, <2>1
  <2> QED BY <2>2
<1> HIDE DEF h
<1>11. ASSUME NEW i \in 1..Floor PROVE h[i] \in D
  <2>1. h[i] \in T
    <3>1. P(h[i]) < Floor
      BY <1>2, <1>10
    <3> QED BY <1>3, <1>5, <1>10, <3>1
  <2>2. P(h[i]) < P(c)
    <3>1. ~(P(c) < Floor)
      BY <1>3, <1>5, <1>8
    <3>2. P(c) \in Int /\ P(h[i]) = i - 1
      BY <1>2, <1>7, <1>8, <1>10
    <3> QED BY <1>2, <3>1, <3>2
  <2>3. RankedBefore(h[i], c)
    BY <1>4, <1>7, <1>8, <1>10, <2>2
  <2>4. count[h[i]] >= count[c]
    BY <1>8, <1>9, <1>10, <2>3 DEF RankedBefore
  <2> QED BY <2>1, <2>4
<1>12. h \in Injection(1..Floor, D)
  <2>1. h = [i \in 1..Floor |-> h[i]]
    BY DEF h
  <2>2. h \in [1..Floor -> D]
    <3> HIDE DEF D
    <3> QED BY <1>11, <2>1
  <2>3. ASSUME NEW i \in 1..Floor, NEW j \in 1..Floor, h[i] = h[j] PROVE i = j
    <3>1. i - 1 = j - 1 /\ i \in Int /\ j \in Int
      BY <1>10, <2>3
    <3> QED BY <3>1
  <2> HIDE DEF D
  <2> QED BY <2>2, <2>3 DEF Injection, IsInjective
<1>13. IsFiniteSet(D)
  <2>1. D \subseteq T
    OBVIOUS
  <2> HIDE DEF D
  <2> QED BY <1>2, <2>1, FS_Subset DEF T
<1>14. IsFiniteSet(1..Floor) /\ Cardinality(1..Floor) = Floor
  BY <1>2, FS_Interval
<1>15. Floor <= Cardinality(D)
  <2> HIDE DEF D
  <2> QED BY <1>12, <1>13, <1>14, FS_Injection
<1>16. Cardinality(D) \in Nat
  BY <1>13, FS_CardinalityType
<1> QED BY <1>2, <1>15, <1>16 DEF T

LEMMA ListsFollow == FeedInv => BestAreListed
<1> SUFFICES ASSUME FeedInv PROVE BestAreListed
  OBVIOUS
<1>1. DataOK
  BY DEF FeedInv
<1>2. FeedTypeOK
  BY ListsAreTops DEF FeedInv, FeedShape, DataOK, FeedTypeOK
<1>3. CorroboratedAreTested
  BY FirstAreTested DEF CorroboratedAreTested
<1>4. ReliabilityFirst
  BY <1>1, ListsAreTops, TopReliability DEF ReliabilityFirst
<1>5. SpreadsExits
  <2> SUFFICES ASSUME NEW n \in DOMAIN tops, NEW c \in Healthy(n) \ Chosen(n),
                      \A d \in Chosen(n) : ExitIp(d) # ExitIp(c),
                      NEW i \in DOMAIN tops[n].rows, NEW j \in DOMAIN tops[n].rows,
                      i < j, ExitIp(tops[n].rows[i]) = ExitIp(tops[n].rows[j])
               PROVE  Successes(tops[n].rows[j]) > Successes(c)
    BY DEF SpreadsExits
  <2>1. tops[n].rows = Top(n) /\ Chosen(n) = ListedOf(n)
    BY ListsAreTops
  <2> QED BY <1>1, <2>1, TopSpreads
<1>6. ListsAreFull
  <2>1. ASSUME NEW n \in DOMAIN tops
        PROVE  /\ tops[n].tested = Lesser(Limit, tops[n].fetched)
               /\ Len(tops[n].rows) = Lesser(TopN, tops[n].healthy)
               /\ Cardinality(Chosen(n)) = Len(tops[n].rows)
               /\ tops[n].rows # <<>> => tops[n].healthy > 0
    <3>1. /\ tops[n].rows = Top(n) /\ tops[n].fetched = Cardinality(Grouped(n))
          /\ tops[n].tested = Cardinality(Tested(n)) /\ tops[n].healthy = Cardinality(Healthy(n))
          /\ Chosen(n) = ListedOf(n)
      BY ListsAreTops DEF Workbook
    <3>2. MaySelect(Tested(n), Grouped(n)) /\ Cardinality(Grouped(n)) \in Nat /\ Limit \in Nat
      BY <1>1, GroupsAreTested, GroupsFinite, FeedAssumption
    <3>3. Cardinality(Tested(n)) = Lesser(Limit, Cardinality(Grouped(n)))
      BY <3>2 DEF MaySelect, Lesser
    <3>4. Len(Top(n)) = Room(n) /\ Cardinality(ListedOf(n)) = Room(n)
      BY <1>1, TopRows, ListedComeFirst
    <3>5. Top(n) # <<>> => Cardinality(Healthy(n)) > 0
      <4>1. Room(n) \in 0..Cardinality(Healthy(n)) /\ Cardinality(Healthy(n)) \in Nat
            /\ Top(n) \in Seq(Healthy(n))
        BY <1>1, TopRows, GroupsFinite
      <4>2. Room(n) # 0 => Cardinality(Healthy(n)) > 0
        BY <4>1
      <4>3. Room(n) = 0 => Top(n) = <<>>
        BY <3>4, <4>1
      <4> QED BY <4>2, <4>3
    <3> QED BY <3>1, <3>3, <3>4, <3>5 DEF Room
  <2>2. site = "success" => Len(tops) = Len(Families)
    <3>1. site = "success" => family = Len(Families) + 1
      BY DEF FeedInv, FeedShape, SiteInv
    <3> QED BY <3>1, ListsAreTops, FamiliesAreMany
  <2>3. site = "success" => \A n \in DOMAIN tops : tops[n].rows # <<>>
    BY DEF FeedInv, SiteInv
  <2> QED BY <2>1, <2>2, <2>3 DEF ListsAreFull
<1> QED BY <1>2, <1>3, <1>4, <1>5, <1>6 DEF BestAreListed

(* What is tested and listed of each group is the best there is, for every set of *)
(* sources, candidates and limits: the most corroborated ones are tested, none is *)
(* left out for one that was reached less often, and exits repeat only among the  *)
(* last (select_candidates, choose_top, build_site).                              *)
THEOREM BestIsListed == FeedSpec => []BestAreListed
BY FeedInvHolds, ListsFollow, PTL
=============================================================================
