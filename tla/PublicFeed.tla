------------------------------- MODULE PublicFeed -------------------------------
(***************************************************************************)
(* The public monitor: a scheduled job that fetches lists of public        *)
(* proxies, tests some of the addresses and builds a static site with the  *)
(* best ones of each family (public_monitor/core.py, run.py).  It shares   *)
(* no state with the dashboard.  Sources are fetched and candidates tested *)
(* by pools of threads, which finish in any order.                         *)
(***************************************************************************)
EXTENDS Integers, Sequences, FiniteSets

CONSTANTS
    Source,     \* the addresses of sources.ini
    Lists,      \* what they may serve: functions from Source to sequences of lines
    Protocol,   \* "http", "https", "socks4", "socks5", or some of them
    Address,    \* hosts with their ports
    Public,     \* the addresses that are global
    Families,   \* the groups of protocols, in the order they are worked on
    Place,      \* the order of candidates by name: a number for each
    Exit,       \* exit addresses
    Limit,      \* --max-candidates
    Floor,      \* how many of the most corroborated ones are always tested: 20, or a third
    TopN,       \* --top
    Probes,     \* --probes
    Outcomes,   \* what the probes of a candidate may find: [exits, quick]
    None

(* A line names a candidate, with credentials or without, or is none of the forms *)
(* that are understood.                                                           *)
Candidate == [protocol : Protocol, address : Address]
Line == [candidate : Candidate, auth : BOOLEAN] \cup {None}

ASSUME FeedAssumption ==
    /\ IsFiniteSet(Source) /\ IsFiniteSet(Protocol) /\ IsFiniteSet(Address)
    /\ Lists \subseteq [Source -> Seq(Line)]
    /\ Families \in Seq(SUBSET Protocol) /\ Families # <<>>
    /\ \A m, n \in DOMAIN Families : m # n => Families[m] \cap Families[n] = {}
    /\ Place \in [Candidate -> Nat] /\ \A c, d \in Candidate : Place[c] = Place[d] => c = d
    /\ Limit \in Nat /\ Floor \in 1..Limit /\ TopN \in Nat \ {0} /\ Probes \in 1..5
    /\ None \notin Exit
    /\ Outcomes \subseteq [exits : [1..Probes -> Exit \cup {None}], quick : BOOLEAN]

VARIABLES
    lists,      \* what the sources serve
    stage,      \* what the job does now
    pending,    \* the sources that have not answered
    failed,     \* those that could not be read
    count,      \* by_identity: how often each candidate was met
    family,     \* the number of the group at work
    selected,   \* the candidates of the groups so far that were selected
    results,    \* what the tests found: a function from candidates to outcomes
    tops,       \* the workbooks of the groups so far
    site        \* the output directory

feedVars == <<lists, stage, pending, failed, count, family, selected, results, tops, site>>

FeedTypeOK ==
    /\ stage \in {"start", "fetch", "select", "validate", "choose", "build", "done", "raised"}
    /\ pending \subseteq Source /\ failed \subseteq Source
    /\ count \in [Candidate -> Nat]
    /\ family \in 1..Len(Families) + 1 /\ Len(tops) = family - 1
    /\ DOMAIN results \subseteq selected /\ selected \subseteq Candidate
    /\ site \in {"earlier", "none", "success", "warning"}

FeedInit ==
    /\ lists \in Lists /\ stage = "start" /\ site = "earlier"
    /\ pending = Source /\ failed = {} /\ count = [c \in Candidate |-> 0]
    /\ family = 1 /\ selected = {} /\ results = <<>> /\ tops = <<>>

Lesser(m, n) == IF m < n THEN m ELSE n

-----------------------------------------------------------------------------
(* Fetching.                                                                 *)

Begins ==
    /\ stage = "start" /\ stage' = "fetch" /\ site' = "none"
    /\ UNCHANGED <<lists, pending, failed, count, family, selected, results, tops>>

(* normalize_proxy_line. *)
IsProxy(line) == line # None

(* _public_ip, and no credentials. *)
Accepted(line) == IsProxy(line) /\ line.candidate.address \in Public /\ ~line.auth

(* _fetch_source: the lines of a list that are taken. *)
Fetched(s) == {i \in DOMAIN lists[s] : Accepted(lists[s][i])}

Times(c, s) == Cardinality({i \in Fetched(s) : lists[s][i].candidate = c})

(* Every line counts, also when one source names an address twice. *)
Counted(s) == [c \in Candidate |-> count[c] + Times(c, s)]

(* collect_candidates: the answers are merged as they come. *)
Collects(s) ==
    /\ stage = "fetch" /\ s \in pending
    /\ pending' = pending \ {s} /\ count' = Counted(s)
    /\ UNCHANGED <<lists, stage, failed, family, selected, results, tops, site>>

SourceFails(s) ==
    /\ stage = "fetch" /\ s \in pending
    /\ pending' = pending \ {s} /\ failed' = failed \cup {s}
    /\ UNCHANGED <<lists, stage, count, family, selected, results, tops, site>>

AllFetched ==
    /\ stage = "fetch" /\ pending = {} /\ stage' = "select"
    /\ UNCHANGED <<lists, pending, failed, count, family, selected, results, tops, site>>

-----------------------------------------------------------------------------
(* Selecting.                                                                *)

Grouped(n) == {c \in Candidate : count[c] > 0 /\ c.protocol \in Families[n]}

RankedBefore(c, d) == count[c] > count[d] \/ (count[c] = count[d] /\ Place[c] < Place[d])

(* select_candidates: the first ones of the ranking, and others that a generator *)
(* seeded with the hour chooses.                                                 *)
MaySelect(S, C) ==
    IF Cardinality(C) <= Limit THEN S = C
    ELSE /\ Cardinality(S) = Limit /\ S \subseteq C
         /\ \A c \in C : Cardinality({d \in C : RankedBefore(d, c)}) < Floor => c \in S

Selects ==
    /\ stage = "select" /\ stage' = "validate"
    /\ \E S \in SUBSET Grouped(family) : MaySelect(S, Grouped(family)) /\ selected' = selected \cup S
    /\ UNCHANGED <<lists, pending, failed, count, family, results, tops, site>>

-----------------------------------------------------------------------------
(* Validating and ranking.                                                   *)

Successes(c) == Cardinality({i \in 1..Probes : results[c].exits[i] # None})
ExitsOf(c) == {results[c].exits[i] : i \in 1..Probes} \ {None}
ExitIp(c) == LET last == CHOOSE i \in 1..Probes :
                             /\ results[c].exits[i] # None
                             /\ \A j \in i + 1..Probes : results[c].exits[j] = None
             IN  results[c].exits[last]

(* score_result, times four times the probes; latency is quick or slow, and every *)
(* candidate resolves names where the proxy is.                                   *)
ScoreOf(c) == LET one == 4 * Probes
              IN  240 * Successes(c) + 5 * one
                  + (IF results[c].quick THEN 25 * one ELSE 0)
                  + (IF Cardinality(ExitsOf(c)) = 1 THEN 5 * one ELSE 0)
                  + 5 * Probes * Lesser(count[c], 4)

(* A worker returns what the probes of a candidate found; one that raises found *)
(* nothing.                                                                     *)
Probed(c, outcome) ==
    /\ stage = "validate" /\ c \in selected \ DOMAIN results
    /\ results' = [d \in DOMAIN results \cup {c} |-> IF d = c THEN outcome ELSE results[d]]
    /\ UNCHANGED <<lists, stage, pending, failed, count, family, selected, tops, site>>

Validated ==
    /\ stage = "validate" /\ selected = DOMAIN results /\ stage' = "choose"
    /\ UNCHANGED <<lists, pending, failed, count, family, selected, results, tops, site>>

Tested(n) == {c \in DOMAIN results : c.protocol \in Families[n]}
Healthy(n) == {c \in Tested(n) : Successes(c) > 0}

Better(c, d) ==
    \/ Successes(c) > Successes(d)
    \/ Successes(c) = Successes(d)
       /\ (ScoreOf(c) > ScoreOf(d) \/ (ScoreOf(c) = ScoreOf(d) /\ Place[c] < Place[d]))

(* The exit address of c is that of one before it. *)
Repeats(c, n) == \E d \in Healthy(n) : Better(d, c) /\ ExitIp(d) = ExitIp(c)

(* Seeded fault: other exits go before more successes. *)
ComesForExit(c, d, n) ==
    \/ ~Repeats(c, n) /\ Repeats(d, n)
    \/ (Repeats(c, n) <=> Repeats(d, n)) /\ Better(c, d)

(* Within a level of reliability those with an exit of their own come first. *)
Comes(c, d, n) ==
    \/ Successes(c) > Successes(d)
    \/ /\ Successes(c) = Successes(d)
       /\ \/ ~Repeats(c, n) /\ Repeats(d, n)
          \/ (Repeats(c, n) <=> Repeats(d, n)) /\ Better(c, d)

Ahead(c, n) == Cardinality({d \in Healthy(n) : Comes(d, c, n)})

(* choose_top: first the one that no other comes before, and so on; candidates that *)
(* are alike in all it looks at come in any order, here by name.                    *)
Top(n) == [i \in 1..Lesser(TopN, Cardinality(Healthy(n))) |->
              CHOOSE c \in Healthy(n) : Ahead(c, n) = i - 1]

(* build_excel: the rows, and what was counted on the way to them. *)
Workbook(n) ==
    [rows |-> Top(n), fetched |-> Cardinality(Grouped(n)),
     tested |-> Cardinality(Tested(n)), healthy |-> Cardinality(Healthy(n))]

(* The list of a group is written to the work directory. *)
Chooses ==
    /\ stage = "choose"
    /\ tops' = Append(tops, Workbook(family)) /\ family' = family + 1
    /\ stage' = IF family = Len(Families) THEN "build" ELSE "select"
    /\ UNCHANGED <<lists, pending, failed, count, selected, results, site>>

(* build_site, once all workbooks are there: an empty one is a warning. *)
Builds ==
    /\ stage = "build" /\ stage' = "done"
    /\ site' = IF \E n \in DOMAIN tops : tops[n].rows = <<>> THEN "warning" ELSE "success"
    /\ UNCHANGED <<lists, pending, failed, count, family, selected, results, tops>>

(* An exception, or the end of the time the job is given. *)
Raises ==
    /\ stage \notin {"start", "done", "raised"} /\ stage' = "raised"
    /\ UNCHANGED <<lists, pending, failed, count, family, selected, results, tops, site>>

FeedNext ==
    \/ Begins \/ AllFetched \/ Selects \/ Validated \/ Chooses \/ Builds \/ Raises
    \/ \E s \in Source : Collects(s) \/ SourceFails(s)
    \/ \E c \in Candidate, outcome \in Outcomes : Probed(c, outcome)

FeedSpec == FeedInit /\ [][FeedNext]_feedVars

-----------------------------------------------------------------------------
Chosen(n) == {tops[n].rows[i] : i \in DOMAIN tops[n].rows}

(* No candidate is left out of a list for one that was reached less often, not *)
(* even for the sake of other exit addresses (the comment of choose_top).      *)
ReliabilityFirst ==
    \A n \in DOMAIN tops : \A c \in Healthy(n) \ Chosen(n) : \A d \in Chosen(n) :
        Successes(d) >= Successes(c)

(* An exit address is listed twice only if no candidate that was reached as often *)
(* and leaves by an address of its own is left out.                               *)
SpreadsExits ==
    \A n \in DOMAIN tops : \A c \in Healthy(n) \ Chosen(n) :
        (\A d \in Chosen(n) : ExitIp(d) # ExitIp(c)) =>
            LET rows == tops[n].rows
            IN  \A i, j \in DOMAIN rows :
                    i < j /\ ExitIp(rows[i]) = ExitIp(rows[j]) => Successes(rows[j]) > Successes(c)

(* What is shown of a group adds up: as many were tested as the limit allows, *)
(* each healthy one is listed while there is room, and none twice; and a site *)
(* with nothing to offer for a group says so.                                 *)
ListsAreFull ==
    /\ \A n \in DOMAIN tops :
          /\ tops[n].tested = Lesser(Limit, tops[n].fetched)
          /\ Len(tops[n].rows) = Lesser(TopN, tops[n].healthy)
          /\ Cardinality(Chosen(n)) = Len(tops[n].rows)
    /\ site = "success" => Len(tops) = Len(Families) /\ \A n \in DOMAIN tops : tops[n].healthy > 0

(* A candidate that was not tested gave way to as many as the floor says that *)
(* were met at least as often.                                                *)
CorroboratedAreTested ==
    \A n \in DOMAIN tops : \A c \in Grouped(n) \ Tested(n) :
        Cardinality({d \in Tested(n) : count[d] >= count[c]}) >= Floor

(* What is tested and listed of each group is the best there is. *)
BestAreListed ==
    FeedTypeOK /\ CorroboratedAreTested /\ ReliabilityFirst /\ SpreadsExits /\ ListsAreFull
=============================================================================
