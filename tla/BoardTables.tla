----------------------------- MODULE BoardTables -----------------------------
(***************************************************************************)
(* The tables behind the FO and DO dashboards and the conditions that      *)
(* their queries put on them (internal/data/dashboard_aggregate.go and the *)
(* where builders of dashboard_do.go).                                     *)
(*                                                                         *)
(* There are three copies of one truth.  The status table has a row for    *)
(* each uuid, which other programs write as the car reports its three      *)
(* stages (FFF trigger, FDR dump, FCL upload).  The daily table is the     *)
(* aggregate that RunETL loads, date by date.  The summaries are a cube    *)
(* that another program loads: every row of theirs is written for the real *)
(* event and once more for "__ALL__", at several grains.  Counts of a copy *)
(* are kept as the rows they were counted from, so SUM(cnt) is the number  *)
(* of parts: a row that is counted twice shows as two parts.               *)
(* Heartbeats and closed filters are tables that a request finds as they   *)
(* are; no query reads them more than once.                                *)
(***************************************************************************)
EXTENDS Integers, FiniteSets, FiniteSetsExt, SequencesExt, Functions

CONSTANTS
    Uuids,
    Ident,      \* day, event, filter, project, vehicle, car and version of each uuid
    Outcomes,   \* bound: what the stages of a uuid report, see AllOutcomes
    Beats,      \* heartbeats of running filters, see AllBeats
    Closes,     \* closed filters, see AllCloses
    Unreliable, \* the project whose heartbeats have no vehicle: lianhuashan
    Today,      \* CURDATE(), a number; days count from 1
    Recent,     \* a request without dates means this many days
    MaxSpan,    \* maxDateRange
    MaxReasons, \* the LIMITs: reasons of a funnel
    MaxTop,     \* entries of a top list
    MaxRank,    \* entries of the trigger rank
    MaxAnomalies,
    Asked       \* bound: the conditions asked for, see Conditions

All == "__ALL__"
Forever == "forever_log"
None == "none"      \* the empty string of a name
NoDay == 0          \* the empty string of a date
BadDay == -1        \* a date that cannot be parsed

\* A status is "null" until its stage reports.  why is the detail of the stage
\* that discarded: "" is none, and "odd" is one that no list of names knows.
Whys == {"", "cooldown", "files", "gc", "quota", "net", "odd"}
AllOutcomes == [fff : {"null", "success", "discard"},
                fdr : {"null", "dumping", "success", "discard"},
                fcl : {"null", "uploading", "success", "discard"}, why : Whys]

Values(field) == {Ident[u][field] : u \in Uuids}
AllBeats == [id : Nat, day : 1 .. Today, filter : Values("filter") \cup {"hot"},
             project : Values("project") \cup {Unreliable},
             car : Values("car"), vehicle : Values("vehicle"), on : BOOLEAN, ok : BOOLEAN]
AllCloses == [id : Nat, day : 1 .. Today, filter : Values("filter"), project : Values("project"),
              car : Values("car"), vehicle : Values("vehicle"), why : {"out of memory", "other"}]
Conditions == [start : Int, end : Int, filter : {None} \cup Values("filter"),
               events : SUBSET (Values("event") \cup Values("filter")),
               project : {None} \cup Values("project"), cars : SUBSET Values("car")]

ASSUME BoardAssumption ==
    /\ Uuids # {} /\ IsFiniteSet(Uuids) /\ Outcomes \subseteq AllOutcomes
    /\ \A u \in Uuids : Ident[u].day \in 1 .. Today /\ All \notin {Ident[u].event, Ident[u].filter}
    /\ Beats \subseteq AllBeats /\ Closes \subseteq AllCloses
    /\ Today \in Nat /\ Recent \in Nat \ {0} /\ MaxSpan \in Nat
    /\ {MaxReasons, MaxTop, MaxRank, MaxAnomalies} \subseteq Nat \ {0}
    /\ Asked \subseteq Conditions

VARIABLES
    status,   \* dwd_cfdi_status_monitor_analysis: the outcome of each uuid it has
    ads,      \* ads_do_cfdi_daily: the outcome each was loaded with
    cube      \* the daily summaries: the outcomes they were computed from

tables == <<status, ads, cube>>

RowsOf(table) == DOMAIN table

-----------------------------------------------------------------------------
(* What queries do with rows                                               *)

\* SELECT key, COUNT(..) .. GROUP BY key
CountBy(rows, Key(_)) ==
    [k \in {Key(r) : r \in rows} |-> Cardinality({r \in rows : Key(r) = k})]

\* .. ORDER BY cnt DESC LIMIT n: equal counts come in any order.
Tops(count, n) ==
    {Restrict(count, keys) : keys \in
        {k \in kSubset(Min({n, Cardinality(DOMAIN count)}), DOMAIN count) :
            \A i \in k, j \in DOMAIN count \ k : count[i] >= count[j]}}

Total(count) == SumFunction(count)

\* math.Round(a/b*1000)/10, in tenths of a percent
Pct(a, b) == IF b = 0 THEN 0 ELSE (2000 * a + b) \div (2 * b)

-----------------------------------------------------------------------------
(* The dates of a request                                                  *)

\* normalizeDateRange: no date at all is kept, an odd one refuses the request, the
\* ends are put in order and a long range is cut after its start.
NormalizeDates(f) ==
    IF f.start = NoDay /\ f.end = NoDay THEN <<f>>
    ELSE IF f.start <= NoDay \/ f.end <= NoDay THEN <<>>
    ELSE LET first == Min({f.start, f.end})  last == Max({f.start, f.end})
         IN  <<[f EXCEPT !.start = first, !.end = Min({last, first + MaxSpan})]>>

\* What a use case passes on: the requests whose dates are accepted.
Accepted == {NormalizeDates(f)[1] : f \in {g \in Asked : NormalizeDates(g) # <<>>}}

\* buildAggDateCondition, and the same lines of every other builder
InDates(f, day) ==
    IF f.start # NoDay /\ f.end # NoDay THEN day \in f.start .. f.end
    ELSE day > Today - Recent

\* The builders of the details and of the heartbeats: without dates, today.
InDatesOrToday(f, day) ==
    IF f.start # NoDay /\ f.end # NoDay THEN day \in f.start .. f.end ELSE day = Today

-----------------------------------------------------------------------------
(* Conditions on rows that have an event                                   *)

\* appendMultiCond: no values, no condition.
OneOf(values, v) == values = {} \/ v \in values
OrAny(value, v) == value \in {None, v}

OfPlace(f, row) == OrAny(f.project, row.project) /\ OneOf(f.cars, row.car)

\* buildDoCommonWhere
DoCommon(f, u) ==
    /\ InDates(f, Ident[u].day)
    /\ OrAny(f.filter, Ident[u].filter) /\ OneOf(f.events, Ident[u].event)
    /\ OfPlace(f, Ident[u])

\* buildVehicleWhere, which knows no filter
OfVehicles(f, u) ==
    InDates(f, Ident[u].day) /\ OneOf(f.events, Ident[u].event) /\ OfPlace(f, Ident[u])

Ads(f) == {u \in RowsOf(ads) : DoCommon(f, u)}
AdsOfAnyFilter(f) == Ads([f EXCEPT !.filter = None])

-----------------------------------------------------------------------------
(* Conditions on the parts of the cube                                     *)

\* A part: the uuid, whether it is in the row of its event or of all events, and
\* the grain of the row.
Parts(grain) == [u : RowsOf(cube), all : BOOLEAN, grain : {grain}]
EventOf(p) == IF p.all THEN All ELSE Ident[p.u].event
FilterOf(p) == IF p.grain = "filter" THEN Ident[p.u].filter ELSE All

\* Mutant of AggEvent: without events, no condition: each part is met twice.
AggEventNone(events, p) == OneOf(events, EventOf(p))

\* buildAggEventCondition
AggEvent(events, p) ==
    IF events = {} THEN EventOf(p) = All ELSE EventOf(p) \in events

\* buildAggCommonWhere, with the grain
AggCommon(grain, f) ==
    {p \in Parts(grain) : /\ InDates(f, Ident[p.u].day) /\ AggEvent(f.events, p)
                          /\ OrAny(f.filter, FilterOf(p)) /\ OfPlace(f, Ident[p.u])}

\* buildSummaryCommonWhere: the same for every filter; the query adds the grain.
SummaryCommon(grain, f) ==
    {p \in Parts(grain) : /\ InDates(f, Ident[p.u].day) /\ AggEvent(f.events, p)
                          /\ OfPlace(f, Ident[p.u])}

GrainForFilter(f) == IF f.filter = None THEN "overview" ELSE "filter"

\* SUM(x_count) of the rows whose uuids satisfy a predicate
SumWhere(parts, Counted(_)) == Cardinality({p \in parts : Counted(cube[p.u])})

-----------------------------------------------------------------------------
(* What the statuses of a uuid mean, in a copy where '' stands for null    *)

Passed(o) == o.fff # "discard"
Dumped(o) == Passed(o) /\ (o.fdr = "success" \/ o.fcl # "null")
Uploaded(o) == Dumped(o) /\ o.fcl # "discard"
UploadFailed(o) == Dumped(o) /\ o.fcl = "discard"

\* Mutant of FdrStageFailed: a discarded dump that was uploaded counts as failed.
FdrDiscarded(o) == Passed(o) /\ o.fdr = "discard"

\* fdrStageFailedCondition
FdrStageFailed(o) == Passed(o) /\ o.fdr = "discard" /\ o.fcl = "null"

\* The detail tags of the daily table (the CASE of insertCfdiDailySQL) and of the
\* summaries: two sets of names for the same details.  Only details of discards
\* are kept.
AdsNames ==
    [fff |-> [cooldown |-> "check_is_no_need_cooldown",
              quota |-> "query cloud DISCARD, detail:Filter quota exceeded"],
     fdr |-> [gc |-> "because of full gc", files |-> "Exceeds the maximum number of files"],
     fcl |-> [quota |-> "query cloud DISCARD, detail:Filter quota exceeded",
              net |-> "http request failed"]]
CubeNames ==
    [fff |-> [cooldown |-> "cooldown", quota |-> "filter_quota_exceeded"],
     fdr |-> [gc |-> "full_gc", files |-> "max_files_exceeded"],
     fcl |-> [quota |-> "filter_quota_exceeded", net |-> "http_request_failed"]]

Tag(names, stage, o) ==
    IF o[stage] # "discard" \/ o.why = "" THEN ""
    ELSE IF o.why \in DOMAIN names[stage] THEN names[stage][o.why] ELSE "other"
AdsTag(stage, o) == Tag(AdsNames, stage, o)
CubeTag(stage, o) == Tag(CubeNames, stage, o)

-----------------------------------------------------------------------------
(* The writers, all of them outside of a request                           *)

\* A stage of a uuid reports, or reports more.  Reports of a stage may be lost, but
\* what has ended does not begin again.
Rank == [null |-> 0, dumping |-> 1, uploading |-> 1, success |-> 2, discard |-> 2]
Follows(o, n) ==
    \A stage \in {"fff", "fdr", "fcl"} :
        n[stage] = o[stage] \/ Rank[n[stage]] > Rank[o[stage]]

Report(u, o) ==
    /\ u \in RowsOf(status) => (status[u] # o /\ Follows(status[u], o))
    /\ status' = [v \in RowsOf(status) \cup {u} |-> IF v = u THEN o ELSE status[v]]
    /\ UNCHANGED <<ads, cube>>

\* What a load of the aggregates takes from the status table
Loadable == {u \in RowsOf(status) : Ident[u].event # Forever}

\* The two statements of RunETL.  A day is loaded into an empty day here: when two
\* runs may load it twice is the question of EtlJob.
DeleteDay(day) ==
    /\ ads' = RestrictDomain(ads, LAMBDA u : Ident[u].day # day)
    /\ UNCHANGED <<status, cube>>

InsertDay(day) ==
    /\ \A u \in RowsOf(ads) : Ident[u].day # day
    /\ ads' = [u \in RowsOf(ads) \cup {v \in Loadable : Ident[v].day = day} |->
                  IF u \in RowsOf(ads) THEN ads[u] ELSE status[u]]
    /\ UNCHANGED <<status, cube>>

LoadCube ==
    /\ cube' = Restrict(status, Loadable)
    /\ UNCHANGED <<status, ads>>
=============================================================================
