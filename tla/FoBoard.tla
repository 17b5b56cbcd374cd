------------------------------- MODULE FoBoard -------------------------------
(***************************************************************************)
(* The queries of the FO dashboard (internal/data/dashboard_fo.go) and the *)
(* resolver that finds the filters of an event (running_filter_resolver.go *)
(* and resolveRunningEventNames).  As in DoBoard, f is a request with      *)
(* accepted dates, and who asks what when is in Board.                     *)
(***************************************************************************)
EXTENDS DoBoard

CONSTANT HotName  \* the filter of each operator name of FOM: with the hot update prefix

ASSUME HotAssumption == \A o \in DOMAIN HotName : HotName[o] \in STRING

-----------------------------------------------------------------------------
(* Funnel                                                                  *)

\* Mutant of FunnelStat: what the DO board counts.
FunnelStatOfDo(f) == DoFunnelStat(f)

FunnelStat(f) ==
    LET of(Counted(_)) == AdsCount(Ads(f), Counted)
    IN  [total |-> Cardinality(Ads(f)), allow |-> of(Passed), fdrSuccess |-> of(Dumped),
         fdrFail |-> of(FdrStageFailed), fclSuccess |-> of(Uploaded), fclFail |-> of(UploadFailed)]

FunnelReasons(f, stage) ==
    CASE stage = "fff" -> Reasons(f, stage, LAMBDA o : o.fff = "discard")
      [] stage = "fdr" -> Reasons(f, stage, FdrStageFailed)
      [] stage = "fcl" -> Reasons(f, stage, UploadFailed)

\* Failures that a rate is not held to, in the names of the daily table
NormalDiscards == {"event_not_recognized", "Exceeds the maximum number of files", "unauthorized"}
Intercepts == {"query cloud DISCARD, detail:EventName is in blacklist",
               "query cloud DISCARD, detail:Filter quota exceeded",
               "unexpected bag_upload_query cause", "reach upload limit"}
Among(reasons, names) == Total(RestrictDomain(reasons, LAMBDA n : n \in names))

\* What a rate divides by: dumps without normal discards, uploads that have ended
DumpsDue(stat, fails) == stat.allow - Among(fails.fdr, NormalDiscards)

UploadsDue(stat, fails) ==
    stat.fclSuccess + Max({stat.fclFail - Among(fails.fcl, Intercepts), 0})

\* GetFunnel: the rate is the product of the rates of dump and upload.
Funnel(stat, fails) ==
    LET dumps == DumpsDue(stat, fails)  uploads == UploadsDue(stat, fails)
    IN  [stat |-> stat, fails |-> fails,
         rate |-> IF dumps > 0 /\ uploads > 0
                  THEN Pct(stat.fdrSuccess * stat.fclSuccess, dumps * uploads) ELSE 0]

-----------------------------------------------------------------------------
(* Stage trend                                                             *)

NamesOf(stage) == {"success", "other"} \cup Range(AdsNames[stage])

\* Success and failure of a stage by date, from the overview grain
TrendCounts(f, stage) ==
    LET parts == AggCommon("overview", [f EXCEPT !.filter = None])
        on(d) == {p \in parts : Day(p.u) = d}
    IN  [d \in {Day(p.u) : p \in parts} |->
            [success |-> SumWhere(on(d), LAMBDA o : o[stage] = "success"),
             failed |-> SumWhere(on(d), LAMBDA o : o[stage] = "discard")]]

\* The failures of FFF by date and reason
TrendReasons(f) ==
    LET parts == AggCommon("reason", [f EXCEPT !.filter = None])
    IN  [d \in {Day(p.u) : p \in WithReason("fff", parts)} |->
            CubeReasons("fff", {p \in parts : Day(p.u) = d})]

\* buildTrendDates, or collectTrendDates when no dates were asked for
TrendDates(f, got) ==
    IF f.start # NoDay THEN f.start .. f.end ELSE UNION {DOMAIN got[q] : q \in DOMAIN got}

At(counts, d, none) == IF d \in DOMAIN counts THEN counts[d] ELSE none
NoCounts == [success |-> 0, failed |-> 0]

\* assembleStageVals: the names of a series get what the reasons say of them.
StageVals(counts, reasons) ==
    [n \in NamesOf("fff") |-> IF n = "success" THEN counts.success ELSE At(reasons, n, 0)]

\* Mutant of FffVals: what has no name is lost.
FffValsNamed(counts, reasons) == StageVals(counts, reasons)

\* assembleFffStageVals: what failed for a reason without a name is added to "other".
FffVals(counts, reasons) ==
    LET vals == StageVals(counts, reasons)  named == Total(vals) - vals["success"]
    IN  [vals EXCEPT !["other"] = @ + Max({counts.failed - named, 0})]

\* getStageTrendFromSummary, the answers of its four queries put together
StageTrend(f, got) ==
    [d \in TrendDates(f, got) |->
        [fff |-> FffVals(At(got.over, d, NoCounts), At(got.reason, d, <<>>)),
         fdr |-> At(got.fdr, d, NoCounts), fcl |-> At(got.fcl, d, NoCounts)]]

\* getStageTrendFromDetail: with a filter, from the daily table, which knows filters.
\* What has no series of its own, or no detail at all, is among the others.
FilterTrend(f) ==
    LET rows(d) == {u \in Ads(f) : Day(u) = d}
        vals(stage, d, Passes(_), Fails(_)) ==
            LET named(o) == AdsTag(stage, o) \in Range(AdsNames[stage])
                fails(n) == AdsCount(rows(d), LAMBDA o :
                    Fails(o) /\ (AdsTag(stage, o) = n \/ (n = "other" /\ ~named(o))))
            IN  [n \in NamesOf(stage) |-> IF n = "success" THEN AdsCount(rows(d), Passes)
                                          ELSE fails(n)]
    IN  [d \in {Day(u) : u \in Ads(f)} |->
            [fff |-> vals("fff", d, Passed, LAMBDA o : o.fff = "discard"),
             fdr |-> vals("fdr", d, Dumped, FdrStageFailed),
             fcl |-> vals("fcl", d, Uploaded, UploadFailed)]]

-----------------------------------------------------------------------------
(* FFF overview and reasons                                                *)

\* buildFffFilterCountWhere, of which only the distinct filters count: the events
\* asked for are taken for filters.
OfFilterCount(f, day, filter, row) ==
    /\ InDates(f, day) /\ OrAny(f.filter, filter) /\ OneOf(f.events \ {All}, filter)
    /\ OfPlace(f, row)

TriggeredFilters(f) ==
    {FilterOf(p) : p \in {q \in Parts("filter") :
        OfFilterCount(f, Day(q.u), FilterOf(q), Ident[q.u])}}

ClosedFilters(f) == {c.filter : c \in {d \in Closes : OfFilterCount(f, d.day, d.filter, d)}}

\* GetFffOverview, one statement
FffOverview(f) ==
    LET of(Counted(_)) == SumWhere(AggCommon(GrainForFilter(f), f), Counted)
    IN  [total |-> of(LAMBDA o : o.fff # "null"), success |-> of(LAMBDA o : o.fff = "success"),
         failed |-> of(LAMBDA o : o.fff = "discard"),
         filters |-> Cardinality(TriggeredFilters(f)), closed |-> Cardinality(ClosedFilters(f))]

\* GetFffFailReason: the reasons are of every filter.
FffFailReason(f) == CubeReasons("fff", AggCommon("reason", [f EXCEPT !.filter = None]))

-----------------------------------------------------------------------------
(* Closes                                                                  *)

\* buildCloseReasonWhere; the events asked for are taken for filters.
CloseOf(f, c, filter) ==
    /\ InDatesOrToday(f, c.day) /\ OrAny(f.filter, filter) /\ OneOf(f.events \ {All}, filter)
    /\ OfPlace(f, c)

\* GetCloseReason: the reason grain of the summary knows no filters, so a request for
\* one goes to the table of closes.
CloseReasons(f) ==
    LET found == IF f.filter # None THEN {c \in Closes : CloseOf(f, c, c.filter)}
                 ELSE {c \in Closes : CloseOf(f, c, All)}
    IN  CountBy(found, LAMBDA c : c.why)

-----------------------------------------------------------------------------
(* Running filters                                                         *)

\* buildFffRunningWhere
RunningOf(f, names, vehicles) ==
    {b \in Beats : /\ InDatesOrToday(f, b.day) /\ OrAny(f.filter, b.filter) /\ OfPlace(f, b)
                   /\ OneOf(vehicles, b.vehicle) /\ OneOf(names \ {All}, b.filter)}

\* The vehicles that ran a filter, or any: a row for each date, project, car type and
\* name, in which a vehicle is counted once.
NameOf(name, b) == name \in {All, b.filter}
OnVehicles(name, d, Counted(_)) ==
    LET beats == {b \in Beats : b.day = d /\ b.on /\ NameOf(name, b) /\ Counted(b)}
    IN  Cardinality({<<b.project, b.car, b.vehicle>> : b \in beats})

\* buildFffRunningVehicleWhere: no name asked for is the row of all names.
VehicleNames(f, names) ==
    LET asked == (names \ {All}) \cup ({f.filter} \ {None})
    IN  IF asked = {} THEN {All} ELSE asked

OfVehicleTotal(f, b) ==
    OfPlace(f, b) /\ (f.project = None => b.project # Unreliable)

\* GetRunningOverview, one statement: counts of heartbeats, and the vehicles of the
\* busiest day
RunningOverview(f, names) ==
    LET beats == RunningOf(f, names, {})
        of(Counted(_)) == Cardinality({b \in beats : Counted(b)})
        daily(d) == Total([n \in VehicleNames(f, names) |->
                               OnVehicles(n, d, LAMBDA b : OfVehicleTotal(f, b))])
        days == {d \in 1 .. Today : InDatesOrToday(f, d)}
    IN  [total |-> Cardinality(beats), vehicles |-> Max({daily(d) : d \in days} \cup {0}),
         on |-> of(LAMBDA b : b.on), off |-> of(LAMBDA b : ~b.on),
         ok |-> of(LAMBDA b : b.ok), failed |-> of(LAMBDA b : ~b.ok),
         filters |-> Cardinality({b.filter : b \in beats})]

\* GetFffRunningTrend of one filter; the dates are given.
TrendOfFilter(f, filter) ==
    LET days == {b.day : b \in {c \in Beats : /\ c.filter = filter /\ OfPlace(f, c)
                                              /\ c.day \in f.start .. f.end}}
    IN  [d \in days |-> OnVehicles(filter, d, LAMBDA b : OfPlace(f, b))]

\* getFffRunningTrendByFilterNames: the counts of the filters of a date are added.
RunningTrend(f, names) ==
    LET of == [n \in names |-> TrendOfFilter(f, n)]
    IN  [d \in UNION {DOMAIN of[n] : n \in names} |->
            Total([n \in names |-> At(of[n], d, 0)])]

-----------------------------------------------------------------------------
(* Which filters an event stands for                                       *)

\* A service that is asked: it is not configured ("off"), fails ("down"), or answers
\* ("up") with names.
AllAnswers == {a \in [state : {"off", "down", "up"}, names : SUBSET (DOMAIN HotName \cup Range(HotName))] :
                  a.state # "up" => a.names = {}}

\* Mutant of Resolve: an error of FOM is forgotten when FFM was asked.
ResolveQuiet(fom, ffm) ==
    IF fom.names # {} THEN <<{HotName[o] : o \in fom.names}>>
    ELSE IF ffm.state = "up" THEN <<ffm.names>>
    ELSE IF "down" \in {fom.state, ffm.state} \/ fom.state = ffm.state THEN <<>>
    ELSE <<{}>>

\* ResolveRunningFilterNames: <<names>>, or <<>> for an error.  FOM comes first; FFM
\* is asked when FOM has nothing; an error counts when nothing was found.
Resolve(fom, ffm) ==
    IF fom.state = "off" /\ ffm.state = "off" THEN <<>>
    ELSE IF fom.names # {} THEN <<{HotName[o] : o \in fom.names}>>
    ELSE IF ffm.names # {} THEN <<ffm.names>>
    ELSE IF "down" \in {fom.state, ffm.state} THEN <<>>
    ELSE <<{}>>

\* resolveRunningEventNames for one event: one without filters stands for itself.
NamesForEvent(event, resolved) == IF resolved = {} THEN {event} ELSE resolved

\* GetCarTypesByProject
CarTypesOf(project) ==
    {Ident[u].car : u \in {v \in RowsOf(cube) : Ident[v].project = project}}
=============================================================================
