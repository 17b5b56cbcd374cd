-------------------------------- MODULE Board --------------------------------
(***************************************************************************)
(* A request to the FO or the DO dashboard, of a page or of a tool of the  *)
(* AI chat, from the parameters to the reply, while the tables it is       *)
(* answered from are written.  An endpoint that asks for several queries   *)
(* sends them at the same time and waits for all (a WaitGroup), or one     *)
(* after another; nothing holds the tables still between them.  The        *)
(* endpoints of one query are operators of DoBoard and FoBoard: they see   *)
(* the tables of one moment, and the properties compare them before a      *)
(* request comes.                                                          *)
(***************************************************************************)
EXTENDS AiTools

CONSTANTS
    Ops,        \* bound: the endpoints asked
    Tools,      \* bound: the tools called, besides get_detail
    MaxRate,    \* the rate of an anomalous vehicle, in tenths of a percent
    MaxLate,    \* bound: writes to the tables while a request is answered
    Starts,     \* bound: what the status table holds at first
    FomAnswers, FfmAnswers  \* bound: what the two services answer

ASSUME RequestAssumption ==
    /\ Ops \subseteq {"overview", "do_funnel", "funnel", "trend", "quality", "top", "anomaly",
                     "list", "running_overview", "running_trend"}
    /\ Tools \subseteq DOMAIN Endpoint /\ MaxLate \in Nat
    /\ \A s \in Starts : DOMAIN s \subseteq Uuids /\ Range(s) \subseteq AllOutcomes

VARIABLES
    op,      \* the endpoint asked
    ask,     \* its request as the use case passes it on
    got,     \* what its queries have found so far
    late,    \* the tables written since it was asked
    reply    \* "none" before, "open" while, then what the handler answers

vars == <<tables, op, ask, got, late, reply>>

\* The queries of an endpoint: those of a set are sent at the same time, the sets in
\* order.
Plan(o, a) ==
    CASE o = "overview" -> <<{"counts", "vehicles"}>>
      [] o \in {"do_funnel", "funnel"} -> <<{"stat", "fff", "fdr", "fcl"}>>
      [] o = "trend" -> IF a.f.filter # None THEN <<{"detail"}>>
                        ELSE <<{"over", "reason", "fdr", "fcl"}>>
      [] o = "quality" -> <<{"summary"}, {"dumped"}>>
      [] o = "tool_overview" -> <<{"fff"}, {"summary"}, {"dumped"}, {"uploads"}>>
      [] o \in {"top", "anomaly"} -> <<{"rates"}, {"reasons"}>>
      [] o = "list" -> IF a.list = "running" THEN <<{"names"}, {"count", "page"}>>
                       ELSE <<{"count", "page"}>>
      [] o \in {"running_overview", "running_trend"} -> <<{"names"}, {"beats"}>>

Due ==
    IF reply # "open" THEN {}
    ELSE LET next == SelectInSeq(Plan(op, ask), LAMBDA queries : ~(queries \subseteq DOMAIN got))
         IN  IF next = 0 THEN {} ELSE Plan(op, ask)[next] \ DOMAIN got

\* The names of filters found for a request, if it has any
NamesGot == IF "names" \in DOMAIN got THEN got.names ELSE {}

\* What a query may find in the tables as they are
Found(q) ==
    LET f == ask.f
    IN  CASE op = "overview" -> {IF q = "counts" THEN OverviewCounts(f) ELSE OverviewVehicles(f)}
          [] op = "do_funnel" -> IF q = "stat" THEN {DoFunnelStat(f)} ELSE DoFunnelReasons(f, q)
          [] op = "funnel" -> IF q = "stat" THEN {FunnelStat(f)} ELSE FunnelReasons(f, q)
          [] op = "trend" -> {CASE q = "detail" -> FilterTrend(f)
                                [] q = "over" -> TrendCounts(f, "fff")
                                [] q = "reason" -> TrendReasons(f)
                                [] OTHER -> TrendCounts(f, q)}
          [] op \in {"quality", "tool_overview"} -> {CASE q = "fff" -> FffOverview(f)
                                                      [] q = "summary" -> QualitySummary(f)
                                                      [] q = "dumped" -> QualityAds(f)
                                                      [] q = "uploads" -> FclUploads(f)}
          [] op = "top" -> IF q = "rates" THEN TopRates(f)
                           ELSE VehicleReasons(f, got.rates, SpareOfTop)
          [] op = "anomaly" -> IF q = "rates" THEN AnomalyRates(f, MaxRate)
                               ELSE VehicleReasons(f, got.rates, SpareOfAnomaly)
          [] op = "list" -> LET rows == ListRows(ask, NamesGot)
                            IN  IF q = "count" THEN {Cardinality(rows)} ELSE PagesOf(rows, ask)
          [] op = "running_overview" -> {RunningOverview(f, NamesGot)}
          [] op = "running_trend" -> {RunningTrend(f, NamesGot)}

-----------------------------------------------------------------------------
\* The copies are up to date, or miss the last day.
Init ==
    /\ status \in Starts
    /\ ads \in {Restrict(status, Loadable), Restrict(status, {u \in Loadable : Day(u) # Today})}
    /\ cube = ads
    /\ op = "none" /\ ask = <<>> /\ got = <<>> /\ late = <<>> /\ reply = "none"

\* A request for an endpoint, and for a list: refused for its dates, or passed on.
\* A trend of running filters needs a filter and dates.
Ask(o, f) ==
    LET passed == NormalizeDates(f)
        missing == o = "running_trend" /\ (f.filter = None \/ f.start = NoDay)
    IN  /\ reply = "none"
        /\ op' = o
        /\ IF passed = <<>> \/ missing THEN reply' = "invalid" /\ UNCHANGED ask
           ELSE reply' = "open" /\ ask' = [f |-> passed[1]]
        /\ UNCHANGED <<tables, got, late>>

\* A tool asks in place of a page: what a page is told, the model is told as an error.
AskTool(tool, f) == Ask(Endpoint[tool], ToolAsk(tool, f))

AskList(r) ==
    LET passed == NormalizeList(r)
    IN  /\ reply = "none"
        /\ op' = "list"
        /\ IF passed = <<>>
           THEN reply' = (IF TooLong(r.f) THEN "internal" ELSE "invalid") /\ UNCHANGED ask
           ELSE reply' = "open" /\ ask' = passed[1]
        /\ UNCHANGED <<tables, got, late>>

AskDetail(r) == AskList(ToolDetail(r))

\* What was found so far, and more
With(more) ==
    [q \in DOMAIN got \cup DOMAIN more |-> IF q \in DOMAIN got THEN got[q] ELSE more[q]]

Put(q, found) ==
    /\ got' = With([p \in {q} |-> found])
    /\ UNCHANGED <<tables, op, ask, late>>

\* A query is answered.
Query(q) ==
    /\ q \in Due \ {"names"}
    /\ \E found \in Found(q) : Put(q, found)
    /\ UNCHANGED reply

\* A query fails: the error of any is the error of all, but that of the reasons of
\* vehicles is forgotten, and the overview of a tool does without the quality that
\* could not be found.
Forgotten(q) ==
    CASE q = "reasons" -> {q}
      [] op = "tool_overview" /\ q # "fff" -> IF q = "summary" THEN {q, "dumped"} ELSE {q}
      [] OTHER -> {}

QueryFails(q) ==
    /\ q \in Due
    /\ IF Forgotten(q) # {}
       THEN got' = With([p \in Forgotten(q) \cup {"lost"} |-> <<>>]) /\ UNCHANGED reply
       ELSE reply' = "internal" /\ UNCHANGED got
    /\ UNCHANGED <<tables, op, ask, late>>

\* The events whose filters are to be found: a trend names one in place of its filter.
Unresolved == IF op = "running_trend" THEN {ask.f.filter} ELSE ask.f.events \ {All}

\* resolveRunningEventNames, and the same in GetFffRunningTrend, where an event
\* without filters has no trend.
FindNames ==
    /\ "names" \in Due
    /\ \E fom \in [Unresolved -> FomAnswers], ffm \in [Unresolved -> FfmAnswers] :
          LET of(e) == Resolve(fom[e], ffm[e])
              names == UNION {IF op = "running_trend" THEN of(e)[1] ELSE NamesForEvent(e, of(e)[1]) :
                                 e \in Unresolved}
              failed == \E e \in Unresolved : of(e) = <<>>
          IN  /\ got' = With(IF failed THEN [answers |-> <<fom, ffm>>]
                             ELSE [answers |-> <<fom, ffm>>,
                                   names |-> names \cup (ask.f.events \cap {All})])
              /\ reply' = IF failed THEN "internal" ELSE IF op = "running_trend" /\ names = {} THEN "ok" ELSE reply
    /\ UNCHANGED <<tables, op, ask, late>>

\* The handler answers with what was found.
Answered ==
    /\ reply = "open" /\ Due = {}
    /\ reply' = "ok"
    /\ UNCHANGED <<tables, op, ask, got, late>>

\* The other programs, and the load of the aggregates, while a request is answered
Write ==
    /\ reply = "open" /\ Len(late) < MaxLate
    /\ \/ \E u \in Uuids, o \in Outcomes : Report(u, o) /\ late' = Append(late, "status")
       \/ \E day \in Values("day") : (DeleteDay(day) \/ InsertDay(day)) /\ late' = Append(late, "ads")
       \/ LoadCube /\ late' = Append(late, "cube")
    /\ UNCHANGED <<op, ask, got, reply>>

Next ==
    \/ \E o \in Ops \ {"list"}, f \in Asked : Ask(o, f)
    \/ \E tool \in Tools, f \in Asked : AskTool(tool, f)
    \/ "list" \in Ops /\ \E r \in AskedLists : AskList(r) \/ AskDetail(r)
    \/ \E q \in Due : Query(q) \/ QueryFails(q)
    \/ FindNames \/ Answered \/ Write

Spec == Init /\ [][Next]_vars

-----------------------------------------------------------------------------
(* Properties                                                              *)

AnswerOf(o) == op = o /\ reply = "ok"
HasQuality == AnswerOf("quality") \/ (AnswerOf("tool_overview") /\ "lost" \notin DOMAIN got)
Unwritten(table) == table \notin Range(late)
Fails == [stage \in StageLists |-> got[stage]]

\* The copies of the daily table and of the summaries are what the status table says
\* of the dates of a request.
OfDates(f, rows) == {u \in rows : InDates(f, Day(u))}
SameOn(a, b, f) ==
    /\ OfDates(f, DOMAIN a) = OfDates(f, DOMAIN b)
    /\ \A u \in OfDates(f, DOMAIN a) : a[u] = b[u]
Fresh(table, f) == SameOn(table, Restrict(status, Loadable), f)

\* A list of a LIMIT that is not filled is complete: then it sums to n, else to less.
SumsTo(top, limit, n) ==
    IF Cardinality(DOMAIN top) < limit THEN Total(top) = n ELSE Total(top) <= n

\* The numbers of a funnel fit together although four queries found them, as long as
\* no load of the daily table comes between (the others do no harm): what was
\* triggered is allowed or failed, what was allowed is dumped or failed (or under
\* way), what was dumped is uploaded or failed, each list of reasons sums to the
\* failures it explains (GetFunnel, GetDoFunnel), and no rate is above 100 %.
FunnelAddsUp ==
    /\ AnswerOf("funnel") /\ Unwritten("ads") =>
        LET s == got.stat
        IN  /\ SumsTo(got.fff, MaxReasons, s.total - s.allow)
            /\ SumsTo(got.fdr, MaxReasons, s.fdrFail) /\ SumsTo(got.fcl, MaxReasons, s.fclFail)
            /\ s.fdrSuccess + s.fdrFail <= s.allow /\ s.fdrSuccess = s.fclSuccess + s.fclFail
            /\ Funnel(s, Fails).rate <= 1000
    /\ AnswerOf("do_funnel") /\ Unwritten("ads") =>
        LET s == got.stat
        IN  /\ SumsTo(got.fdr, MaxReasons, s.fdrFail) /\ SumsTo(got.fcl, MaxReasons, s.fclFail)
            /\ s.fclSuccess <= s.fdrSuccess /\ s.fdrSuccess <= s.allow /\ s.allow <= s.total
            /\ s.fclSuccess + s.fclFail <= s.total
            /\ DoFunnel(s, Fails).rate <= 1000

\* Before a request: the tables of one moment, and each request that may come
AtRest(Holds(_)) == reply = "none" => \A f \in Accepted : Holds(f)

\* The summaries hold each event at several grains and once more under "__ALL__":
\* each endpoint counts an event once (buildAggEventCondition and its users), with
\* the filter where the grain knows one, and FFF's filters are told apart.
CountsOnce ==
    AtRest(LAMBDA f :
        LET rows == {u \in RowsOf(cube) : InDates(f, Day(u)) /\ OneOf(f.events, Event(u)) /\ OfPlace(f, Ident[u])}
            filtered == {u \in rows : OrAny(f.filter, Filter(u))}
            is(set, stage, s) == Cardinality({u \in set : cube[u][stage] = s})
            named == {u \in rows : cube[u].why # ""}
            overview == FffOverview(f)
            trend(stage) == LET c == TrendCounts(f, stage)
                            IN  Total([d \in DOMAIN c |-> c[d].success + c[d].failed])
            ended(stage) == is(rows, stage, "success") + is(rows, stage, "discard")
        IN  /\ overview.success = is(filtered, "fff", "success")
            /\ overview.failed = is(filtered, "fff", "discard")
            /\ overview.total = overview.success + overview.failed
            /\ \A stage \in StageLists : trend(stage) = ended(stage)
            /\ Total(FffFailReason(f)) = is(named, "fff", "discard")
            /\ Total(DoFailReason(f)) = is(named, "fdr", "discard") + is(named, "fcl", "discard")
            /\ QualitySummary(f).fdrSuccess = is(rows, "fdr", "success")
            /\ FclUploads(f) = is(rows, "fcl", "success"))

\* The endpoints that read the daily table tell one story: event comparison, trends,
\* matrix and both funnels have the same total; the FO funnel, event comparison and
\* trends the same uploads; and the top lists sum to what the FO funnel says of their
\* reason.  The DO funnel has other conditions for passed, dumped and uploaded: of it only
\* the total is here, although the API document calls the two funnels the same.
BoardsAgree ==
    AtRest(LAMBDA f :
        LET stat == FunnelStat(f)  any == [f EXCEPT !.filter = None]
            overview == OverviewCounts(f)  trend == DoTrend(f)  stages == FilterTrend(f)
            sum(Number(_), set) == Total([x \in set |-> Number(x)])
            reasons(stage, name) == {At(r, AdsNames[stage][name], 0) : r \in FunnelReasons(any, stage)}
        IN  /\ stat.total = DoFunnelStat(f).total
            /\ stat.total = sum(LAMBDA e : overview[e].trigger, DOMAIN overview)
            /\ stat.total = sum(LAMBDA d : trend[d].total, DOMAIN trend)
            /\ stat.total = Total(ProjectCar(f).totals)
            /\ \A rank \in TriggerRanks(f) : SumsTo(rank, MaxRank, FunnelStat(any).total)
            /\ \A version \in SwVersions(f) : SumsTo(version, MaxTop, stat.total)
            /\ stat.fclSuccess = sum(LAMBDA e : overview[e].fcl, DOMAIN overview)
            /\ stat.fclSuccess = sum(LAMBDA d : trend[d].success, DOMAIN trend)
            /\ stat.fclSuccess = sum(LAMBDA d : stages[d].fcl["success"], DOMAIN stages)
            /\ stat.fdrFail = sum(LAMBDA d : Total(stages[d].fdr) - stages[d].fdr["success"], DOMAIN stages)
            /\ \A n \in reasons("fff", "cooldown"), top \in CoolTops(f) : n > 0 => SumsTo(top, MaxTop, n)
            /\ \A n \in reasons("fdr", "gc"), top \in MemTops(f) : n > 0 => SumsTo(top, MaxTop, n)
            /\ \A n \in reasons("fdr", "files"), top \in DiskTops(f) : n > 0 => SumsTo(top, MaxTop, n)
            /\ \A n \in reasons("fcl", "quota"), top \in QuotaTops(f) : n > 0 => SumsTo(top, MaxTop, n))

\* The series of a stage trend lose nothing: on each date FFF's sum to at least what
\* its overview counts, whatever is loaded between the queries, and to no more when
\* nothing is, although the reasons come from another grain and under other names
\* (assembleFffStageVals); over all dates they then sum to the overview of FFF.
\* With a filter, each stage's series divide what reached it.
TrendAddsUp ==
    AnswerOf("trend") =>
        IF ask.f.filter = None
        THEN LET trend == StageTrend(ask.f, got)
                 sums == Derived(trend, "fff")
                 counted(d) == LET c == At(got.over, d, NoCounts) IN c.success + c.failed
             IN  /\ \A d \in DOMAIN trend : sums.daily[d] >= counted(d)
                 /\ Unwritten("cube") => /\ \A d \in DOMAIN trend : sums.daily[d] = counted(d)
                                         /\ sums.grand = FffOverview(ask.f).total
        ELSE \A d \in DOMAIN got.detail :
                LET c == got.detail[d]
                IN  /\ Unwritten("ads") => Total(c.fff) = Cardinality({u \in Ads(ask.f) : Day(u) = d})
                    /\ Total(c.fdr) <= c.fff["success"]
                    /\ Total(c.fcl) = c.fdr["success"]

\* "Exactly the numbers of the funnel" (the comment of GetFdrQuality): of copies that
\* are up to date, the quality of dumps has the total and the successes of the FO
\* funnel, though it takes the total from other tables; and the overview of a tool,
\* which asks for it, has the triggers and the passes of the funnel.  Three cases are
\* excluded where the code disagrees with its comment: a trigger FFF has not reported, a normal
\* discard that is uploaded nevertheless, and a trigger that FFF discards though its data
\* were dumped or uploaded, which the fallback of FdrQuality and the uploads count.
QualityMeetsFunnel ==
    HasQuality /\ late = <<>> /\ Fresh(ads, ask.f) /\ Fresh(cube, ask.f) =>
        LET f == [ask.f EXCEPT !.filter = None]
            usual == \A u \in Ads(f) : /\ ads[u].fff # "null"
                                       /\ ads[u].fff = "discard" => "success" \notin {ads[u].fdr, ads[u].fcl}
                                       /\ AdsTag("fdr", ads[u]) \in NormalDiscards => FdrStageFailed(ads[u])
            quality == FdrQuality(got.summary, got.dumped)
            stat == FunnelStat(f)
        IN  usual => /\ \A fdr \in FunnelReasons(f, "fdr") :
                           Cardinality(DOMAIN fdr) < MaxReasons =>
                               /\ quality.total = DumpsDue(stat, [fdr |-> fdr])
                               /\ quality.success = stat.fdrSuccess
                     /\ op = "tool_overview" =>
                           /\ got.fff.total = stat.total /\ got.fff.success = stat.allow
                           /\ got.uploads <= stat.fclSuccess

\* Each vehicle of a list that has a discarded stage comes with a reason, unless the
\* query of the reasons failed or a stage reported between (vehicleFailReasons).
ListHasReasons ==
    Unwritten("status") /\ "lost" \notin DOMAIN got =>
        LET list == VehicleList(got.rates, got.reasons)
        IN  \A g \in DOMAIN list, u \in VehicleRows(ask.f) :
                Vehicle(u) = g[1] /\ (\E s \in StageLists : status[u][s] = "discard") =>
                    list[g].reason # <<>>
TopReasons == AnswerOf("top") => ListHasReasons

\* What the API description says of the anomalous vehicles: their reasons are found in
\* the same way as those of the top vehicles.  They never are.
AnomalyReasons == AnswerOf("anomaly") => ListHasReasons

\* A page of details, found while no stage reports, has as many rows as its number and
\* the total say; and the rows whose stage discarded are as many as the reasons
\* of the DO funnel for the same dates, when its copy is up to date.
DetailsMeetBoard ==
    AnswerOf("list") /\ Unwritten("status") =>
        /\ Cardinality(got.page) = Max({0, Min({ask.size, got.count - (ask.page - 1) * ask.size})})
        /\ (/\ ask.list = "uuid" /\ ask.stage # <<>> /\ ask.stage[2] = "discard" /\ ~ask.onlyFail
            /\ ask.also = {} /\ ask.vehicles = {} /\ ask.f.start # NoDay /\ Fresh(ads, ask.f))
           => \A top \in DoFunnelReasons(ask.f, ask.stage[1]) :
                SumsTo(top, MaxReasons, Cardinality({u \in UuidRows(ask) : Event(u) # Forever}))

\* What the description of get_detail says of a call that names no dates: it means some
\* default range of dates, and to name events or vehicles is enough.  It is always
\* refused, since the default range is longer than a range of details may be.
DetailNeedsNoDates ==
    [][\A r \in AskedLists :
          AskDetail(r) /\ {r.f.start, r.f.end} = {NoDay} /\ r.f.events \cup r.vehicles # {} =>
              reply' = "open"]_vars

\* A service that is down is never shown as filters that do not run: a request for
\* running filters that succeeds found names for each event in FOM or FFM, or every
\* service that is configured said there are none (ResolveRunningFilterNames).
ErrorsSurface ==
    "answers" \in DOMAIN got /\ reply # "internal" =>
        \A e \in Unresolved :
            LET fom == got.answers[1][e]  ffm == got.answers[2][e]
            IN  fom.names # {} \/ ffm.names # {} \/ "down" \notin {fom.state, ffm.state}
=============================================================================
