------------------------------- MODULE DoBoard -------------------------------
(***************************************************************************)
(* The queries of the DO dashboard (internal/data/dashboard_do.go): what   *)
(* each finds in the tables at one moment, and what an endpoint makes of   *)
(* the answers.  Which endpoint asks for several of them, at the same time *)
(* or one after another, is in Board.  A list of LIMIT n is the set of all *)
(* lists the database may answer with; the order within a list is left     *)
(* out, and so are averages and percentiles of sizes and times: of a part  *)
(* of the cube only whether it is counted.                                 *)
(* f is a request with accepted dates.                                     *)
(***************************************************************************)
EXTENDS BoardTables

Day(u) == Ident[u].day
Event(u) == Ident[u].event
Filter(u) == Ident[u].filter
Place(u) == <<Ident[u].project, Ident[u].car>>
AdsWhere(rows, Counted(_)) == {u \in rows : Counted(ads[u])}
AdsCount(rows, Counted(_)) == Cardinality(AdsWhere(rows, Counted))

-----------------------------------------------------------------------------
(* Event comparison and trend                                              *)

StagesOf(rows) ==
    [trigger |-> Cardinality(rows), fff |-> AdsCount(rows, Passed),
     fdr |-> AdsCount(rows, Dumped), fcl |-> AdsCount(rows, Uploaded)]

OverviewCounts(f) ==
    [e \in {Event(u) : u \in Ads(f)} |-> StagesOf({u \in Ads(f) : Event(u) = e})]

OverviewVehicles(f) ==
    LET rows == {u \in RowsOf(status) : DoCommon(f, u)}
    IN  [e \in {Event(u) : u \in rows} |->
            Cardinality({Ident[u].vehicle : u \in {r \in rows : Event(r) = e}})]

\* GetOverview: the rows of the daily table, with the vehicles of the status table.
Overview(counts, vehicles) ==
    [e \in DOMAIN counts |->
        LET c == counts[e]
        IN  [vehicles |-> IF e \in DOMAIN vehicles THEN vehicles[e] ELSE 0,
             counts |-> c, cfdiRate |-> Pct(c.fcl, c.trigger), fffRate |-> Pct(c.fff, c.trigger),
             fdrRate |-> Pct(c.fdr, c.fff), fclRate |-> Pct(c.fcl, c.fdr)]]

DoTrend(f) ==
    [d \in {Day(u) : u \in Ads(f)} |->
        LET c == StagesOf({u \in Ads(f) : Day(u) = d})
        IN  [total |-> c.trigger, success |-> c.fcl, rate |-> Pct(c.fcl, c.trigger)]]

-----------------------------------------------------------------------------
(* Reasons and top lists                                                   *)

\* The reason grain of a stage's summary, by its names; without a name there is no
\* reason.
WithReason(stage, parts) == {p \in parts : CubeTag(stage, cube[p.u]) # ""}
CubeReasons(stage, parts) == CountBy(WithReason(stage, parts), LAMBDA p : CubeTag(stage, cube[p.u]))

\* GetFailReason: the reasons of FDR and of FCL in one list, whatever the filter
DoFailReason(f) ==
    LET parts == AggCommon("reason", [f EXCEPT !.filter = None])
        of == [stage \in {"fdr", "fcl"} |-> CubeReasons(stage, parts)]
    IN  [r \in UNION {{stage} \X DOMAIN of[stage] : stage \in {"fdr", "fcl"}} |-> of[r[1]][r[2]]]

\* GetCoolTop
CoolTops(f) ==
    LET cooled(o) == o.fff # "success" /\ AdsTag("fff", o) = AdsNames.fff.cooldown
    IN  Tops(CountBy(AdsWhere(AdsOfAnyFilter(f), cooled), Filter), MaxTop)

\* GetTriggerRank
TriggerRanks(f) == Tops(CountBy(AdsOfAnyFilter(f), Filter), MaxRank)

\* GetSwVersion
SwVersions(f) == Tops(CountBy(Ads(f), LAMBDA u : Ident[u].version), MaxTop)

\* GetProjectCar: a matrix of cars and projects with zeros, and its column totals
ProjectCar(f) ==
    LET count == CountBy(Ads(f), Place)
        projects == {place[1] : place \in DOMAIN count}
        cars == {place[2] : place \in DOMAIN count}
        of(p, c) == IF <<p, c>> \in DOMAIN count THEN count[<<p, c>>] ELSE 0
    IN  [matrix |-> [c \in cars |-> [p \in projects |-> of(p, c)]],
         totals |-> [p \in projects |-> Total([c \in cars |-> of(p, c)])]]

TopEventsOf(f, Counted(_)) == Tops(CountBy(AdsWhere(AdsOfAnyFilter(f), Counted), Event), MaxTop)

\* GetMemTop: the water line of the memory pool is left out.
MemTops(f) ==
    TopEventsOf(f, LAMBDA o : FdrStageFailed(o) /\ AdsTag("fdr", o) = AdsNames.fdr.gc)

\* GetDiskTop: a disk that is overrun is left out.
DiskTops(f) ==
    TopEventsOf(f, LAMBDA o : FdrStageFailed(o) /\ AdsTag("fdr", o) = AdsNames.fdr.files)

\* GetQuotaTop
QuotaTops(f) ==
    TopEventsOf(f, LAMBDA o : UploadFailed(o) /\ AdsTag("fcl", o) = AdsNames.fcl.quota)

\* GetCloseTop: the table of closes has no events.
CloseTops(f) ==
    Tops(CountBy({c \in Closes : InDates(f, c.day) /\ OrAny(f.filter, c.filter) /\ OfPlace(f, c)},
                 LAMBDA c : c.filter), MaxTop)

\* GetProjectEvent
ProjectEvents(f) ==
    LET uploaded == AdsWhere(Ads(f), Uploaded)
    IN  [p \in {Ident[u].project : u \in uploaded} |->
            Cardinality({Event(u) : u \in {r \in uploaded : Ident[r].project = p}})]

-----------------------------------------------------------------------------
(* Sizes and speeds: which parts they are taken of                         *)

\* buildFclUploadWhere and the grain; an upload that succeeded has a speed.
UploadParts(f) ==
    {p \in Parts("overview") : /\ EventOf(p) = All /\ InDates(f, Day(p.u)) /\ OfPlace(f, Ident[p.u])
                               /\ cube[p.u].fcl = "success"}

\* GetNetSpeed: for each car and date the parts of the average
NetSpeed(f) ==
    LET parts == UploadParts(f)  dates == {Day(p.u) : p \in parts}
    IN  [c \in {Ident[p.u].car : p \in parts} |->
            [d \in dates |-> {p \in parts : Day(p.u) = d /\ Ident[p.u].car = c}]]

\* GetFclBw
FclBw(f) ==
    [d \in {Day(p.u) : p \in UploadParts(f)} |-> {p \in UploadParts(f) : Day(p.u) = d}]

\* GetFclQuality: the uploads, which are also the parts of the sizes
FclUploads(f) == SumWhere(SummaryCommon("overview", f), LAMBDA o : o.fcl = "success")

\* GetFdrFragment asks for the row of all events besides the events asked for.
FdrFragments(f) ==
    {p \in Parts("overview") : /\ InDates(f, Day(p.u)) /\ OneOf(f.events, EventOf(p))
                               /\ EventOf(p) = All /\ OfPlace(f, Ident[p.u])}

-----------------------------------------------------------------------------
(* Vehicles, in the status table: what NULL is compared with is not true.  *)

Is(s, v) == s = v
Isnt(s, v) == s \notin {"null", v}
Vehicle(u) == Ident[u].vehicle
VehicleRows(f) == {u \in RowsOf(status) : OfVehicles(f, u)}
Group(u) == <<Vehicle(u), Ident[u].car, Ident[u].project>>

\* Triggers, uploads and rate of each vehicle, car type and project
VehicleRates(f) ==
    [g \in {Group(u) : u \in VehicleRows(f)} |->
        LET rows == {u \in VehicleRows(f) : Group(u) = g}
            uploads == Cardinality({u \in rows : Is(status[u].fcl, "success")})
        IN  [trigger |-> Cardinality(rows), success |-> uploads,
             rate |-> Pct(uploads, Cardinality(rows))]]

\* GetTopVehicles: the most triggers come first.
TopRates(f) ==
    LET rates == VehicleRates(f)  triggers == [g \in DOMAIN rates |-> rates[g].trigger]
    IN  {Restrict(rates, DOMAIN top) : top \in Tops(triggers, MaxTop)}

\* GetAnomalyVehicles: of those below a rate, the lowest rates come first.
AnomalyRates(f, maxRate) ==
    LET rates == VehicleRates(f)
        low == {g \in DOMAIN rates : rates[g].rate < maxRate}
    IN  {Restrict(rates, DOMAIN top) : top \in Tops([g \in low |-> -rates[g].rate], MaxAnomalies)}

ReasonOf(o) ==
    LET stage == IF Isnt(o.fcl, "success") /\ Is(o.fdr, "success") /\ Is(o.fff, "success") THEN "fcl"
                 ELSE IF Isnt(o.fdr, "success") /\ Is(o.fff, "success") THEN "fdr" ELSE "fff"
    IN  <<stage, IF o[stage] = "discard" THEN o.why ELSE "">>

\* vehicleFailReasons: of each vehicle of a list, the reason most of its rows have.
\* spare is the number of arguments that are left over when each placeholder has
\* got its own: the driver refuses such a call, and the error is not passed on.
VehicleReasons(f, rates, spare) ==
    LET vehicles == {g[1] : g \in DOMAIN rates}
        failed == {u \in VehicleRows(f) : /\ Vehicle(u) \in vehicles
                                          /\ \E s \in {"fff", "fdr", "fcl"} : Isnt(status[u][s], "success")}
        of(v) == CountBy({u \in failed : Vehicle(u) = v}, LAMBDA u : ReasonOf(status[u]))
        most(v) == {r \in DOMAIN of(v) : \A q \in DOMAIN of(v) : of(v)[r] >= of(v)[q]}
        named == {Vehicle(u) : u \in failed}
    IN  IF spare > 0 \/ vehicles = {} THEN {<<>>}
        ELSE {r \in [named -> UNION {most(v) : v \in named}] : \A v \in named : r[v] \in most(v)}

\* Mutant of SpareOfTop: it has a limit of rates too.
SpareOfTopRate == 1

\* The arguments a caller passes besides those of buildVehicleWhere: GetTopVehicles
\* none, GetAnomalyVehicles the rate of its own query.
SpareOfTop == 0
SpareOfAnomaly == 1

\* The list of either
VehicleList(rates, reasons) ==
    [g \in DOMAIN rates |->
        [rates |-> rates[g], reason |-> IF g[1] \in DOMAIN reasons THEN reasons[g[1]] ELSE <<>>]]

\* GetActiveTrend
ActiveTrend(f) ==
    [d \in {Day(u) : u \in VehicleRows(f)} |->
        Cardinality({Vehicle(u) : u \in {r \in VehicleRows(f) : Day(r) = d}})]

-----------------------------------------------------------------------------
(* Funnel and quality                                                      *)

DoFunnelStat(f) ==
    LET of(Counted(_)) == AdsCount(Ads(f), Counted)
    IN  [total |-> Cardinality(Ads(f)),
         allow |-> of(LAMBDA o : "success" \in {o.fff, o.fdr, o.fcl}),
         fdrSuccess |-> of(LAMBDA o : "success" \in {o.fdr, o.fcl}),
         fdrFail |-> of(LAMBDA o : o.fdr = "discard"),
         fclSuccess |-> of(LAMBDA o : o.fcl = "success"),
         fclFail |-> of(LAMBDA o : o.fcl = "discard")]

\* The most frequent reasons of the rows that a funnel counts as failed at a stage
Reasons(f, stage, Failed(_)) ==
    Tops(CountBy(AdsWhere(Ads(f), Failed), LAMBDA u : AdsTag(stage, ads[u])), MaxReasons)

DoFunnelReasons(f, stage) == Reasons(f, stage, LAMBDA o : o[stage] = "discard")

DoFunnel(stat, fails) ==
    [stat |-> stat, rate |-> Pct(stat.fclSuccess, stat.total), fails |-> fails]

\* fdrNormalDiscardTags, in the names of the summaries
CubeNormalDiscards == {"event_not_recognized", "max_files_exceeded", "unauthorized"}

\* Mutant of QualitySummary: normal discards are looked for by the names of the
\* daily table.
QualitySummaryAds(f) ==
    [fdrSuccess |-> SumWhere(SummaryCommon("overview", f), LAMBDA o : o.fdr = "success"),
     total |-> SumWhere(SummaryCommon("overview", f), LAMBDA o : o.fff = "success")
               - SumWhere(SummaryCommon("reason", f),
                          LAMBDA o : CubeTag("fdr", o) \in {"Exceeds the maximum number of files"})]

\* GetFdrQuality, the query of the summaries
QualitySummary(f) ==
    [fdrSuccess |-> SumWhere(SummaryCommon("overview", f), LAMBDA o : o.fdr = "success"),
     total |-> SumWhere(SummaryCommon("overview", f), LAMBDA o : o.fff = "success")
               - SumWhere(SummaryCommon("reason", f),
                          LAMBDA o : CubeTag("fdr", o) \in CubeNormalDiscards)]

\* GetFdrQuality, the query of the daily table that follows
QualityAds(f) == AdsCount(AdsOfAnyFilter(f), Dumped)

\* Dumps the daily table knows nothing of are taken from the summaries.
FdrQuality(summary, dumped) ==
    [total |-> summary.total,
     success |-> IF dumped = 0 /\ summary.fdrSuccess > 0 THEN summary.fdrSuccess ELSE dumped]
=============================================================================
