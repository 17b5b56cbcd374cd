------------------------------- MODULE AiTools -------------------------------
(***************************************************************************)
(* The tools of the AI chat that ask the dashboards                        *)
(* (internal/biz/ai_tools.go): what a tool makes of the arguments of the   *)
(* model, which endpoint it calls, and what it computes from a trend.  A   *)
(* tool calls the use case itself; its error is the result of the call.    *)
(* Tools of one query (reasons, top lists, matrices, speeds) call the      *)
(* operators of DoBoard and FoBoard and cut their list to its first        *)
(* entries; the dictionary and the texts of notes are left out.            *)
(***************************************************************************)
EXTENDS FoDetail

CONSTANTS
    ToolDays,             \* a call without dates means so many days
    ToolSize, MaxToolSize \* the limit of get_detail: its default and its maximum

ASSUME ToolAssumption ==
    /\ ToolDays \in 1 .. MaxSpan + 1
    /\ {ToolSize, MaxToolSize} \subseteq Nat \ {0} /\ ToolSize <= MaxToolSize

\* The endpoint behind each tool, by execStageQuery.  get_trend and
\* get_overview_events are registered with the kinds of get_stage_trend and
\* get_overview; the cases written for them ("trend_multi", "overview_events") are
\* never reached.
Endpoint ==
    [get_stage_trend |-> "trend", get_trend |-> "trend",
     get_overview |-> "tool_overview", get_overview_events |-> "tool_overview",
     get_funnel |-> "funnel", get_quality |-> "quality", get_top_vehicles |-> "top",
     get_anomaly_vehicles |-> "anomaly", get_running_overview |-> "running_overview",
     get_running_trend |-> "running_trend"]

\* defaultDateRange: both dates or neither; an odd one is passed on.
ToolDates(f) ==
    IF NoDay \in {f.start, f.end} THEN [f EXCEPT !.start = Today - ToolDays + 1, !.end = Today] ELSE f

\* The request of a tool: only a trend of running filters has a filter, and it has no
\* events.
ToolAsk(tool, f) ==
    IF tool = "get_running_trend" THEN [ToolDates(f) EXCEPT !.events = {}]
    ELSE [ToolDates(f) EXCEPT !.filter = None]

\* argLimit
ToolLimit(n) == Min({IF n > 0 THEN n ELSE ToolSize, MaxToolSize})

\* What get_detail passes on of the further conditions, by the list it asks for
ToolColumns(list) ==
    CASE list = "uuid" -> {"uuid", "fff", "fdr", "fcl"}
      [] list \in StageLists -> {"uuid", "status"}
      [] OTHER -> {}

\* get_detail: a first page of one of the six lists
ToolDetail(r) ==
    [r EXCEPT !.f = [ToolDates(r.f) EXCEPT !.filter = None, !.events = IF r.list = "close" THEN {} ELSE @],
              !.event = {}, !.car = {}, !.vehicle = {}, !.stage = <<>>, !.onlyFail = FALSE,
              !.also = {c \in @ : c[1] \in ToolColumns(r.list)},
              !.page = 1, !.size = ToolLimit(@)]

\* buildTrendDerived: the sums of the series, by date and by name, and of all
Derived(trend, stage) ==
    LET names == UNION {DOMAIN trend[d][stage] : d \in DOMAIN trend}
        totals == [n \in names |-> Total([d \in DOMAIN trend |-> trend[d][stage][n]])]
    IN  [daily |-> [d \in DOMAIN trend |-> Total(trend[d][stage])],
         totals |-> totals, grand |-> Total(totals)]
=============================================================================
