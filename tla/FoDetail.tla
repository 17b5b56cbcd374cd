------------------------------ MODULE FoDetail ------------------------------
(***************************************************************************)
(* The six lists of the FO dashboard (the List functions of                *)
(* internal/data/dashboard_fo.go) and what the use case makes of their     *)
(* parameters (internal/biz/use_dashboard_fo.go): which rows a list is     *)
(* taken from and which pages of them the database may answer with.        *)
(* The lists of the stages are read from tables of their own, which the    *)
(* same reports fill as the status table: a row of theirs is a uuid whose  *)
(* stage has reported.  A condition on a column that says nothing of the   *)
(* life of a row (trigger type, tags, versions, the switch) is another     *)
(* pair of "also".                                                         *)
(***************************************************************************)
EXTENDS FoBoard

CONSTANTS
    DefaultSize, MaxSize,  \* defaultPageSize and maxPageSize
    DetailSpan,            \* the days of a range of details
    AskedLists             \* bound: the requests for a list, see ListRequests

StageLists == {"fff", "fdr", "fcl"}
Lists == StageLists \cup {"uuid", "close", "running"}

\* A request: conditions, the singular forms of some of them (events and cars of one
\* name, vehicles), further columns, a stage and its status or <<>>, and a page.
ListRequests ==
    [list : Lists, f : Conditions, event : SUBSET Values("event"), car : SUBSET Values("car"),
     vehicles : SUBSET Values("vehicle"), vehicle : SUBSET Values("vehicle"),
     also : SUBSET ({"uuid", "status", "detail", "fff", "fdr", "fcl"} \X
                    (Uuids \cup Whys \cup {"success", "discard"})),
     stage : {<<>>} \cup (StageLists \X {"success", "discard"}), onlyFail : BOOLEAN,
     page : Int, size : Int]

ASSUME DetailAssumption ==
    /\ {DefaultSize, MaxSize} \subseteq Nat \ {0} /\ DefaultSize <= MaxSize
    /\ DetailSpan \in Nat /\ AskedLists \subseteq ListRequests

-----------------------------------------------------------------------------
(* Parameters                                                              *)

\* normalizePage
NormalizePage(r) ==
    [r EXCEPT !.page = IF @ <= 0 THEN 1 ELSE @,
              !.size = IF @ <= 0 THEN DefaultSize ELSE Min({@, MaxSize})]

\* splitDetailEventNames, splitDetailCarTypes: the plural form goes first; and
\* splitAnonymousIds: the two forms of vehicles are one set.  The list of closes
\* has no events and no singular car.
Joined(r) ==
    LET first(plural, singular) == IF plural # {} THEN plural ELSE singular
    IN  IF r.list = "close"
        THEN [r EXCEPT !.vehicles = @ \cup r.vehicle, !.f.events = {}]
        ELSE [r EXCEPT !.vehicles = @ \cup r.vehicle, !.f.events = first(@, r.event),
                       !.f.cars = first(@, r.car)]

\* normalizeDetailDateRange: as NormalizeDates, but a long range is refused.
DetailDates(f) ==
    IF f.start # NoDay /\ f.end # NoDay /\ NormalizeDates(f) # <<>>
    THEN LET first == Min({f.start, f.end})  last == Max({f.start, f.end})
         IN  IF last - first > DetailSpan THEN <<>>
             ELSE <<[f EXCEPT !.start = first, !.end = last]>>
    ELSE NormalizeDates(f)

\* ErrDetailDateRangeTooLong, the refusal that is not ErrInvalidDateRange
TooLong(f) == NormalizeDates(f) # <<>> /\ DetailDates(f) = <<>>

\* What a use case passes on, or <<>>
NormalizeList(r) ==
    IF DetailDates(r.f) = <<>> THEN <<>>
    ELSE <<NormalizePage(Joined([r EXCEPT !.f = DetailDates(r.f)[1]]))>>

-----------------------------------------------------------------------------
(* Rows                                                                    *)

\* The further conditions, on the columns that a list has
Meets(also, columns) == \A c \in also : c[1] \in DOMAIN columns => columns[c[1]] = c[2]

OfDetails(r, u) ==
    /\ InDatesOrToday(r.f, Day(u)) /\ OrAny(r.f.filter, Filter(u)) /\ OneOf(r.f.events, Event(u))
    /\ OfPlace(r.f, Ident[u]) /\ OneOf(r.vehicles, Vehicle(u))

\* buildFffTriggerWhere, buildFdrTriggerWhere, buildFclTriggerWhere
StageRows(r) ==
    LET columns(u) == IF r.list = "fdr"
                      THEN [uuid |-> u, status |-> status[u].fdr,
                            detail |-> IF status[u].fdr = "discard" THEN status[u].why ELSE ""]
                      ELSE [uuid |-> u, status |-> status[u][r.list]]
    IN  {u \in RowsOf(status) : /\ status[u][r.list] # "null" /\ OfDetails(r, u)
                                /\ Meets(r.also, columns(u))}

\* buildUuidDetailWhere: a stage that has not reported is NULL, which no condition
\* on a status is true of.
UuidRows(r) ==
    LET columns(u) == [uuid |-> u, fff |-> status[u].fff, fdr |-> status[u].fdr,
                       fcl |-> status[u].fcl]
    IN  {u \in RowsOf(status) :
            /\ OfDetails(r, u) /\ Meets(r.also, columns(u))
            /\ r.onlyFail => Isnt(status[u].fcl, "success")
            /\ r.stage # <<>> => status[u][r.stage[1]] = r.stage[2]}

\* buildFffCloseWhere
CloseRows(r) ==
    {c \in Closes : /\ InDatesOrToday(r.f, c.day) /\ OrAny(r.f.filter, c.filter)
                    /\ OfPlace(r.f, c) /\ OneOf(r.vehicles, c.vehicle)
                    /\ Meets(r.also, [detail |-> c.why])}

\* The rows of a list: those of running filters after their events were resolved
ListRows(r, names) ==
    CASE r.list \in StageLists -> StageRows(r)
      [] r.list = "uuid" -> UuidRows(r)
      [] r.list = "close" -> CloseRows(r)
      [] r.list = "running" -> RunningOf(r.f, names, r.vehicles)

\* Mutant of Offset: pages are counted from zero.
OffsetFromZero(r) == r.page * r.size

Offset(r) == (r.page - 1) * r.size

\* LIMIT size OFFSET n without an ORDER BY: any rows, as many as there are left
PagesOf(rows, r) ==
    kSubset(Max({0, Min({r.size, Cardinality(rows) - Offset(r)})}), rows)
=============================================================================
