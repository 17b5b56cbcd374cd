----------------------------- MODULE Reconcile ------------------------------
(***************************************************************************)
(* The reconciliation dashboard: read-only views of one date of the table  *)
(* fis_reconcile_record, into which two other programs write while it is   *)
(* read (internal/data/reconcile.go, internal/biz/use_reconcile.go).       *)
(*                                                                         *)
(* A bag row (uuid = '') is written by the decoder.  An event row is       *)
(* written by the decoder and by the consumer, each writing its own        *)
(* columns, in either order.  The table merges the writes of one key: a    *)
(* column that is not null replaces the one before (REPLACE_IF_NOT_NULL),  *)
(* so a redelivery or a retry may change what was counted already, but no  *)
(* row goes away.  One query sees one state of the table, but a view is    *)
(* made of several queries, which run at the same time or one after        *)
(* another: a request is a small concurrent program.  Texts are left out:  *)
(* an error detail is its prefix and its module.  There is one project,    *)
(* and a consumer may name another.                                        *)
(***************************************************************************)
EXTENDS Integers, Sequences, FiniteSets, FiniteSetsExt, SequencesExt,
        Functions

CONSTANTS
    Bags,         \* md5s, numbers for their order
    Keys,         \* of event rows: <<md5, uuid, module>>
    BagStatuses,  \* record_status: 0 pending, 1 success, 2 failed, 3 partial
    Fates,        \* what the consumer writes, see AllFates
    DefaultSize,  \* defaultEventListPageSize
    MaxSize,      \* maxEventListPageSize
    MaxReasons,   \* the LIMIT of a failure reason query
    Sizes,        \* bound: the page sizes asked for
    MaxLate,      \* bound: the rows written while a request is answered
    Views         \* bound: the views asked for, of AllViews

\* consume_status 1; 2 with a detail "3:..", with a detail "6:.."; and what is
\* neither: another detail, another status.
AllFates == {"ok", "convert", "landing", "odd"}
AllViews == {"overview", "tree", "list"}

ASSUME TableAssumption ==
    /\ IsFiniteSet(Bags) /\ IsFiniteSet(Keys)
    /\ BagStatuses \subseteq 0 .. 3 /\ Fates \subseteq AllFates
    /\ MaxSize \in Nat /\ DefaultSize \in 1 .. MaxSize /\ MaxReasons \in Nat \ {0}
    /\ Sizes \subseteq Int /\ MaxLate \in Nat /\ Views \subseteq AllViews

VARIABLES
    bag,    \* record_status of each bag row, Absent when there is none
    event,  \* the columns of each event row; absent is NULL
    req     \* the request

vars == <<bag, event, req>>

Absent == -1

SendStatuses == 0 .. 3   \* decode_send_status, 0 pending
Columns == [send : {Absent} \cup SendStatuses, fate : AllFates \cup {"null"}, moved : BOOLEAN]
Unwritten == [send |-> Absent, fate |-> "null", moved |-> FALSE]

BagRows == {b \in Bags : bag[b] # Absent}
Rows == {k \in Keys : event[k] # Unwritten}
Module(k) == k[3]

CountBags(statuses) == Cardinality({b \in BagRows : bag[b] \in statuses})

-----------------------------------------------------------------------------
(* The counts.  f is the filter of the request: f.project and f.module say *)
(* which of them is set, a module to the value f.only.  The filter by md5, *)
(* which narrows the table to one bag, is left out.                        *)

NoFilter == [project |-> FALSE, module |-> FALSE, only |-> "any"]
Filters == {NoFilter, [NoFilter EXCEPT !.project = TRUE]}
           \cup {[project |-> p, module |-> TRUE, only |-> Module(k)] : p \in BOOLEAN, k \in Keys}

InModule(f, k) == f.module => Module(k) = f.only
OfDecode(f, k) == f.project => event[k].send # Absent
OfConsume(f, k) == f.project => event[k].fate # "null" /\ ~event[k].moved

\* reconcilePipelineEventConds
Selected(f) == {k \in Rows : InModule(f, k) /\ OfDecode(f, k)}

Sent(rows, status) == {k \in rows : event[k].send = status}

\* Mutant of Landed: rows the decoder did not send count too.
LandedUnsent(rows) ==
    LET of(fates) == Cardinality({k \in rows : event[k].fate \in fates})
    IN  [matched |-> of({"ok"}), convert |-> of({"convert"}),
         landing |-> of({"landing"}), missing |-> of({"null"})]

\* eventLandSelect
Landed(rows) ==
    LET expected == Sent(rows, 1)
        of(fates) == Cardinality({k \in expected : event[k].fate \in fates})
    IN  [matched |-> of({"ok"}), convert |-> of({"convert"}),
         landing |-> of({"landing"}), missing |-> of({"null"})]

BagCounts == [total |-> Cardinality(BagRows), success |-> CountBags({1}),
              failed |-> CountBags({2}), partial |-> CountBags({3}),
              parsed |-> CountBags({1, 3})]

EventCounts(rows) ==
    [expected |-> Cardinality(Sent(rows, 1)), sendFailed |-> Cardinality(Sent(rows, 2)),
     parseFailed |-> Cardinality(Sent(rows, 3)), land |-> Landed(rows)]

\* Mutant of Extra: the decoder's column is not looked at.
ExtraAny == Cardinality({k \in Rows : event[k].fate # "null"})

Extra == Cardinality({k \in Rows : event[k].fate # "null" /\ event[k].send = Absent})

\* eventParseSql of the tree
ParseCounts(rows) ==
    [success |-> Cardinality(Sent(rows, 1) \cup Sent(rows, 2)),
     failed |-> Cardinality(Sent(rows, 3)),
     sent |-> Cardinality(Sent(rows, 1)), sendFailed |-> Cardinality(Sent(rows, 2))]

\* The conditions of the event lists, and of the failure reasons.
OfType(type, k) ==
    LET e == event[k]
    IN  CASE type = "missing" -> e.send = 1 /\ e.fate = "null"
          [] type = "extra" -> e.fate # "null" /\ e.send = Absent
          [] type = "send_failed" -> e.send = 2
          [] type = "parse_failed" -> e.send = 3
          [] type = "convert_failed" -> e.fate = "convert"
          [] type = "landing_failed" -> e.fate = "landing"
          [] type = "mismatched" -> e.send # Absent /\ e.fate # "null" /\ e.moved

ListTypes == {"missing", "extra", "send_failed", "parse_failed",
              "convert_failed", "landing_failed", "mismatched"}
OfConsumer == {"extra", "convert_failed", "landing_failed"}

\* The rows of an event list: the project is the consumer's in three of them.
Listed(type, f) ==
    {k \in Rows : /\ OfType(type, k) /\ InModule(f, k)
                  /\ IF type \in OfConsumer THEN OfConsume(f, k) ELSE OfDecode(f, k)}

\* GetModule groups the counts.
ByModule == [m \in {Module(k) : k \in Rows} |-> EventCounts({k \in Rows : Module(k) = m})]

\* Failure reasons of a type: the first groups by their count.
Grouped(type, rows) ==
    LET group(m) == {k \in rows : OfType(type, k) /\ Module(k) = m}
        all == {Module(k) : k \in {k \in rows : OfType(type, k)}}
    IN  {[m \in top |-> Cardinality(group(m))] : top \in
           {t \in SUBSET all :
               /\ Cardinality(t) = Min({Cardinality(all), MaxReasons})
               /\ \A m \in t, n \in all \ t : Cardinality(group(m)) >= Cardinality(group(n))}}

Total(reasons) == SumFunction(reasons)

-----------------------------------------------------------------------------
(* The writers, which are other programs                                   *)

\* Bounds: what happens after the answer is of no interest.
Written ==
    /\ ~req.done /\ req.late < MaxLate
    /\ req' = IF req.view = "none" THEN req ELSE [req EXCEPT !.late = @ + 1]

\* Each write replaces what its own columns held before.
WriteBag(b, status) ==
    /\ bag' = [bag EXCEPT ![b] = status]
    /\ Written /\ UNCHANGED event

Decode(k, status) ==
    /\ event' = [event EXCEPT ![k].send = status]
    /\ Written /\ UNCHANGED bag

Consume(k, fate, moved) ==
    /\ event' = [event EXCEPT ![k].fate = fate, ![k].moved = moved]
    /\ Written /\ UNCHANGED bag

-----------------------------------------------------------------------------
(* A request.  got holds the answers of its queries, by name.              *)

NoRequest == [view |-> "none", f |-> NoFilter, got |-> <<>>, late |-> 0, done |-> FALSE]

Init ==
    /\ bag = [b \in Bags |-> Absent]
    /\ event = [k \in Keys |-> Unwritten]
    /\ req = NoRequest

Asked(q) == q \in DOMAIN req.got
Got(q, answer) == [x \in DOMAIN req.got \cup {q} |-> IF x = q THEN answer ELSE req.got[x]]

Ask(view, f) ==
    /\ req.view = "none" /\ view \in Views
    /\ view = "overview" => f = NoFilter
    /\ req' = [NoRequest EXCEPT !.view = view, !.f = f]
    /\ UNCHANGED <<bag, event>>

Answer(q, answer) ==
    /\ ~req.done /\ ~Asked(q)
    /\ req' = [req EXCEPT !.got = Got(q, answer)]
    /\ UNCHANGED <<bag, event>>

\* A query fails or runs into its timeout, and with it the request, whatever its
\* other queries got: they are waited for and the first error is returned.
Fail ==
    /\ req.view # "none" /\ ~req.done
    /\ req' = NoRequest
    /\ UNCHANGED <<bag, event>>

\* GetOverview: three queries at once.
AnswerOverview ==
    /\ req.view = "overview"
    /\ \/ Answer("bag", BagCounts)
       \/ Answer("event", EventCounts(Rows))
       \/ Answer("extra", Extra)

\* GetPipelineTree: three queries at once, then at once a query for the reasons
\* of every failure that was counted.
Counted == Asked("bag") /\ Asked("parse") /\ Asked("land")

AnswerTree ==
    /\ req.view = "tree"
    /\ \/ Answer("bag", BagCounts)
       \/ Answer("parse", ParseCounts(Selected(req.f)))
       \/ Answer("land", Landed(Selected(req.f)))

\* The failures of the tree, each a condition of event rows but the first.
FailureTypes == {"bag_failed", "parse_failed", "send_failed", "convert_failed", "landing_failed"}
FailureCount(type) ==
    CASE type = "bag_failed" -> req.got["bag"].failed
      [] type = "parse_failed" -> req.got["parse"].failed
      [] type = "send_failed" -> req.got["parse"].sendFailed
      [] type = "convert_failed" -> req.got["land"].convert
      [] type = "landing_failed" -> req.got["land"].landing
Due == IF Counted THEN {type \in FailureTypes : FailureCount(type) > 0} ELSE {}

\* The reasons of failed bags are of one stage here.
Reasons(type) == IF type = "bag_failed" THEN {[stage |-> CountBags({2})]}
                 ELSE Grouped(type, Selected(req.f))

\* Mutant of AnswerReasons: a reason query takes the rows of another failure.
AnswerSwapped ==
    /\ req.view = "tree"
    /\ \E type \in Due : LET other == IF type = "convert_failed" THEN "landing_failed" ELSE type
                         IN  \E reasons \in Reasons(other) : Answer(type, reasons)

AnswerReasons ==
    /\ req.view = "tree"
    /\ \E type \in Due : \E reasons \in Reasons(type) : Answer(type, reasons)

\* buildReconcilePipelineTree: the nodes that have children, with all counts.
Tree ==
    LET bags == req.got["bag"]  parse == req.got["parse"]  land == req.got["land"]
        node(count, children) == [count |-> count, children |-> children]
    IN  [tar_received |-> node(bags.total, <<bags.parsed, bags.failed>>),
         tar_parse_success |-> node(bags.parsed, <<parse.success, parse.failed>>),
         event_parse_success |-> node(parse.success, <<parse.sent, parse.sendFailed>>),
         event_send_success |-> node(parse.sent, <<land.matched, land.convert,
                                                   land.landing, land.missing>>)]

\* All queries were answered.
Respond ==
    /\ ~req.done
    /\ \/ req.view = "overview" /\ \A q \in {"bag", "event", "extra"} : Asked(q)
       \/ req.view = "tree" /\ Counted /\ \A type \in Due : Asked(type)
    /\ req' = [req EXCEPT !.done = TRUE]
    /\ UNCHANGED <<bag, event>>

-----------------------------------------------------------------------------
(* A browser that walks through the pages of an event list                 *)

\* ListEventList of the use case: the page size that is used.
PageSize(asked) == IF asked <= 0 THEN DefaultSize ELSE Min({asked, MaxSize})

\* ORDER BY md5, uuid: rows that differ in their module alone have no order.
Before(k, l) == k[1] < l[1] \/ (k[1] = l[1] /\ k[2] < l[2])
Orders(rows) == {s \in SetToSeqs(rows) : \A i, j \in DOMAIN s : Before(s[i], s[j]) => i < j}

\* Mutant of Page: the pages count from zero.
PageFromZero(s, page, size) == SubSeq(s, page * size + 1, Min({Len(s), page * size + size}))

Page(s, page, size) ==
    LET offset == (page - 1) * size
    IN  SubSeq(s, offset + 1, Min({Len(s), offset + size}))

Walk == req.got["walk"]

StartWalk ==
    /\ req.view = "list" /\ ~Asked("walk")
    /\ \E type \in ListTypes, asked \in Sizes :
           Answer("walk", [type |-> type, size |-> PageSize(asked), page |-> 1,
                           total |-> -1, seen |-> <<>>])

\* The count of a page; none: the answer is empty and the walk is over.
CountPage ==
    /\ req.view = "list" /\ Asked("walk") /\ ~req.done /\ Walk.total = -1
    /\ LET total == Cardinality(Listed(Walk.type, req.f))
       IN  req' = [req EXCEPT !.got = Got("walk", [Walk EXCEPT !.total = total]),
                              !.done = (total = 0)]
    /\ UNCHANGED <<bag, event>>

\* Its rows.  The browser goes on to the next page while the total says so.
ListPage ==
    /\ req.view = "list" /\ Asked("walk") /\ ~req.done /\ Walk.total > 0
    /\ \E s \in Orders(Listed(Walk.type, req.f)) :
           LET more == Walk.page * Walk.size < Walk.total
               seen == Walk.seen \o Page(s, Walk.page, Walk.size)
               next == IF more THEN [Walk EXCEPT !.seen = seen, !.page = @ + 1, !.total = -1]
                               ELSE [Walk EXCEPT !.seen = seen]
           IN  req' = [req EXCEPT !.got = Got("walk", next), !.done = ~more]
    /\ UNCHANGED <<bag, event>>

-----------------------------------------------------------------------------
Write ==
    \/ \E b \in Bags, status \in BagStatuses : WriteBag(b, status)
    \/ \E k \in Keys, status \in SendStatuses : Decode(k, status)
    \/ \E k \in Keys, fate \in Fates, moved \in BOOLEAN : Consume(k, fate, moved)

Next ==
    \/ Write
    \/ \E view \in Views, f \in Filters : Ask(view, f)
    \/ AnswerOverview \/ AnswerTree \/ AnswerReasons \/ Respond \/ Fail
    \/ StartWalk \/ CountPage \/ ListPage

Spec == Init /\ [][Next]_vars

-----------------------------------------------------------------------------
(* Properties                                                              *)

Answered(view) == req.view = view /\ req.done
Quiet == req.late = 0

\* Every row has one of the states the dashboard counts: none is pending.
Known ==
    /\ \A k \in Keys : event[k].fate # "odd" /\ event[k].send # 0
    /\ \A b \in Bags : bag[b] # 0

Sum(land) == land.matched + land.convert + land.landing + land.missing

\* What was expected to land either landed, failed in one of two ways or is missing,
\* also while the writers write, for these numbers are of one query; only a consumer
\* that writes another fate makes them fewer.  When nothing is written meanwhile, the
\* overview counts every event row once: as expected, as failed to send or to parse,
\* or as extra, which another query finds.
EveryEventIsCountedOnce ==
    Answered("overview") =>
        LET e == req.got["event"]
        IN  /\ e.expected >= Sum(e.land)
            /\ "odd" \notin Fates => e.expected = Sum(e.land)
            /\ Quiet /\ Known => Cardinality(Rows) =
                                    e.expected + e.sendFailed + e.parseFailed + req.got["extra"]

\* The views agree on one table: the modules add up to the overview; the
\* missing, failed and extra lists are what it counts, and a list of failed
\* landings has more rows than its number only for rows that were not sent.
ViewsAgree ==
    LET whole == EventCounts(Rows)
        modules(Number(_)) == SumFunction([m \in DOMAIN ByModule |-> Number(ByModule[m])])
        listed(type) == Cardinality(Listed(type, NoFilter))
        unsent(type) == Cardinality({k \in Listed(type, NoFilter) : event[k].send # 1})
    IN  /\ modules(LAMBDA e : e.expected) = whole.expected
        /\ modules(LAMBDA e : Sum(e.land)) = Sum(whole.land)
        /\ listed("missing") = whole.land.missing /\ listed("extra") = Extra
        /\ listed("convert_failed") = whole.land.convert + unsent("convert_failed")
        /\ listed("landing_failed") = whole.land.landing + unsent("landing_failed")

AddsUp(node) == node.count = SumFunction(node.children)

\* The tree of a table that nobody writes, with known states alone, adds up whatever
\* its filter, though its numbers are of three queries: bags below the root, events
\* below the parsed ones.  Between them the unit changes (use_reconcile.go:845), and the
\* level does not add up, although RECONCILIATION_PIPELINE_TREE.md:71 asks it of every
\* level: the children of the parsed bags count, together, every event of the filter
\* that the decoder wrote.
QuietTreeAddsUp ==
    Answered("tree") /\ Quiet /\ Known =>
        /\ \A node \in DOMAIN Tree \ {"tar_parse_success"} : AddsUp(Tree[node])
        /\ SumFunction(Tree["tar_parse_success"].children) =
               Cardinality({k \in Selected(req.f) : event[k].send # Absent})

\* A failure that is counted is explained: its reasons, read by a later query, account
\* for the count up to the writes that came in since the request began, unless they
\* reach their limit.  They are no more than that either, except that the reasons of
\* the consumer's failures take in rows which were not sent.
ReasonsCoverCounts ==
    Answered("tree") =>
        \A type \in Due :
            /\ Cardinality(DOMAIN req.got[type]) < MaxReasons =>
                   Total(req.got[type]) + req.late >= FailureCount(type)
            /\ type \notin OfConsumer => Total(req.got[type]) <= FailureCount(type) + req.late

\* Who walks through a list that does not change sees each of its rows once,
\* whatever page size it asks for, if the md5 and uuid of its rows differ.
WalkSeesEachOnce ==
    LET rows == Listed(Walk.type, req.f)
    IN  Answered("list") /\ Quiet /\ (\A k, l \in rows : k # l => Before(k, l) \/ Before(l, k))
            => IsInjective(Walk.seen) /\ ToSet(Walk.seen) = rows
=============================================================================
