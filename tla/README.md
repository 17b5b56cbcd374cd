# A verification project for fdi-data-board

`fdi-data-board` is the back end of a dashboard for a vehicle data pipeline. It is
a Go service (kratos + gin) of several instances in front of Doris (the analytic
tables), MySQL (job log, issue reports), Redis (locks) and an LLM gateway. Most of
what it does is reading; what is hard in it is when it reads, what it keeps, and
the few places where it writes.

The modules here are translated from the code under `src/`; `PROJECT.json` maps
each definition to the lines it stands for.

## 1. Inventory

### ETL lease — `internal/server/etl_server.go` (`withTaskLock`, `renewLockLoop`)
State: one Redis key for each task, holding a random token with a TTL; the context
of the task; a renewal goroutine with a ticker.
Operations: `SETNX` with the TTL; compare-and-`PEXPIRE` every interval; compare-and-
`DEL` at the end; `cancel()` of the task when a renewal fails or finds another token.
Hard: time (the TTL runs from the moment Redis applies `SETNX`, the ticker from the moment
the answer has come), a process that dies, a call whose effect is unknown, Redis losing the
key, statements that go on after their context was cancelled, and a configuration that
leaves no room for all that.
Correct when: two instances never work under one key while Redis keeps it and its TTL has
slack; an overlap ends soon; nobody takes away a key that is not his; no key stays for ever.

### ETL scheduler and job — `etl_server.go`, `biz/use_etl_do.go`, `data/etl_do_cfdi.go`
State: the scheduler goroutine, the job log `etl_job_log` (MySQL), the daily table
`ads_do_cfdi_daily` (Doris).
Operations: a backfill at start (skips dates whose log says success), a refresh at
10:00 every day (skips nothing); both loop over dates, and for each date `RunETL`
writes "running", deletes, inserts, counts and writes the result.
Interacts: with the lease by the task context; with the DO dashboard by the table.
Hard: the two tasks have *different* lock keys; no statement carries a token; errors
of the log are swallowed; a failed statement may have been applied; a crash between
any two statements; `Stop` waits for a goroutine that sleeps without watching its context.
Correct when: a success in the log can be trusted; what is due is loaded; `Stop` returns.

### AI chat, history — `biz/use_dashboard_ai_chat.go` 209–452
No state of its own: the browser keeps the conversation and posts it each time.
Operations: truncation, conversion, and three repairs that run in sequence.
Hard: the input is arbitrary, the LLM refuses a request whose calls and results do
not pair, and each repair can undo another.
Correct when: every call is answered once by the next message, nothing answers what
was not asked, no real answer is lost and no message is empty.

### AI chat, agent loop — `use_dashboard_ai_chat.go` 66–206, `service/dashboard_ai.go`
State: round, context messages, tool calls of the round, frames on the wire, the
first write error.
Operations: ask the LLM, forward deltas, run tools, pause for `clarify` and
`submit_plan`, end with a `done` or an `error` frame.
Hard: the browser leaves at any point, writes still succeed for a while, the context
ends on its own, the gateway hangs, a tool fails.
Correct when: one ending, and a true one; rounds are paired; at most one call or tool is
begun in vain after the cut; every stream ends.

### Dimension cache — `data/dashboard_fo.go` 24–37, 1813–1971
State: one cached entry with an expiry and a `refreshing` flag; one `singleflight`.
Operations: serve the entry though it is expired and refresh it behind the answer;
on a cold start share one fetch; a fetch runs four queries at once.
Hard: requests that hold an entry which was replaced, a failed refresh, a cold start
that races a flight that just ended.
Correct when: one fetch at a time, no refresh is lost, answers never go back in time,
no error once something is cached, everyone is answered.

### Reconciliation dashboard — `data/reconcile.go`, `biz/use_reconcile.go`
State: none; it reads `fis_reconcile_record`, into which the decoder and the consumer
(other programs) write their own columns of the same rows. The table merges the writes of a
key (`REPLACE_IF_NOT_NULL`): what was written once may be replaced by a retry.
Operations: overview, trend, by module, by project, decode status, lists of bags and
events by failure, consistency, source of a uuid, failure summary, pipeline tree.
Hard: a view is made of several queries, concurrent or one after another, while the
table changes, also of rows that were counted already; the same number is computed in
several places by different conditions.
Correct when: numbers that should agree do, and a counted failure is explained up to the
writes that came in since.

### FO and DO dashboards — `data/dashboard_fo.go`, `data/dashboard_do.go`, `data/dashboard_aggregate.go`, `biz/use_dashboard_fo.go`, `biz/use_dashboard_do.go`, `data/running_filter_resolver.go`
State: none of their own. They read the status table (one row for each uuid, written as
cars report), the daily table that the ETL job loads from it, and the daily summaries,
which another program loads; and they ask two services (FOM, FFM) which filters an
event stands for.
Operations: funnels, stage trends, comparisons, reasons, top lists, quality, vehicles,
running filters, closes, and six lists of details. An endpoint sends one query, several
at the same time (`WaitGroup`), or several one after another.
Hard: three copies of one truth that are loaded at different times; the same number
computed by different conditions, from different copies, under different names of the
same detail; a summary that holds every event once more as `__ALL__` and at several
grains; loads between two queries of one answer; an error of one query of several.
Correct when: the numbers of one answer fit together, numbers that should agree between
endpoints do, nothing is counted twice or lost, and an error is not shown as a zero.

### AI tools — `biz/ai_tools.go`
State: none. A tool turns arguments of the LLM into a request of an endpoint, with
defaults and limits of its own, and calls the use case.
Hard: its defaults and the limits of what it calls are written in different files; the
overview of a tool asks for four things, three of which may fail alone.
Correct when: a call the description allows is answered, and sums are those of the series.

### Parts that are not modelled
| part | why |
|---|---|
| AI summary (`use_dashboard_ai.go`) | ten reads of endpoints that are modelled, one after another, each of which may fail alone; what it makes of them is text |
| LLM client (`llm.go`) | one goroutine folds a stream into one message; what it returns is an input of `ChatAgent` |
| Reconciliation: trend, project, decode status, md5 views, consistency, uuid source, failure summary | single statements over the columns that `Reconcile` has; none relates two states |
| `GetFdrBandwidthTop`, averages and percentiles of sizes and speeds | arithmetic of the database |
| Tools `lookup_dict` and the truncation of `get_dimensions`, notes of all tools | constants and texts |
| Issue reports | an insert and lists; a report never changes |
| Grafana alerts | formatting and one HTTP call, no state, no retry |
| Database access | connections and timeouts; they appear as queries that fail |
| Servers, routes, wiring, API types, greeter, utilities, protos | framework and template code |

The hazards, each at its line and with the properties that would catch it, are
listed in `PROJECT.json` ("hazards").

## 2. Modules

| module | models | refines |
|---|---|---|
| `TaskLock` | abstract: what `withTaskLock` promises for one key | |
| `EtlLease` | the lease in time | `TaskLock` (`ImplementsPromise`) |
| `DailyTable` | abstract: what the dashboards rely on | |
| `EtlJob` | scheduler, loops, `RunETL`, faults | `DailyTable` (`KeepsDailyTable`) |
| `ChatHistory` | rebuilding a request from a history | |
| `ChatAgent` | one answer of the chat | |
| `DimCache` | the dimension cache | |
| `Reconcile`, `MCReconcile` | views of the reconciliation table; its rows for TLC | |
| `BoardTables` | the three copies, their writers, and the conditions of the queries | |
| `DoBoard`, `FoBoard` | what each query of the two dashboards finds at one moment | |
| `FoDetail` | the six lists and their parameters | |
| `AiTools` | what a tool asks, and what it computes from a trend | |
| `Board`, `MCBoard` | a request, its queries in their order, and the writers between them; its data for TLC | |
| `EtlLeaseProofs`, `EtlJobProofs`, `DimCacheProofs`, `ChatAgentProofs`, `ChatHistoryProofs`, `ReconcileProofs`, `BoardProofs` | proofs of the component of that name | |
| `SetSums` | what a sum over a finite set is, and how counts of groups add up | |

How they compose: `EtlJob` uses the lease as an atomic lock that may be lost (fault
"lease"). That is what `EtlLease` implements: its refinement says that, while Redis
keeps its keys, a step of the lease is a step of `TaskLock` or no step.

**EtlLease.** One tick is the unit of the durations. `pc` is the task goroutine ("wait"
after `SETNX` took effect and before its answer, "sql" while a statement may touch the
table, "sleep" between two dates, "release" after `fn` returned), `ren` the renewal
goroutine, `timer` the time since `SETNX`, since its ticker fired or since the cancel. A
call has two steps, its effect at Redis (`Acquire`, `Script`) and its answer (`Acquired`,
`Renewed`, `LockLost`), which may be lost (`AcquireError`, `RenewError`); `StartTicker` is a
step of its own. `Tick` cannot pass a deadline of a live process: from `SETNX` to the
ticker, and for a refresh, `Delay`; the interval; `Linger` for a cancelled statement. This is
the assumption that goroutines are scheduled in time. Whether the TTL is long enough for
them is not assumed: `Slack` (answer + interval + call + statement < TTL) is a premise of
`MutualExclusion` and of the refinement, and `WorksOnlyBriefly` says what happens without it.
The history variable `lost` counts how long an instance has gone on without its key, whether
Redis dropped it or it expired.

**EtlJob.** One action for each step a goroutine takes between two calls. The clock
ticks twice a day, at 10:00 and at midnight. `rows[d]` is how many copies of the
aggregate of date `d` the table holds; an insert adds one, a delete leaves none. A
statement that fails may have been applied, but not after it returned: an insert that Doris
commits only after its cancelled client was replaced by another run is not in the model. The
history variable `tainted[d]` says that the last run of `d` overlapped another one or could
not write "running".

**ChatHistory.** Operators only, applied by two actions: the browser grows a history
of *any* messages, and posts it. A text block is a Boolean, a result is an id and
whether it is real.

**ChatAgent.** `wire` is "open", "gone" (the browser left; writes succeed or fail) or
"broken" (a write failed). `late` counts the LLM calls and tool runs begun after the
stream was cut.  `LittleLateWork` bounds what the two stops, failed write and context, let
through together; it does not say that the code stops where its comments say it does, which
is the violated `NoToolAfterFailedWrite`.

**DimCache.** Entries are kept in a sequence whose last element is the cached one, so
that a request may hold an old entry; each list of an entry has the version of the
table it was read from.

**Reconcile.** Rows are functions from keys to the columns that the counts look at; a
request collects the answers of its queries, and the writers write between them: any
column of theirs, at any time, with any of its values (0, pending, among them), so a row
that was counted may change before its reason is read. An error detail is its prefix and its module, so reasons are grouped by module.

**Board.** `BoardTables`, `DoBoard`, `FoBoard`, `FoDetail` and `AiTools` are layers of
operators over the three tables; `Board` is the state machine on top. `Plan` is what an
endpoint asks and in which order: sets of queries, those of one set at the same time.
`Query` answers any query that is due, from the tables as they are; `QueryFails` fails
it, and `Forgotten` says whose errors the code drops. `Write` lets the status table, the
daily table (a delete or an insert of a day, as in `RunETL`) or the summaries change in
between. Three abstractions: a count of a copy is kept as the rows it was counted from,
so that a row counted twice shows; a list of `LIMIT n` is the set of all lists the
database may answer with, since equal counts come in any order; and an outcome is the
status of the three stages with the detail of the one that discarded. Two names of one
detail (`AdsNames`, `CubeNames`) are kept apart, because the code confuses them.
Endpoints of one query are not steps: the properties compare them before a request.
`EtlJob` asks whether the load itself may go wrong; here a load is right but untimely.

## 3. Runs, bounds and what they show

| run | bounds | shows |
|---|---|---|
| `EtlLease` | 2 instances, one tick = 20 s, TTL 140 s, interval configured too long and halved to 60 s, one lost key | exclusion, short overlap, no theft, refinement, every key is freed |
| `EtlJob` | 2 instances, one date for each task, all six kinds of faults, two of them in a behaviour, clock 0..1 | a success of an untainted date is one copy; `Stop` returns |
| `EtlJobRefresh` | 2 instances, window of two dates, two faults (table, Redis, crash, stop), clock 0..3 | refreshes alone are serial, keep `DailyTable`, and load what is due |
| `ChatHistory` | every history of up to 4 messages of two ids, truncated to 3 | the four pairing properties |
| `ChatAgent` | 3 rounds of up to 2 calls | one true ending, pairing, little late work, termination |
| `DimCache` | 3 requests, 2 lists, 2 versions, one request each | its invariants and action properties |
| `Reconcile` | one bag, two events of two modules, any writes before a request and one during it, pages of one (the default) and two rows | which numbers agree, and when; a walk through pages sees each row once |
| `Board` | 4 uuids on 2 days, 9 outcomes, copies complete or without the last day, one write during a request, 7 conditions, 9 lists, lists of 2 | the eight properties below |
| `ChatHistoryTwice`, `ChatAgentLate`, `BoardAnomaly`, `BoardDetail` | as the run beside it | the findings of section 5 |

What `Board` shows, and under which conditions:
* `FunnelAddsUp`: total, stages and reasons of either funnel fit together if no load of
  the daily table came between its four queries. With a load they need not, and the
  code does not say they would: reports and loads of the summaries do no harm.
* `CountsOnce`: no endpoint counts an event of the summaries twice or takes in `__ALL__`.
* `BoardsAgree`: endpoints of the daily table agree on totals; event comparison, trends and
  the FO funnel also on uploads; top lists sum to the reasons of the FO funnel. The DO funnel
  counts uploads by another condition and shares only the total.
* `TrendAddsUp`: the series of a stage trend lose nothing even if the summaries are
  loaded between, and sum to the overview if they are not.
* `QualityMeetsFunnel`: of copies that are up to date, the quality of dumps (and the
  overview of a tool) has the numbers of the funnel, as a comment of the code says,
  but for three cases the property names, in which the definitions differ: the
  comment as it stands is violated (section 5). TLC's data has
  two of them; the third (a trigger that FFF discards though its data were dumped) was
  found by the proof, where a step failed for good reason.
* `TopReasons`: who failed has a reason in the list of top vehicles.
* `DetailsMeetBoard`: a page fits its total if no stage reports in between, and the list
  of a failed stage has as many rows as the reasons of the funnel.
* `ErrorsSurface`: a service that is down is not shown as filters that do not run.

Why the bounds are enough. Two instances show every conflict of a lock: a third one
can only wait, or meet the same token. The lease has 7 ticks with an answer of `SETNX`, an
interval of 3, one call and one lingering statement, which is the tightest slack there is
(1 + 3 + 1 + 1 < 7); configurations
without slack are left to the proof. Windows overlap in a date: that is where the tasks meet, and
one date each is enough for it; two dates show that the loop goes on and that a second
date is loaded. Two faults reach the combinations the code is exposed to: a lost lease
and a lost log write, a crash and an ambiguous statement. A history of 4 messages
holds a call, its hidden result, the user's answer and a next round, and the limit of
3 cuts each of these places. Three rounds of the agent show the first, a middle and the
limit. Three requests are a leader, one who waits and one who comes later with an old
entry. Two events in one bag are matched, missing, failed or extra in every
combination, and one write between two queries, which may replace what the first one
counted, is what makes views disagree. In
`Board` two uuids take every outcome next to each other on two days, so that dates,
events, filters and projects can be told apart; lists of two entries are both filled and
not filled; one write suffices to put two queries in different states of a table.

Deadlock is switched off where the modelled thing ends: an answer, a request, a clock
with a horizon. `EtlLease` goes on for ever and checks it.

Fairness, and why the code justifies it:
* `EtlLease`: clock, the answer of `SETNX`, renewal, end of a statement and release are weakly
  fair: goroutines run and calls have time-outs. `Finish` is strongly fair: a task has finitely many
  dates, but the module does not count them, so a task that sleeps again and again
  must end. New tasks and faults are not promised.
* `EtlJob`: the clock, the goroutines and the expiry of keys are weakly fair. Faults and
  starts are not.
* `ChatAgent`: the loop's own steps; the server's time-out; an LLM call or a tool ends
  once the context is done. Nothing is said about an answer while the context lives.
* `DimCache`: a request that came goes on, and every query ends (it has a time-out).
* `ChatHistory`, `Reconcile` and `Board` check safety only.

Each property of a passing run has a mutant: a change of a definition that a plausible
bug would make (the operators named *Mutant* in the modules), under which TLC finds
the property violated.

## 4. What is proved

`tlapm` checks the proof modules for every value of the constants.

* **EtlLeaseProofs.** From `DurationAssumption` (a refresh is answered before the ticker fires
  again) and `TokenAssumption`; that the durations fit in the TTL (`Slack`) is not assumed but
  a premise where it is needed. The invariant `IInv` says how long ago, at most, the last call
  of an instance took effect: `SETNX` while its answer and the ticker are on the way, the last
  refresh while the ticker runs (an answer more), one interval more during a call, a call
  more while a cancelled statement lingers; and that the age of the lease and of its loss is
  no more than that. `MutualExclusion` alone is not inductive: nothing in it keeps `Tick` from
  ending a lease under its owner. `WorksOnlyBriefly` holds for every configuration.
  Proved: `TypeOK`, `MutualExclusion`, `WorksOnlyBriefly`, `NoTheft`, and that every step
  is a step of `TaskLock` or a stutter.
* **EtlJobProofs.** From `JobAssumption`. The invariant says of a run whose date is not
  tainted that it is alone on the date, that the log says "running", and what the table
  holds after each statement. Proved: `TypeOK` and `TrustedSuccess`, for any instances,
  windows, selection of faults and horizon. Under `RefreshAlone` (no backfill, goroutines
  in time, no lost lease and no lost write of the log; the conditions of the run
  `EtlJobRefresh`) also `SerialRuns` and the refinement `KeepsDailyTable`: what has to be
  added to the invariant is who holds the lock of the refresh, that a run is at work only
  under it, and that no date is tainted.
* **DimCacheProofs.** From `CacheAssumption`. The invariant says who fetches (the leader
  of the flight while nothing is cached, or the request that set the flag of the
  *cached* entry) and that the flag of every replaced entry stays set: that is why a
  request holding an old entry never starts another refresh. Proved: `TypeOK`,
  `OneFetch`, `NoLostRefresh`, `ServedOnceCached`; and `ReadsAreMonotone`, for which
  `OrderInv` orders the versions: entries by their age, a fetch after every entry that
  was there when it began, an answer after what its request had to see.
* **ChatAgentProofs.** From `AgentAssumption`. `EndInv` says at which step of the loop an
  ending is on the wire, `RoundInv` what the round's pause and number are worth there,
  `PairInv` that the context holds calls and results in pairs but for those of the
  round at work, and `LateInv` how much can still begin after the cut at each step.
  Proved for any number of rounds and calls: `OneEnding`, `EndingIsTrue`,
  `RoundsArePaired`, `LittleLateWork`.
* **SetSums.** The sum of a function over a finite set (`SumFunctionOnSet` of the community
  modules, a fold over a chosen order) is that recurrence in any order, is additive,
  monotone, splits over disjoint sets, and the sizes of the groups of a set add up to the
  set (`SumOfFibres`). The library's induction rules cannot be used (they take an operator
  as a parameter); the proofs use a smallest counterexample instead: a set of subsets of a
  finite set has a minimal element, which is first-order.
* **ReconcileProofs.** From `TableAssumption`. The invariant says of each answer of a
  request what it is worth: of an overview, the counts of the table as it is while
  nothing was written, else that what was expected is divided; of a tree, its bags, its
  parts and the rows of each failure, whose number is no further from the old count than
  there were writes since (one write moves one row, whatever it replaces, and that is why a
  later list of reasons covers an earlier count up to them); of a walk, which places
  of the order its pages have taken. The rest is counting: rows of different fates are
  disjoint sets, and rows of modules or error prefixes are fibres. Proved for any rows, and
  writers that write any column of theirs at any time: `EveryEventIsCountedOnce`, `ViewsAgree`, `QuietTreeAddsUp`,
  `ReasonsCoverCounts`, `WalkSeesEachOnce`.
* **BoardProofs.** From `BoardAssumption`, `DetailAssumption`, `ToolAssumption` and
  `RequestAssumption`: finite sets of uuids, records and conditions, a status for each
  stage, and lists that are asked for with a page and a size. None of the eight
  properties is inductive, as each compares an answer with tables that may have been
  written since. `Base` says which queries a request has sent and that its parameters
  passed the checks of the use case; `AnswersInv` that an answer is what its query
  would find now while no table it reads was written (`Untouched`); and where a property
  holds in spite of writes, what an answer keeps: `NamesInv` (which services answered),
  `TopInv` (a failure that was counted has a reason to be found), `TrendInv` and
  `SeriesInv` (an answer divides the rows of *some* moment). The rest is about one
  state of the tables, for any rows: a list of `LIMIT n` that is not full is all the
  counts, groups of rows add up to the rows (`SumOfFibres`, and `SumSwap` for a matrix
  that is summed by rows and by columns), and a summary, of which a request takes one
  grain, has one part for each event. Proved: all eight properties of section 3, for
  any fleet, tables, writes and requests.
* **ChatHistoryProofs.** From `HistoryAssumption`. The invariant only says that a request
  is the one built from the history; all the work is what `Build` makes of *any* history.
  `FlattenSeq` of the community modules chooses a function that satisfies a recurrence;
  that there is one, and that it lays the parts of a repair one after another, is shown
  with a smallest counterexample (`FlattenIsLaid`). Each repair makes of a message none,
  one or two messages; it drops no message with a call, and adds one only between a call
  and something that is not a user message, so who follows a call still does
  (`Repair`, `Speakers`). `Sanitize` makes the messages `Paired` (no call twice, results
  after a call answer it, once each), `DropOrphans` keeps that and makes them `Parented`
  (every result answers the last calls before it), `Backfill` keeps both and makes them
  `Replied`: every call is answered. That real answers are kept is a bijection between
  the answered calls before and after each step; that tidy rounds stay exact follows
  them through all steps. Proved: `EveryUseIsAnswered`, `NoOrphans`,
  `RealAnswersAreKept`, `TidyHistoryIsExact`, for histories and limits of any length.
  (`ChatHistoryTwice`, and the message that goes out empty in section 5, show why the last
  one asks for tidy rounds.)

Only model-checked: everything that needs fairness (`LockIsFreed`, `StopReturns`,
`Refreshed`, `EveryStreamEnds`, `EveryRequestIsAnswered`), which is outside the prover.
Every other property of a passing run is stated by a theorem.

## 5. Disagreements between the code and what is said of it

1. `ChatHistoryTwice`: a comment says that `clarify` gets no placeholder because its
   answer comes in another message; `backfillToolResults` adds one, and the call has
   two results.
2. `BoardAnomaly`: the API description says that the reasons of anomalous vehicles are
   found as those of the top vehicles are. `GetAnomalyVehicles` passes its rate on to
   the query of the reasons, which has no place for it; the query fails, the error is
   dropped, and there is never a reason.
3. `ChatAgentLate`: a comment and a test say that no data tool runs after the first failed
   write. The tool whose announcement fails does; the test counts frames and LLM calls.
4. `BoardDetail`: the description of `get_detail` allows calls without dates; its default
   range of 90 days is always refused by the limit of 7.

Met while modelling; no run is kept for these (TLC finds the first four within seconds when
the sentence is stated as an invariant):
* `RECONCILIATION_PIPELINE_TREE.md:71` says that the children of every level add up to their
  parent. Those of `tar_parse_success` count events and their parent counts bags, as a comment
  of the code itself says (`use_reconcile.go:845`). Every other level does add up when nothing
  is written meanwhile and every status is known (`QuietTreeAddsUp`).
* `FO_DO_DASHBOARD_API.md:240` calls the funnels of FO and DO the same implementation. They are
  two (`dashboard_fo.go:1277`, `dashboard_do.go:847`): an upload under way counts for FO, one of
  a trigger that FFF discarded for DO.
* A comment (`dashboard_do.go:949`) says that the counts of the quality of dumps are strictly
  those of the funnel. A normal discard whose data were uploaded is subtracted by the quality
  and not by the funnel (`fdrStageFailedCondition`).
* A comment (`use_dashboard_ai_chat.go:287`) says that a user message of orphans alone is
  dropped. After an assistant message `sanitizeAnthropicMessages` empties it first; then it is
  no longer recognised and goes out with no content.
* `get_overview_events` and `get_trend` are registered with the kinds "overview" and
  "trend": the cases written for them (`ai_tools.go:705`, `:713`) are never reached, and
  `get_trend` without a stage answers only the series of FFF.
* `get_fail_reason` says that its entries are of FDR only; those of FCL are among them,
  and come first. The common parameters say that dates default to 7 days; it is 90.
* Queries exclude `Forever_log`; the comments and the ETL write `forever_log`. Neither
  excludes the other's spelling, but the ETL leaves the log out of the copies.
* `fffStageTrendNames` holds names of the daily table, the summaries hold canonical ones
  (`FO_DO_DASHBOARD_API.md:260`): without a filter many reasons fall into "other".
* The handlers know only `ErrInvalidDateRange`: a range of details that is too long is
  answered as an internal error, though a comment (`use_dashboard_fo.go:784`) means it to be
  told.
* The trend of running filters of an event adds vehicles of its filters: a vehicle that
  runs two of them is counted twice.
* `GetFdrFragment` asks for the row of all events besides the events asked for, so with
  any event it finds nothing.
* The rate of the funnel leaves out normal discards by the ten most frequent reasons: an
  eleventh is not left out.
* The overview of FFF counts triggered filters with the events asked for in place of
  filters.

## 6. Plan

Order: what writes first, then what keeps something, then what reads. Done: all of
that, but for the parts of section 1 that are not modelled and have their reasons
there. Every safety property that a run checks is proved too. What is left:

1. `DailyTable` and `TaskLock`: properties of the abstract modules that follow from a
   refinement, stated for the detailed one.
2. The chat as the panel uses it (`PanelAt` in `ChatHistory`): which of its histories, short
   of `clarify` and empty orphans, are exact.
3. Statements of the reconciliation dashboard that are left out of `Reconcile` (trend,
   record consistency, failure summary), if the columns they read are added.
