------------------------------- MODULE EtlJob -------------------------------
(***************************************************************************)
(* The ETL scheduler and its job: ETLServer (internal/server/etl_server.go)*)
(* with its start-up backfill and its daily refresh, the loops over the    *)
(* dates (internal/biz/use_etl_do.go), and RunETL with the job log         *)
(* (internal/data/etl_do_cfdi.go), for several instances of the program.   *)
(*                                                                         *)
(* The lock keys behave as TaskLock promises; EtlLease shows why.  Here a  *)
(* lease ends under its owner only as the fault "lease".  A statement of   *)
(* Doris or MySQL is atomic; one that returns an error may have been       *)
(* applied, but then before it returned: an insert that Doris commits      *)
(* after its cancelled client is gone is left out.  The number of faults   *)
(* of a behaviour is bounded by MaxFaults.                                 *)
(***************************************************************************)
EXTENDS Integers, FiniteSets

CONSTANTS
    Inst,          \* the instances of the program
    Nobody,        \* a lock key that does not exist
    Orphan,        \* a token whose process has forgotten it or is gone
    BackfillOn,    \* backfill_on of the configuration
    BackfillDays,  \* backfill_days
    RefreshDays,   \* refresh_days
    Punctual,      \* TRUE: a refresh is over before the clock moves on
    Faults,        \* the kinds of faults that may happen
    MaxFaults,     \* bound: how many of them
    Horizon        \* bound: the last value of the clock

FaultKinds == {"log", "table", "redis", "lease", "crash", "stop"}

ASSUME JobAssumption ==
    /\ BackfillOn \in BOOLEAN /\ Punctual \in BOOLEAN
    /\ BackfillDays \in Nat \ {0} /\ RefreshDays \in Nat \ {0}
    /\ Faults \subseteq FaultKinds /\ MaxFaults \in Nat /\ Horizon \in Nat
    /\ Nobody \notin Inst /\ Orphan \notin Inst /\ Nobody # Orphan

-----------------------------------------------------------------------------
(* The clock of Shanghai: tick 2D is the time of date D before 10:00, tick *)
(* 2D + 1 the rest of that date.                                           *)

Today(t) == t \div 2

\* Mutant: a run that is not ahead any more is put off by 48 hours.
NextRunLate(t) == IF t % 2 = 0 THEN t + 1 ELSE t + 4

\* nextRunTime: 10:00 of today when it is still ahead, else of tomorrow.
NextRun(t) == IF t % 2 = 0 THEN t + 1 ELSE t + 2

Dates == (0 - (BackfillDays + RefreshDays)) .. Today(Horizon)

BackfillKey == <<"backfill", 0>>
RefreshKey(t) == <<"refresh", Today(t)>>
Keys == {BackfillKey} \cup ({"refresh"} \X (0 .. Today(Horizon + 2)))

VARIABLES
    now,        \* the clock
    lock,       \* for each key: whose token it holds
    pc,         \* where the scheduler goroutine of each instance is
    next,       \* the refresh it waits for
    job,        \* its task: the key, today at its start, the date index, the result
    cancelled,  \* its taskCtx is done
    stopping,   \* the context of Start is done
    log,        \* etl_job_log: the status of each date
    rows,       \* ads_do_cfdi_daily: how often each date was loaded into it
    tainted,    \* history: runs of the date overlapped, or its log write failed
    spent       \* the faults that happened

db == <<log, rows, tainted>>
ctx == <<cancelled, stopping>>
vars == <<now, lock, pc, next, job, cancelled, stopping, log, rows, tainted, spent>>

PCs == {"down", "boot", "plan", "wait", "head", "check", "begin", "delete",
        "insert", "count", "finish", "sleep", "unlock"}
Results == {"none", "success", "failed", "cancelled"}
Statuses == Results \cup {"running"}

NoJob == [key |-> BackfillKey, today |-> 0, n |-> 0, res |-> "none"]

\* The date the loop is at, and whether its table may be in the middle of it.
Dt(i) == job[i].today - job[i].n
InTask(i) == pc[i] \in PCs \ {"down", "boot", "plan", "wait"}
Loading(i) == pc[i] \in {"delete", "insert", "count", "finish"}
Backfilling(i) == job[i].key = BackfillKey
\* Mutant: the two lengths are swapped.
DaysSwapped(i) == IF Backfilling(i) THEN RefreshDays ELSE BackfillDays
Days(i) == IF Backfilling(i) THEN BackfillDays ELSE RefreshDays

TypeOK ==
    /\ now \in 0 .. Horizon
    /\ lock \in [Keys -> Inst \cup {Nobody, Orphan}]
    /\ pc \in [Inst -> PCs]
    /\ next \in [Inst -> 0 .. Horizon + 2]
    /\ job \in [Inst -> [key : Keys, today : 0 .. Today(Horizon),
                         n : 0 .. BackfillDays + RefreshDays + 1, res : Results]]
    /\ cancelled \in [Inst -> BOOLEAN] /\ stopping \in [Inst -> BOOLEAN]
    /\ log \in [Dates -> Statuses]
    /\ rows \in [Dates -> Nat]
    /\ tainted \in [Dates -> BOOLEAN]
    /\ spent \in 0 .. MaxFaults

Init ==
    /\ now \in {0, 1} /\ now <= Horizon
    /\ lock = [k \in Keys |-> Nobody]
    /\ pc = [i \in Inst |-> "down"]
    /\ next = [i \in Inst |-> 0]
    /\ job = [i \in Inst |-> NoJob]
    /\ cancelled = [i \in Inst |-> FALSE] /\ stopping = [i \in Inst |-> FALSE]
    /\ log = [d \in Dates |-> "none"]
    /\ rows = [d \in Dates |-> 0]
    /\ tainted = [d \in Dates |-> FALSE]
    /\ spent = 0

At(i, label) == pc[i] = label
Go(i, label) == pc' = [pc EXCEPT ![i] = label]
Fault(kind) == kind \in Faults /\ spent < MaxFaults /\ spent' = spent + 1

\* A call that took ctx fails: for free when ctx is done, else by a fault.
CallFails(i, kind) == IF cancelled[i] THEN UNCHANGED spent ELSE Fault(kind)

-----------------------------------------------------------------------------
(* Start, runScheduler, runBackfill, runDailyRefreshLoop, withTaskLock     *)

\* The scheduler is on and Redis is configured.
Start(i) ==
    /\ At(i, "down") /\ Go(i, "boot")
    /\ cancelled' = [cancelled EXCEPT ![i] = FALSE]
    /\ stopping' = [stopping EXCEPT ![i] = FALSE]
    /\ UNCHANGED <<now, lock, next, job, db, spent>>

NoBackfill(i) ==
    /\ At(i, "boot") /\ ~BackfillOn /\ Go(i, "plan")
    /\ UNCHANGED <<now, lock, next, job, ctx, db, spent>>

\* The loop head: the context is checked before the next run is computed.
Plan(i) ==
    /\ At(i, "plan") /\ ~stopping[i] /\ Go(i, "wait")
    /\ next' = [next EXCEPT ![i] = NextRun(now)]
    /\ UNCHANGED <<now, lock, job, ctx, db, spent>>

\* Mutant: the wait for 10:00 does not watch ctx.
ExitPlanOnly(i) ==
    /\ At(i, "plan") /\ stopping[i] /\ Go(i, "down")
    /\ UNCHANGED <<now, lock, next, job, ctx, db, spent>>

\* The scheduler goroutine returns, and with it Stop.
Exit(i) ==
    /\ pc[i] \in {"plan", "wait"} /\ stopping[i] /\ Go(i, "down")
    /\ UNCHANGED <<now, lock, next, job, ctx, db, spent>>

Due(i) == At(i, "wait") /\ now >= next[i]

\* The key a task asks for, and when it asks.
Wants(i, k) == \/ At(i, "boot") /\ BackfillOn /\ k = BackfillKey
               \/ Due(i) /\ k = RefreshKey(next[i])

\* Mutant: SET instead of SETNX.
AcquireAnyway(i, k) ==
    /\ Wants(i, k)
    /\ lock' = [lock EXCEPT ![k] = i]
    /\ job' = [job EXCEPT ![i] = [key |-> k, today |-> Today(now), n |-> 1, res |-> "none"]]
    /\ cancelled' = [cancelled EXCEPT ![i] = stopping[i]]
    /\ Go(i, "head")
    /\ UNCHANGED <<now, next, stopping, db, spent>>

Acquire(i, k) ==
    /\ Wants(i, k) /\ lock[k] = Nobody
    /\ lock' = [lock EXCEPT ![k] = i]
    /\ job' = [job EXCEPT ![i] = [key |-> k, today |-> Today(now), n |-> 1, res |-> "none"]]
    /\ cancelled' = [cancelled EXCEPT ![i] = stopping[i]]
    /\ Go(i, "head")
    /\ UNCHANGED <<now, next, stopping, db, spent>>

\* "lock is held by another instance": the task is given up until the next
\* start, or the next day.
Skipped(i, k) ==
    /\ Wants(i, k) /\ lock[k] # Nobody /\ Go(i, "plan")
    /\ UNCHANGED <<now, lock, next, job, ctx, db, spent>>

\* SETNX returns an error; it may have been applied.
AcquireFails(i, k) ==
    /\ Wants(i, k) /\ Go(i, "plan")
    /\ IF stopping[i] THEN UNCHANGED spent ELSE Fault("redis")
    /\ lock' \in {lock} \cup (IF lock[k] = Nobody
                                 THEN {[lock EXCEPT ![k] = Orphan]} ELSE {})
    /\ UNCHANGED <<now, next, job, ctx, db>>

\* fn has returned and the renewal goroutine is gone: compare and delete, and
\* the loop goes on.  After an error the key lives until its TTL.
Unlock(i) ==
    /\ At(i, "unlock") /\ Go(i, "plan")
    /\ LET k == job[i].key
           give(o) == [lock EXCEPT ![k] = o]
       IN  \/ /\ lock' = IF lock[k] = i THEN give(Nobody) ELSE lock
              /\ UNCHANGED spent
           \/ /\ Fault("redis") /\ lock[k] = i
              /\ lock' \in {give(Nobody), give(Orphan)}
    /\ job' = [job EXCEPT ![i] = NoJob]
    /\ UNCHANGED <<now, next, ctx, db>>

-----------------------------------------------------------------------------
(* Backfill and RunWindow                                                  *)

NextIndex(i) == job' = [job EXCEPT ![i].n = @ + 1, ![i].res = "none"]

\* No date left, or the context is done.
LeaveLoop(i) ==
    /\ At(i, "head") /\ (cancelled[i] \/ job[i].n > Days(i)) /\ Go(i, "unlock")
    /\ UNCHANGED <<now, lock, next, job, ctx, db, spent>>

\* RunWindow runs every date, Backfill asks the log first.
TakeDate(i) ==
    /\ At(i, "head") /\ ~cancelled[i] /\ job[i].n <= Days(i)
    /\ Go(i, IF Backfilling(i) THEN "check" ELSE "begin")
    /\ UNCHANGED <<now, lock, next, job, ctx, db, spent>>

\* IsSuccess says no.
NotDone(i) ==
    /\ At(i, "check") /\ log[Dt(i)] # "success" /\ Go(i, "begin")
    /\ UNCHANGED <<now, lock, next, job, ctx, db, spent>>

\* IsSuccess says yes, or fails: on to the next date, without a pause.
SkipDate(i) ==
    /\ At(i, "check") /\ Go(i, "head")
    /\ \/ log[Dt(i)] = "success" /\ UNCHANGED spent
       \/ CallFails(i, "log")
    /\ NextIndex(i)
    /\ UNCHANGED <<now, lock, next, ctx, db>>

\* time.Sleep between two dates is over.
Wake(i) ==
    /\ At(i, "sleep") /\ Go(i, "head") /\ NextIndex(i)
    /\ UNCHANGED <<now, lock, next, ctx, db, spent>>

-----------------------------------------------------------------------------
(* RunETL                                                                  *)

Overlaps(i) == \E j \in Inst \ {i} : Loading(j) /\ Dt(j) = Dt(i)

\* Mutant: the statement only inserts; a date that has a row keeps its status.
BeginInsertOnly(i) ==
    /\ At(i, "begin") /\ Go(i, "delete")
    /\ log' = IF log[Dt(i)] = "none" THEN [log EXCEPT ![Dt(i)] = "running"] ELSE log
    /\ tainted' = [tainted EXCEPT ![Dt(i)] = Overlaps(i)]
    /\ UNCHANGED <<now, lock, next, job, ctx, rows, spent>>

\* upsertLog(running) before the table is touched; its error is only logged.
Begin(i) ==
    /\ At(i, "begin") /\ Go(i, "delete")
    /\ \/ /\ log' = [log EXCEPT ![Dt(i)] = "running"]
          /\ tainted' = [tainted EXCEPT ![Dt(i)] = Overlaps(i)]
          /\ UNCHANGED spent
       \/ /\ Fault("log")
          /\ tainted' = [tainted EXCEPT ![Dt(i)] = TRUE]
          /\ UNCHANGED log
    /\ UNCHANGED <<now, lock, next, job, ctx, rows>>

\* A statement on the table of the date, which it leaves with r rows: it
\* succeeds and the run goes on, or it fails, perhaps after being applied.
Statement(i, label, after, r) ==
    /\ At(i, label)
    /\ \/ /\ rows' = [rows EXCEPT ![Dt(i)] = r]
          /\ Go(i, after)
          /\ job' = IF after = "finish" THEN [job EXCEPT ![i].res = "success"] ELSE job
          /\ UNCHANGED spent
       \/ /\ CallFails(i, "table")
          /\ rows' \in {rows, [rows EXCEPT ![Dt(i)] = r]}
          /\ Go(i, "finish")
          /\ job' = [job EXCEPT ![i].res = IF cancelled[i] THEN "cancelled" ELSE "failed"]
    /\ UNCHANGED <<now, lock, next, ctx, log, tainted>>

Delete(i) == Statement(i, "delete", "insert", 0)
Insert(i) == Statement(i, "insert", "count", rows[Dt(i)] + 1)
Count(i) == Statement(i, "count", "finish", rows[Dt(i)])

\* Mutant: the deferred function sees a shadowed err, always nil.
FinishAlwaysSuccess(i) ==
    /\ At(i, "finish") /\ Go(i, "sleep")
    /\ log' = IF log[Dt(i)] = "none" THEN log ELSE [log EXCEPT ![Dt(i)] = "success"]
    /\ UNCHANGED <<now, lock, next, job, ctx, rows, tainted, spent>>

\* The deferred upsertLog: an UPDATE, which finds no row when the log has none.
Finish(i) ==
    /\ At(i, "finish") /\ Go(i, "sleep")
    /\ \/ /\ log' = IF log[Dt(i)] = "none" THEN log
                       ELSE [log EXCEPT ![Dt(i)] = job[i].res]
          /\ UNCHANGED spent
       \/ Fault("log") /\ UNCHANGED log
    /\ UNCHANGED <<now, lock, next, job, ctx, rows, tainted>>

-----------------------------------------------------------------------------
(* renewLockLoop, Stop, crashes, Redis and the clock                       *)

Cancel(i) == cancelled' = [cancelled EXCEPT ![i] = TRUE]

\* The key of a running task expires or is dropped.
LoseLease(i) ==
    /\ InTask(i) /\ lock[job[i].key] = i /\ Fault("lease")
    /\ lock' = [lock EXCEPT ![job[i].key] = Nobody]
    /\ UNCHANGED <<now, pc, next, job, ctx, db>>

\* The renewal finds the key lost, or fails: the task is cancelled.
RenewFails(i) ==
    /\ InTask(i) /\ ~cancelled[i] /\ Cancel(i)
    /\ IF lock[job[i].key] # i THEN UNCHANGED spent ELSE Fault("redis")
    /\ UNCHANGED <<now, lock, pc, next, job, stopping, db>>

Stop(i) ==
    /\ pc[i] # "down" /\ ~stopping[i] /\ Fault("stop") /\ Cancel(i)
    /\ stopping' = [stopping EXCEPT ![i] = TRUE]
    /\ UNCHANGED <<now, lock, pc, next, job, db>>

Crash(i) ==
    /\ pc[i] # "down" /\ Fault("crash") /\ Go(i, "down")
    /\ lock' = [k \in Keys |-> IF lock[k] = i THEN Orphan ELSE lock[k]]
    /\ job' = [job EXCEPT ![i] = NoJob]
    /\ UNCHANGED <<now, next, ctx, db>>

Expire(k) ==
    /\ lock[k] = Orphan
    /\ lock' = [lock EXCEPT ![k] = Nobody]
    /\ UNCHANGED <<now, pc, next, job, ctx, db, spent>>

Refreshing(i) == Due(i) \/ (InTask(i) /\ ~Backfilling(i))

Tick ==
    /\ now < Horizon /\ (Punctual => \A i \in Inst : ~Refreshing(i))
    /\ now' = now + 1
    /\ UNCHANGED <<lock, pc, next, job, ctx, db, spent>>

Scheduler(i) ==
    \/ NoBackfill(i) \/ Plan(i) \/ Exit(i) \/ Unlock(i)
    \/ \E k \in Keys : Acquire(i, k) \/ Skipped(i, k) \/ AcquireFails(i, k)

Loop(i) == LeaveLoop(i) \/ TakeDate(i) \/ NotDone(i) \/ SkipDate(i) \/ Wake(i)

RunETL(i) == Begin(i) \/ Delete(i) \/ Insert(i) \/ Count(i) \/ Finish(i)

Environment(i) == LoseLease(i) \/ RenewFails(i) \/ Stop(i) \/ Crash(i)

Next ==
    \/ Tick
    \/ \E k \in Keys : Expire(k)
    \/ \E i \in Inst : Start(i) \/ Scheduler(i) \/ Loop(i) \/ RunETL(i) \/ Environment(i)

Spec == Init /\ [][Next]_vars

\* Goroutines run, statements and sleeps return, a key nobody renews expires,
\* the clock goes on.
Fairness ==
    /\ WF_vars(Tick)
    /\ \A k \in Keys : WF_vars(Expire(k))
    /\ \A i \in Inst : WF_vars(Scheduler(i)) /\ WF_vars(Loop(i)) /\ WF_vars(RunETL(i))

FairSpec == Spec /\ Fairness

-----------------------------------------------------------------------------
(* Properties *)

\* A successful log entry can be trusted, whatever fails: the date holds one
\* copy of its aggregate, unless its last run overlapped another one or could
\* not write "running" into the log.  A later undisturbed run heals the date.
TrustedSuccess == \A d \in Dates : log[d] = "success" /\ ~tainted[d] => rows[d] = 1

\* With the refresh alone under its lock, runs of a date never overlap, however
\* the instances start, stop, crash or lose calls to Redis.
SerialRuns ==
    /\ \A i, j \in Inst : Loading(i) /\ Loading(j) /\ Dt(i) = Dt(j) => i = j
    /\ \A d \in Dates : ~tainted[d]

\* What the dashboards rely on, then: DailyTable.
Table == INSTANCE DailyTable WITH
           published <- {d \in Dates : log[d] = "success"}, copies <- rows
KeepsDailyTable == Table!Spec

\* Stop (wg.Wait) returns, wherever the scheduler is when it is called.
StopReturns == \A i \in Inst : stopping[i] ~> pc[i] = "down"

\* The dates a refresh due at time t loads.
Window(t) == Today(t) - RefreshDays .. Today(t) - 1

\* An instance that waits for 10:00 of a date gets every date of the window
\* behind it loaded, by itself or by the holder of the key, unless a fault
\* (a stop among them) happens.
Refreshed ==
    \A d \in Dates :
        (\E i \in Inst : At(i, "wait") /\ next[i] <= Horizon /\ d \in Window(next[i]))
            ~> (log[d] = "success" \/ spent > 0)
=============================================================================
