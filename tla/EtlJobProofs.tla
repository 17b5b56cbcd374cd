---------------------------- MODULE EtlJobProofs ----------------------------
(***************************************************************************)
(* Proofs about EtlJob, for every set of instances, every length of the    *)
(* windows, every selection and number of faults.                          *)
(***************************************************************************)
EXTENDS EtlJob, TLAPS

JobType == [key : Keys, today : 0 .. Today(Horizon),
            n : 0 .. BackfillDays + RefreshDays + 1, res : Results]

\* The date a task is at lies in its window.
JobInv(i) ==
    /\ InTask(i) => job[i].n >= 1
    /\ pc[i] \in {"check", "begin", "sleep"} \/ Loading(i) => job[i].n <= Days(i)

\* A run whose date is not tainted is alone on it, the log says so, and the
\* table holds what the statements so far leave.
RunInv(i) ==
    Loading(i) /\ ~tainted[Dt(i)] =>
        /\ log[Dt(i)] = "running"
        /\ pc[i] = "insert" => rows[Dt(i)] = 0
        /\ pc[i] = "count" => rows[Dt(i)] = 1
        /\ pc[i] = "finish" /\ job[i].res = "success" => rows[Dt(i)] = 1
        /\ \A j \in Inst : Loading(j) /\ Dt(j) = Dt(i) => j = i

IInv == TypeOK /\ TrustedSuccess /\ \A i \in Inst : JobInv(i) /\ RunInv(i)

LEMMA TodayType ==
    ASSUME NEW t \in Nat
    PROVE Today(t) \in Nat /\ Today(t) <= Today(t + 2)
    BY DEF Today

LEMMA TodayMonotone ==
    ASSUME NEW s \in Nat, NEW t \in Nat, s <= t
    PROVE Today(s) <= Today(t)
    BY DEF Today

\* The day the clock shows is within the horizon.
LEMMA TodayNow ==
    ASSUME TypeOK
    PROVE Today(now) \in 0 .. Today(Horizon)
  <1>1. now \in Nat /\ Horizon \in Nat /\ now <= Horizon
    BY JobAssumption DEF TypeOK
  <1>2. Today(now) \in Nat /\ Today(Horizon) \in Nat
    BY <1>1, TodayType
  <1>3. Today(now) <= Today(Horizon)
    BY <1>1, TodayMonotone
  <1>4. QED
    BY <1>2, <1>3

\* The date a run is at is a date of the log and of the table.
LEMMA DtType ==
    ASSUME TypeOK, NEW i \in Inst, JobInv(i), InTask(i), job[i].n <= Days(i)
    PROVE Dt(i) \in Dates
  <1>1. Today(Horizon) \in Nat
    BY JobAssumption, TodayType
  <1>2. job[i].today \in 0 .. Today(Horizon) /\ job[i].n \in Nat
    BY <1>1, JobAssumption DEF TypeOK
  <1>3. job[i].n >= 1 /\ job[i].n <= BackfillDays + RefreshDays
    BY <1>2, JobAssumption DEF JobInv, Days
  <1>4. QED
    BY <1>1, <1>2, <1>3, JobAssumption DEF Dt, Dates

LEMMA InitInv == Init => IInv
  <1> SUFFICES ASSUME Init PROVE IInv
    OBVIOUS
  <1>1. NoJob \in [key : Keys, today : 0 .. Today(Horizon),
                   n : 0 .. BackfillDays + RefreshDays + 1, res : Results]
    BY JobAssumption, TodayType DEF NoJob, Keys, Results
  <1>2. now \in 0 .. Horizon /\ spent \in 0 .. MaxFaults /\ next \in [Inst -> 0 .. Horizon + 2]
    BY JobAssumption DEF Init
  <1>3. /\ lock \in [Keys -> Inst \cup {Nobody, Orphan}] /\ pc \in [Inst -> PCs]
        /\ job \in [Inst -> [key : Keys, today : 0 .. Today(Horizon),
                             n : 0 .. BackfillDays + RefreshDays + 1, res : Results]]
    BY <1>1 DEF Init, PCs
  <1>4. TypeOK
    BY <1>2, <1>3 DEF Init, TypeOK, Statuses, Results
  <1>5. TrustedSuccess
    BY DEF Init, TrustedSuccess
  <1>6. ASSUME NEW i \in Inst PROVE JobInv(i) /\ RunInv(i)
    BY DEF Init, JobInv, RunInv, InTask, Loading
  <1>7. QED
    BY <1>4, <1>5, <1>6 DEF IInv

\* Steps that touch neither the log nor the table, and after which no instance
\* is loading that was not before, at the date it was before.
Quiet == /\ UNCHANGED db
         /\ \A i \in Inst : Loading(i)' => pc'[i] = pc[i] /\ job'[i] = job[i]

LEMMA QuietInv ==
    ASSUME IInv, Quiet, TypeOK', \A i \in Inst : JobInv(i)'
    PROVE IInv'
  <1>1. TrustedSuccess'
    BY DEF Quiet, IInv, TrustedSuccess, db
  <1>2. ASSUME NEW i \in Inst PROVE RunInv(i)'
    BY DEF Quiet, IInv, RunInv, db, Loading, Dt
  <1>3. QED
    BY <1>1, <1>2 DEF IInv
-----------------------------------------------------------------------------
LEMMA NoJobType ==
    NoJob \in [key : Keys, today : 0 .. Today(Horizon),
               n : 0 .. BackfillDays + RefreshDays + 1, res : Results]
    BY JobAssumption, TodayType DEF NoJob, Keys, Results

LEMMA StartQuiet ==
    ASSUME IInv, NEW i \in Inst, Start(i)
    PROVE TypeOK' /\ Quiet /\ \A j \in Inst : JobInv(j)'
    BY DEF IInv, TypeOK, PCs, Quiet, JobInv, Start, At, Go, db, InTask, Loading, Days, Backfilling

LEMMA SchedulerQuiet ==
    ASSUME IInv, NEW i \in Inst, Scheduler(i)
    PROVE TypeOK' /\ Quiet /\ \A j \in Inst : JobInv(j)'
  <1> USE DEF IInv, TypeOK, PCs, Quiet, JobInv, At, Go, ctx, db, InTask, Loading, Days, Backfilling
  <1>1. CASE NoBackfill(i)
    BY <1>1 DEF NoBackfill
  <1>2. CASE Plan(i)
    <2>1. NextRun(now) \in 0 .. Horizon + 2
      BY JobAssumption DEF NextRun
    <2>2. QED
      BY <1>2, <2>1 DEF Plan
  <1>3. CASE Exit(i)
    BY <1>3 DEF Exit
  <1>4. CASE Unlock(i)
    <2>1. lock' \in [Keys -> Inst \cup {Nobody, Orphan}]
      BY <1>4 DEF Unlock, Fault
    <2>2. spent' \in 0 .. MaxFaults
      BY <1>4, JobAssumption DEF Unlock, Fault
    <2>3. /\ pc' = [pc EXCEPT ![i] = "plan"] /\ job' = [job EXCEPT ![i] = NoJob]
          /\ UNCHANGED <<now, next, ctx, db>>
      BY <1>4 DEF Unlock
    <2>4. job' \in [Inst -> JobType]
      BY <2>3, NoJobType DEF JobType
    <2>5. TypeOK'
      BY <2>1, <2>2, <2>3, <2>4 DEF JobType
    <2>6. Quiet
      BY <2>3
    <2>7. ASSUME NEW j \in Inst PROVE JobInv(j)'
      BY <2>3, <2>4
    <2>8. QED
      BY <2>5, <2>6, <2>7
  <1>5. ASSUME NEW k \in Keys, Acquire(i, k)
        PROVE TypeOK' /\ Quiet /\ \A j \in Inst : JobInv(j)'
    <2>1. [key |-> k, today |-> Today(now), n |-> 1, res |-> "none"] \in
             [key : Keys, today : 0 .. Today(Horizon),
              n : 0 .. BackfillDays + RefreshDays + 1, res : Results]
      BY TodayNow, JobAssumption DEF Results
    <2>2. pc[i] \in {"boot", "wait"} /\ pc' = [pc EXCEPT ![i] = "head"]
      BY <1>5 DEF Acquire, Wants, Due
    <2>3. QED
      BY <1>5, <2>1, <2>2 DEF Acquire
  <1>6. ASSUME NEW k \in Keys, Skipped(i, k)
        PROVE TypeOK' /\ Quiet /\ \A j \in Inst : JobInv(j)'
    BY <1>6 DEF Skipped, Wants, Due
  <1>7. ASSUME NEW k \in Keys, AcquireFails(i, k)
        PROVE TypeOK' /\ Quiet /\ \A j \in Inst : JobInv(j)'
    <2>1. lock' \in [Keys -> Inst \cup {Nobody, Orphan}] /\ spent' \in 0 .. MaxFaults
      BY <1>7, JobAssumption DEF AcquireFails, Fault
    <2>2. QED
      BY <1>7, <2>1 DEF AcquireFails, Wants, Due
  <1>8. QED
    BY <1>1, <1>2, <1>3, <1>4, <1>5, <1>6, <1>7 DEF Scheduler

\* i := i + 1 in the loops stays below the end of the longest window plus one.
LEMMA IndexStep ==
    ASSUME TypeOK, NEW i \in Inst, JobInv(i), pc[i] \in {"check", "sleep"}, NextIndex(i)
    PROVE /\ job' \in [Inst -> JobType]
          /\ job'[i].n = job[i].n + 1
          /\ \A j \in Inst \ {i} : job'[j] = job[j]
  <1>1. job[i] \in JobType
    BY DEF TypeOK, JobType
  <1>2. job[i].n + 1 \in 0 .. BackfillDays + RefreshDays + 1
    BY <1>1, JobAssumption DEF JobType, JobInv, Days
  <1>3. [job[i] EXCEPT !.n = @ + 1, !.res = "none"] \in JobType
    BY <1>1, <1>2 DEF JobType, Results
  <1>4. job' = [job EXCEPT ![i] = [job[i] EXCEPT !.n = @ + 1, !.res = "none"]]
    BY DEF NextIndex
  <1>5. QED
    BY <1>1, <1>3, <1>4 DEF TypeOK, JobType

LEMMA LoopQuiet ==
    ASSUME IInv, NEW i \in Inst, Loop(i)
    PROVE TypeOK' /\ Quiet /\ \A j \in Inst : JobInv(j)'
  <1> USE DEF IInv, TypeOK, PCs, Quiet, JobInv, At, Go, ctx, db, InTask, Loading, Days, Backfilling
  <1>1. CASE LeaveLoop(i)
    BY <1>1 DEF LeaveLoop
  <1>2. CASE TakeDate(i)
    BY <1>2 DEF TakeDate
  <1>3. CASE NotDone(i)
    BY <1>3 DEF NotDone
  <1>4. CASE SkipDate(i)
    <2>1. spent' \in 0 .. MaxFaults
      BY <1>4, JobAssumption DEF SkipDate, CallFails, Fault
    <2>2. QED
      BY <1>4, <2>1, IndexStep DEF SkipDate, JobType
  <1>5. CASE Wake(i)
    BY <1>5, IndexStep DEF Wake, JobType
  <1>6. QED
    BY <1>1, <1>2, <1>3, <1>4, <1>5 DEF Loop

LEMMA EnvironmentQuiet ==
    ASSUME IInv, NEW i \in Inst, Environment(i)
    PROVE TypeOK' /\ Quiet /\ \A j \in Inst : JobInv(j)'
  <1> USE DEF IInv, TypeOK, PCs, Quiet, JobInv, At, Go, ctx, db, InTask, Loading, Days, Backfilling
  <1>1. spent' \in 0 .. MaxFaults
    BY JobAssumption DEF Environment, LoseLease, RenewFails, Stop, Crash, Fault
  <1>2. CASE LoseLease(i)
    BY <1>1, <1>2 DEF LoseLease
  <1>3. CASE RenewFails(i)
    BY <1>1, <1>3 DEF RenewFails, Cancel
  <1>4. CASE Stop(i)
    BY <1>1, <1>4 DEF Stop, Cancel
  <1>5. CASE Crash(i)
    BY <1>1, <1>5, NoJobType DEF Crash
  <1>6. QED
    BY <1>2, <1>3, <1>4, <1>5 DEF Environment

LEMMA ClockQuiet ==
    ASSUME IInv, Tick \/ \E k \in Keys : Expire(k)
    PROVE TypeOK' /\ Quiet /\ \A j \in Inst : JobInv(j)'
  <1> USE DEF IInv, TypeOK, PCs, Quiet, JobInv, ctx, db, InTask, Loading, Days, Backfilling
  <1>1. CASE Tick
    BY <1>1, JobAssumption DEF Tick
  <1>2. ASSUME NEW k \in Keys, Expire(k)
        PROVE TypeOK' /\ Quiet /\ \A j \in Inst : JobInv(j)'
    BY <1>2 DEF Expire
  <1>3. QED
    BY <1>1, <1>2
-----------------------------------------------------------------------------
(* RunETL: what makes a successful log entry trustworthy.                  *)

\* Writing "running" first: the date is no longer trusted, and either the run
\* is alone on it or the date is tainted.
LEMMA BeginInv == ASSUME IInv, NEW i \in Inst, Begin(i) PROVE IInv'
  <1> DEFINE d == Dt(i)
  <1>0. /\ TypeOK /\ JobInv(i) /\ pc[i] = "begin" /\ pc' = [pc EXCEPT ![i] = "delete"]
        /\ UNCHANGED <<now, lock, next, job, cancelled, stopping, rows>>
    BY DEF IInv, Begin, At, Go, ctx
  <1>1. d \in Dates
    BY <1>0, DtType DEF InTask, JobInv, PCs
  <1>2. TypeOK'
    <2>1. spent' \in 0 .. MaxFaults
      BY <1>0, JobAssumption DEF Begin, Fault, TypeOK
    <2>2. log' \in [Dates -> Statuses] /\ tainted' \in [Dates -> BOOLEAN]
      BY <1>0 DEF Begin, TypeOK, Statuses, Overlaps
    <2>3. QED
      BY <1>0, <2>1, <2>2 DEF TypeOK, PCs
  <1>3. \A j \in Inst : JobInv(j)'
    BY <1>0 DEF IInv, TypeOK, JobInv, InTask, Loading, Days, Backfilling, PCs
  <1>4. CASE log' = [log EXCEPT ![d] = "running"] /\ tainted' = [tainted EXCEPT ![d] = Overlaps(i)]
    <2>1. TrustedSuccess'
      BY <1>0, <1>1, <1>4 DEF IInv, TypeOK, TrustedSuccess
    <2>2. ASSUME NEW j \in Inst PROVE RunInv(j)'
      <3>1. CASE j = i
        BY <1>0, <1>1, <1>4, <3>1 DEF IInv, TypeOK, RunInv, Loading, Dt, Overlaps
      <3>2. CASE j # i /\ Dt(j) = d
        BY <1>0, <1>1, <1>4, <3>2 DEF IInv, TypeOK, RunInv, Loading, Dt, Overlaps
      <3>3. CASE j # i /\ Dt(j) # d
        <4> SUFFICES ASSUME Loading(j), ~tainted[Dt(j)] PROVE RunInv(j)'
          BY <1>0, <1>4, <3>3 DEF TypeOK, RunInv, Loading, Dt
        <4>1. Dt(j) \in Dates
          BY <1>0, DtType DEF IInv, JobInv, InTask, Loading, PCs
        <4>2. QED
          BY <1>0, <1>1, <1>4, <3>3, <4>1 DEF IInv, TypeOK, RunInv, Loading, Dt
      <3>4. QED
        BY <3>1, <3>2, <3>3
    <2>3. QED
      BY <1>2, <1>3, <2>1, <2>2 DEF IInv
  <1>5. CASE log' = log /\ tainted' = [tainted EXCEPT ![d] = TRUE]
    <2>1. TrustedSuccess'
      BY <1>0, <1>1, <1>5 DEF IInv, TypeOK, TrustedSuccess
    <2>2. ASSUME NEW j \in Inst PROVE RunInv(j)'
      BY <1>0, <1>1, <1>5 DEF IInv, TypeOK, RunInv, Loading, Dt
    <2>3. QED
      BY <1>2, <1>3, <2>1, <2>2 DEF IInv
  <1>6. QED
    BY <1>4, <1>5 DEF Begin

\* A statement changes the rows of the date of its run, where no other trusted
\* run is; the run goes on only when the statement succeeded.
LEMMA StatementInv ==
    ASSUME IInv, NEW i \in Inst, Delete(i) \/ Insert(i) \/ Count(i)
    PROVE IInv'
  <1> DEFINE d == Dt(i)
  <1>0. TypeOK /\ JobInv(i) /\ Loading(i) /\ InTask(i)
    BY DEF IInv, Delete, Insert, Count, Statement, At, Loading, InTask, PCs
  <1>1. d \in Dates /\ rows[d] \in Nat
    BY <1>0, DtType DEF JobInv, TypeOK
  <1>2. /\ UNCHANGED <<now, lock, next, cancelled, stopping, log, tainted>>
        /\ \E l \in {"insert", "count", "finish"} : pc' = [pc EXCEPT ![i] = l]
        /\ spent' \in 0 .. MaxFaults
    BY <1>0, JobAssumption
    DEF Delete, Insert, Count, Statement, Go, CallFails, Fault, ctx, TypeOK
  <1>3. \E r \in Nat : rows' = [rows EXCEPT ![d] = r]
    <2>1. rows = [rows EXCEPT ![d] = rows[d]]
      BY <1>0, <1>1 DEF TypeOK
    <2>2. QED
      BY <1>1, <2>1 DEF Delete, Insert, Count, Statement
  <1>4. \E r \in Results : job' = job \/ job' = [job EXCEPT ![i].res = r]
    BY DEF Delete, Insert, Count, Statement, Results
  <1>5. /\ job' \in [Inst -> JobType]
        /\ \A j \in Inst : job'[j].key = job[j].key /\ job'[j].n = job[j].n /\ Dt(j)' = Dt(j)
    <2>1. job \in [Inst -> JobType]
      BY <1>0 DEF TypeOK, JobType
    <2>2. CASE job' = job
      BY <2>1, <2>2 DEF Dt
    <2>3. ASSUME NEW r \in Results, job' = [job EXCEPT ![i].res = r]
          PROVE /\ job' \in [Inst -> JobType]
                /\ \A j \in Inst : job'[j].key = job[j].key /\ job'[j].n = job[j].n
                                   /\ Dt(j)' = Dt(j)
      <3>1. job' = [job EXCEPT ![i] = [job[i] EXCEPT !.res = r]]
        BY <2>3
      <3>2. [job[i] EXCEPT !.res = r] \in JobType
        BY <2>1 DEF JobType
      <3>3. \A j \in Inst : job'[j] = IF j = i THEN [job[i] EXCEPT !.res = r] ELSE job[j]
        BY <2>1, <3>1
      <3>4. \A j \in Inst : job'[j].key = job[j].key /\ job'[j].n = job[j].n
                            /\ job'[j].today = job[j].today
        BY <2>1, <3>3 DEF JobType
      <3>5. QED
        BY <2>1, <3>1, <3>2, <3>4 DEF Dt
    <2>4. QED
      BY <1>4, <2>2, <2>3
  <1>6. TypeOK'
    <2>1. rows' \in [Dates -> Nat] /\ pc' \in [Inst -> PCs]
      BY <1>0, <1>2, <1>3 DEF TypeOK, PCs
    <2>2. QED
      BY <1>0, <1>2, <1>5, <2>1 DEF TypeOK, JobType
  <1>7. \A j \in Inst : JobInv(j)'
    BY <1>0, <1>2, <1>5 DEF IInv, TypeOK, JobInv, InTask, Loading, Days, Backfilling, PCs
  <1>8. TrustedSuccess'
    BY <1>0, <1>1, <1>2, <1>3 DEF IInv, TypeOK, TrustedSuccess, RunInv
  <1>9. RunInv(i)'
    <2>1. \A j \in Inst : Loading(j)' => Loading(j)
      BY <1>0, <1>2 DEF TypeOK, Loading
    <2>2. log'[d] = log[d] /\ tainted'[d] = tainted[d] /\ Dt(i)' = d
      BY <1>2, <1>5
    <2>3. ASSUME ~tainted[d]
          PROVE /\ pc'[i] = "insert" => rows'[d] = 0
                /\ pc'[i] = "count" => rows'[d] = 1
                /\ pc'[i] = "finish" /\ job'[i].res = "success" => rows'[d] = 1
      <3>1. CASE Delete(i)
        BY <1>0, <1>1, <3>1 DEF TypeOK, Delete, Statement, At, Go
      <3>2. CASE Insert(i)
        BY <1>0, <1>1, <2>3, <3>2 DEF IInv, TypeOK, RunInv, Insert, Statement, At, Go
      <3>3. CASE Count(i)
        BY <1>0, <1>1, <2>3, <3>3 DEF IInv, TypeOK, RunInv, Count, Statement, At, Go
      <3>4. QED
        BY <3>1, <3>2, <3>3
    <2>4. QED
      BY <1>0, <1>5, <2>1, <2>2, <2>3 DEF IInv, RunInv
  <1>10. ASSUME NEW j \in Inst, j # i PROVE RunInv(j)'
    <2> SUFFICES ASSUME Loading(j), ~tainted[Dt(j)] PROVE RunInv(j)'
      BY <1>0, <1>2, <1>5, <1>10 DEF TypeOK, RunInv, Loading
    <2>1. Dt(j) # d /\ Dt(j)' = Dt(j)
      BY <1>0, <1>5, <1>10 DEF IInv, RunInv
    <2>2. rows'[Dt(j)] = rows[Dt(j)] /\ job'[j] = job[j] /\ pc'[j] = pc[j]
      BY <1>0, <1>2, <1>3, <1>4, <1>10, <2>1 DEF TypeOK
    <2>3. \A m \in Inst : Loading(m)' => Loading(m)
      BY <1>0, <1>2 DEF TypeOK, Loading
    <2>4. QED
      BY <1>2, <1>5, <2>1, <2>2, <2>3 DEF IInv, RunInv
  <1>11. QED
    BY <1>6, <1>7, <1>8, <1>9, <1>10 DEF IInv
\* The deferred log entry says success only when every statement succeeded.
LEMMA FinishInv == ASSUME IInv, NEW i \in Inst, Finish(i) PROVE IInv'
  <1> DEFINE d == Dt(i)
  <1>0. /\ TypeOK /\ JobInv(i) /\ pc[i] = "finish" /\ pc' = [pc EXCEPT ![i] = "sleep"]
        /\ UNCHANGED <<now, lock, next, job, cancelled, stopping, rows, tainted>>
    BY DEF IInv, Finish, At, Go, ctx
  <1>1. d \in Dates
    BY <1>0, DtType DEF InTask, JobInv, Loading, PCs
  <1>2. log' = log \/ log' = [log EXCEPT ![d] = job[i].res]
    BY DEF Finish
  <1>3. TypeOK'
    <2>1. spent' \in 0 .. MaxFaults
      BY <1>0, JobAssumption DEF Finish, Fault, TypeOK
    <2>2. log' \in [Dates -> Statuses]
      BY <1>0, <1>2 DEF TypeOK, Statuses
    <2>3. QED
      BY <1>0, <2>1, <2>2 DEF TypeOK, PCs
  <1>4. \A j \in Inst : JobInv(j)'
    BY <1>0 DEF IInv, TypeOK, JobInv, InTask, Loading, Days, Backfilling, PCs
  <1>5. TrustedSuccess'
    BY <1>0, <1>1, <1>2 DEF IInv, TypeOK, TrustedSuccess, RunInv, Loading
  <1>6. ASSUME NEW j \in Inst PROVE RunInv(j)'
    <2> SUFFICES ASSUME Loading(j)', ~tainted[Dt(j)] PROVE RunInv(j)'
      BY <1>0 DEF RunInv, Dt
    <2>1. j # i /\ Loading(j) /\ Loading(i)
      BY <1>0 DEF TypeOK, Loading
    <2>2. Dt(j) # d
      BY <2>1 DEF IInv, RunInv
    <2>3. log'[Dt(j)] = log[Dt(j)] /\ pc'[j] = pc[j] /\ Dt(j)' = Dt(j)
      <3>1. Dt(j) \in Dates
        BY <1>0, <2>1, DtType DEF IInv, JobInv, InTask, Loading, PCs
      <3>2. QED
        BY <1>0, <1>2, <2>1, <2>2, <3>1 DEF TypeOK, Dt
    <2>4. \A m \in Inst : Loading(m)' => Loading(m) /\ Dt(m)' = Dt(m)
      BY <1>0 DEF TypeOK, Loading, Dt
    <2>5. QED
      BY <1>0, <2>1, <2>3, <2>4 DEF IInv, RunInv
  <1>7. QED
    BY <1>3, <1>4, <1>5, <1>6 DEF IInv

LEMMA NextInv == IInv /\ [Next]_vars => IInv'
  <1> SUFFICES ASSUME IInv, [Next]_vars PROVE IInv'
    OBVIOUS
  <1>1. CASE UNCHANGED vars
    <2>1. TypeOK' /\ Quiet /\ \A j \in Inst : JobInv(j)'
      BY <1>1 DEF vars, IInv, TypeOK, Quiet, db, JobInv, InTask, Loading, Days, Backfilling
    <2>2. QED
      BY <2>1, QuietInv
  <1>2. CASE Tick \/ \E k \in Keys : Expire(k)
    BY <1>2, ClockQuiet, QuietInv
  <1>3. ASSUME NEW i \in Inst, Start(i) \/ Scheduler(i) \/ Loop(i) \/ Environment(i)
        PROVE IInv'
    BY <1>3, StartQuiet, SchedulerQuiet, LoopQuiet, EnvironmentQuiet, QuietInv
  <1>4. ASSUME NEW i \in Inst, RunETL(i) PROVE IInv'
    BY <1>4, BeginInv, StatementInv, FinishInv DEF RunETL
  <1>5. QED
    BY <1>1, <1>2, <1>3, <1>4 DEF Next

\* The inductive invariant holds in every reachable state.
THEOREM Invariant == Spec => []IInv
    BY InitInv, NextInv, PTL DEF Spec

\* Every variable keeps its type: no loop leaves its window, the clock and the
\* faults stay within their bounds.
THEOREM TypeCorrect == Spec => []TypeOK
  <1>1. IInv => TypeOK
    BY DEF IInv
  <1>2. QED
    BY <1>1, Invariant, PTL

\* A successful entry of etl_job_log can be trusted whatever fails: the date
\* holds one copy, unless its last run overlapped another one or could not
\* write "running" (RunETL, upsertLog).
THEOREM SuccessIsTrusted == Spec => []TrustedSuccess
  <1>1. IInv => TrustedSuccess
    BY DEF IInv
  <1>2. QED
    BY <1>1, Invariant, PTL

-----------------------------------------------------------------------------
(* With the daily refresh alone: no backfill, no lease and no log write    *)
(* lost.  Every task then works under the key of the day the clock shows,  *)
(* which it holds until it has returned.                                   *)

RefreshAlone == ~BackfillOn /\ Punctual /\ Faults \cap {"lease", "log"} = {}

\* The task in progress is the refresh of today and its lock is held.
HoldsToday(i) == InTask(i) => job[i].key = RefreshKey(now) /\ lock[job[i].key] = i

\* Nobody waits for a refresh the clock has passed.
NotLate(i) == pc[i] = "wait" => next[i] >= now

SerialInv ==
    /\ \A i \in Inst : HoldsToday(i) /\ NotLate(i)
    /\ \A d \in Dates : ~tainted[d]

LEMMA TodayKey == TypeOK => RefreshKey(now) \in Keys /\ RefreshKey(now) # BackfillKey
  <1> SUFFICES ASSUME TypeOK PROVE RefreshKey(now) \in Keys /\ RefreshKey(now) # BackfillKey
    OBVIOUS
  <1>1. now \in Nat /\ Horizon \in Nat /\ now <= Horizon + 2
    BY JobAssumption DEF TypeOK
  <1>2. Today(now) \in 0 .. Today(Horizon + 2)
    BY <1>1, TodayType, TodayMonotone
  <1>3. QED
    BY <1>2 DEF Keys, RefreshKey, BackfillKey

\* Two tasks would hold one key: there is one at most.
LEMMA OneTask ==
    ASSUME SerialInv, NEW i \in Inst, NEW j \in Inst, InTask(i), InTask(j)
    PROVE  i = j
    BY DEF SerialInv, HoldsToday

\* A refresh that is due is the one of this moment.
LEMMA DueNow ==
    ASSUME TypeOK, SerialInv, NEW i \in Inst, Due(i)
    PROVE  next[i] = now
  <1>1. next[i] \in Int /\ now \in Int
    BY JobAssumption DEF TypeOK
  <1>2. next[i] >= now /\ now >= next[i]
    BY DEF SerialInv, NotLate, Due, At
  <1>3. QED
    BY <1>1, <1>2

LEMMA SerialFollows == SerialInv => SerialRuns
    BY OneTask DEF SerialInv, SerialRuns, Loading, InTask, PCs

LEMMA InitSerial == Init => SerialInv
    BY DEF Init, SerialInv, HoldsToday, NotLate, InTask

\* Most steps of a task leave the clock, the keys and the taints alone.
TaskPCs == PCs \ {"down", "boot", "plan", "wait"}

Kept == /\ now' = now /\ lock' = lock /\ next' = next /\ tainted' = tainted
        /\ \A i \in Inst :
              /\ pc'[i] \in TaskPCs => (pc[i] \in TaskPCs /\ job'[i].key = job[i].key)
              /\ pc'[i] = "wait" => pc[i] = "wait"

LEMMA KeptSerial == ASSUME SerialInv, Kept PROVE SerialInv'
  <1>1. RefreshKey(now)' = RefreshKey(now)
    BY DEF Kept, RefreshKey
  <1>2. ASSUME NEW i \in Inst PROVE HoldsToday(i)'
    <2> SUFFICES ASSUME InTask(i)'
                 PROVE  job'[i].key = RefreshKey(now)' /\ lock'[job'[i].key] = i
      BY DEF HoldsToday
    <2>1. InTask(i) /\ job'[i].key = job[i].key /\ lock' = lock
      BY DEF Kept, InTask, TaskPCs, PCs
    <2>2. job[i].key = RefreshKey(now) /\ lock[job[i].key] = i
      BY <2>1 DEF SerialInv, HoldsToday
    <2>3. QED
      BY <1>1, <2>1, <2>2
  <1>3. ASSUME NEW i \in Inst PROVE NotLate(i)'
    <2>1. NotLate(i)
      BY DEF SerialInv
    <2>2. (pc'[i] = "wait" => pc[i] = "wait") /\ next' = next /\ now' = now
      BY DEF Kept
    <2>3. QED
      BY <2>1, <2>2 DEF NotLate
  <1>4. QED
    BY <1>2, <1>3 DEF SerialInv, Kept

LEMMA StartSerial ==
    ASSUME IInv, SerialInv, NEW i \in Inst, Start(i)
    PROVE  SerialInv'
  <1>1. Kept
    BY DEF IInv, TypeOK, Start, At, Go, db, Kept, TaskPCs, InTask, PCs
  <1>2. QED
    BY <1>1, KeptSerial

LEMMA LoopSerial ==
    ASSUME IInv, SerialInv, NEW i \in Inst, Loop(i)
    PROVE  SerialInv'
  <1> USE DEF IInv, TypeOK, At, Go, db, InTask, PCs
  <1>1. UNCHANGED <<now, lock, next, tainted>>
    BY DEF Loop, LeaveLoop, TakeDate, NotDone, SkipDate, Wake
  <1>2. InTask(i) /\ pc[i] # "wait" /\ pc'[i] # "wait" /\ \A j \in Inst \ {i} : pc'[j] = pc[j]
    BY DEF Loop, LeaveLoop, TakeDate, NotDone, SkipDate, Wake
  <1>3. \A j \in Inst : job'[j].key = job[j].key
    BY DEF Loop, LeaveLoop, TakeDate, NotDone, SkipDate, Wake, NextIndex
  <1>4. Kept
    BY <1>1, <1>2, <1>3 DEF Kept, TaskPCs
  <1>5. QED
    BY <1>4, KeptSerial

LEMMA SchedulerSerial ==
    ASSUME RefreshAlone, IInv, SerialInv, NEW i \in Inst, Scheduler(i)
    PROVE  SerialInv'
  <1> USE DEF IInv, TypeOK, At, Go, ctx, db, InTask, PCs
  <1>1. CASE NoBackfill(i) \/ Exit(i)
    <2>1. Kept
      BY <1>1 DEF NoBackfill, Exit, Kept, TaskPCs
    <2>2. QED
      BY <2>1, KeptSerial
  <1>2. CASE Plan(i)
    <2>1. now' = now /\ NextRun(now) >= now
      BY <1>2, JobAssumption DEF Plan, NextRun
    <2>2. RefreshKey(now)' = RefreshKey(now)
      BY <2>1 DEF RefreshKey
    <2>3. QED
      BY <1>2, <2>1, <2>2 DEF Plan, SerialInv, HoldsToday, NotLate
  <1>3. CASE Unlock(i)
    <2>1. \A j \in Inst : InTask(j) => j = i
      BY <1>3, OneTask DEF Unlock
    <2>2. /\ UNCHANGED <<now, next, tainted>> /\ pc'[i] = "plan"
          /\ \A j \in Inst \ {i} : pc'[j] = pc[j]
      BY <1>3 DEF Unlock
    <2>3. QED
      BY <2>1, <2>2 DEF SerialInv, HoldsToday, NotLate
  <1>4. ASSUME NEW k \in Keys, Acquire(i, k) PROVE SerialInv'
    <2>1. k = RefreshKey(now)
      <3>1. Due(i) /\ k = RefreshKey(next[i])
        BY <1>4 DEF RefreshAlone, Acquire, Wants
      <3>2. next[i] = now
        BY <3>1, DueNow
      <3>3. QED
        BY <3>1, <3>2
    <2>2. ~InTask(i) /\ \A j \in Inst : ~InTask(j)
      BY <1>4, <2>1, JobAssumption DEF Acquire, Wants, Due, SerialInv, HoldsToday
    <2>3. /\ UNCHANGED <<now, next, tainted>> /\ RefreshKey(now)' = RefreshKey(now)
          /\ pc' = [pc EXCEPT ![i] = "head"] /\ lock'[k] = i /\ job'[i].key = k
      BY <1>4 DEF Acquire, RefreshKey
    <2>4. QED
      BY <2>1, <2>2, <2>3 DEF SerialInv, HoldsToday, NotLate
  <1>5. ASSUME NEW k \in Keys, Skipped(i, k) PROVE SerialInv'
    <2>1. Kept
      BY <1>5 DEF Skipped, Kept, TaskPCs
    <2>2. QED
      BY <2>1, KeptSerial
  <1>6. ASSUME NEW k \in Keys, AcquireFails(i, k) PROVE SerialInv'
    <2>1. /\ UNCHANGED <<now, next, job, tainted>> /\ RefreshKey(now)' = RefreshKey(now)
          /\ pc' = [pc EXCEPT ![i] = "plan"]
          /\ lock' = lock \/ (lock[k] = Nobody /\ lock' = [lock EXCEPT ![k] = Orphan])
      BY <1>6 DEF AcquireFails, RefreshKey
    <2>2. ASSUME NEW j \in Inst, InTask(j)' PROVE InTask(j) /\ lock'[job[j].key] = j
      BY <2>1, <2>2, JobAssumption DEF SerialInv, HoldsToday
    <2>3. QED
      BY <2>1, <2>2 DEF SerialInv, HoldsToday, NotLate
  <1>7. QED
    BY <1>1, <1>2, <1>3, <1>4, <1>5, <1>6 DEF Scheduler

LEMMA EnvironmentSerial ==
    ASSUME RefreshAlone, IInv, SerialInv, NEW i \in Inst, Environment(i)
    PROVE  SerialInv'
  <1> USE DEF IInv, TypeOK, At, Go, ctx, db, InTask, PCs
  <1>1. CASE LoseLease(i)
    BY <1>1 DEF LoseLease, Fault, RefreshAlone
  <1>2. CASE RenewFails(i) \/ Stop(i)
    <2>1. Kept
      BY <1>2 DEF RenewFails, Stop, Kept, TaskPCs
    <2>2. QED
      BY <2>1, KeptSerial
  <1>3. CASE Crash(i)
    <2>1. /\ UNCHANGED <<now, next, tainted>> /\ RefreshKey(now)' = RefreshKey(now)
          /\ pc' = [pc EXCEPT ![i] = "down"] /\ \A j \in Inst \ {i} : job'[j] = job[j]
          /\ \A k \in Keys : lock[k] # i => lock'[k] = lock[k]
      BY <1>3 DEF Crash, RefreshKey
    <2>2. \A j \in Inst : job[j].key \in Keys
      OBVIOUS
    <2>3. QED
      BY <2>1, <2>2 DEF SerialInv, HoldsToday, NotLate
  <1>4. QED
    BY <1>1, <1>2, <1>3 DEF Environment

\* The clock waits for a refresh that is due or runs; only orphans expire.
LEMMA ClockSerial ==
    ASSUME RefreshAlone, IInv, SerialInv, Tick \/ \E k \in Keys : Expire(k)
    PROVE  SerialInv'
  <1> USE DEF IInv, TypeOK, ctx, db, InTask, PCs
  <1>1. CASE Tick
    <2>1. \A i \in Inst : ~Refreshing(i)
      BY <1>1 DEF Tick, RefreshAlone
    <2>2. \A i \in Inst : ~InTask(i)
      BY <2>1, TodayKey DEF Refreshing, Backfilling, SerialInv, HoldsToday
    <2>3. /\ now' = now + 1 /\ UNCHANGED <<pc, next, tainted>>
      BY <1>1 DEF Tick
    <2>4. ASSUME NEW i \in Inst, pc[i] = "wait" PROVE next[i] >= now + 1
      BY <2>1, <2>4, JobAssumption DEF Refreshing, Due, At
    <2>5. QED
      BY <2>2, <2>3, <2>4 DEF SerialInv, HoldsToday, NotLate
  <1>2. ASSUME NEW k \in Keys, Expire(k) PROVE SerialInv'
    <2>1. /\ UNCHANGED <<now, pc, next, job, tainted>> /\ RefreshKey(now)' = RefreshKey(now)
          /\ lock[k] = Orphan /\ lock' = [lock EXCEPT ![k] = Nobody]
      BY <1>2 DEF Expire, RefreshKey
    <2>2. ASSUME NEW i \in Inst, InTask(i) PROVE lock'[job[i].key] = i
      BY <2>1, <2>2, JobAssumption DEF SerialInv, HoldsToday
    <2>3. QED
      BY <2>1, <2>2 DEF SerialInv, HoldsToday, NotLate
  <1>3. QED
    BY <1>1, <1>2

\* Runs do not overlap, so none taints its date.
LEMMA RunETLSerial ==
    ASSUME RefreshAlone, IInv, SerialInv, NEW i \in Inst, RunETL(i)
    PROVE  SerialInv'
  <1> USE DEF IInv, TypeOK, At, Go, ctx, db, InTask, PCs
  <1>1. UNCHANGED <<now, lock, next>>
    BY DEF RunETL, Begin, Delete, Insert, Count, Statement, Finish
  <1>2. InTask(i) /\ pc[i] # "wait" /\ pc'[i] # "wait" /\ \A j \in Inst \ {i} : pc'[j] = pc[j]
    BY DEF RunETL, Begin, Delete, Insert, Count, Statement, Finish
  <1>3. \A j \in Inst : job'[j].key = job[j].key
    BY DEF RunETL, Begin, Delete, Insert, Count, Statement, Finish
  <1>4. tainted' = tainted
    <2>1. CASE Begin(i)
      <3>1. ~Overlaps(i)
        BY <2>1, OneTask DEF Begin, Overlaps, Loading
      <3>2. tainted' = [tainted EXCEPT ![Dt(i)] = FALSE]
        BY <2>1, <3>1 DEF Begin, Fault, RefreshAlone
      <3>3. QED
        BY <3>2 DEF SerialInv
    <2>2. QED
      BY <2>1 DEF RunETL, Delete, Insert, Count, Statement, Finish
  <1>5. Kept
    BY <1>1, <1>2, <1>3, <1>4 DEF Kept, TaskPCs
  <1>6. QED
    BY <1>5, KeptSerial

LEMMA NextSerial ==
    RefreshAlone /\ IInv /\ SerialInv /\ [Next]_vars => SerialInv'
  <1> SUFFICES ASSUME RefreshAlone, IInv, SerialInv, [Next]_vars PROVE SerialInv'
    OBVIOUS
  <1>1. CASE UNCHANGED vars
    <2>1. Kept
      BY <1>1 DEF vars, db, ctx, Kept, TaskPCs, InTask
    <2>2. QED
      BY <2>1, KeptSerial
  <1>2. QED
    BY <1>1, StartSerial, SchedulerSerial, LoopSerial, RunETLSerial, EnvironmentSerial,
       ClockSerial DEF Next

\* Runs of a date never overlap and no date is tainted (runDailyRefreshLoop,
\* withTaskLock), whatever statements and calls to Redis fail and whenever
\* instances stop or crash.
THEOREM RunsAreSerial == RefreshAlone => (Spec => []SerialRuns)
  <1> SUFFICES ASSUME RefreshAlone PROVE Spec => []SerialRuns
    OBVIOUS
  <1>1. IInv /\ SerialInv /\ [Next]_vars => SerialInv'
    BY NextSerial
  <1>2. QED
    BY <1>1, InitSerial, SerialFollows, Invariant, PTL DEF Spec

\* EtlJob implements DailyTable: a date is withdrawn before it is touched, and
\* published only with one copy in the table (RunETL, upsertLog).
THEOREM JobImplementsDailyTable == RefreshAlone => (Spec => KeepsDailyTable)
  <1> SUFFICES ASSUME RefreshAlone PROVE Spec => KeepsDailyTable
    OBVIOUS
  <1> DEFINE Published == {d \in Dates : log[d] = "success"}
  <1>1. Init => Table!Init
    BY DEF Init, Table!Init
  <1>2. IInv /\ SerialInv /\ [Next]_vars => [Table!Next]_(Table!vars)
    <2> SUFFICES ASSUME IInv, SerialInv, [Next]_vars
                 PROVE Table!Next \/ UNCHANGED Table!vars
      OBVIOUS
    <2>1. CASE UNCHANGED db
      BY <2>1 DEF db, Table!vars
    <2>2. ASSUME NEW i \in Inst, RunETL(i) PROVE Table!Next \/ UNCHANGED Table!vars
      <3> DEFINE d == Dt(i)
      <3>1. d \in Dates
        BY <2>2, DtType DEF IInv, RunETL, Begin, Delete, Insert, Count, Statement, Finish, At,
           JobInv, InTask, Loading, PCs
      <3>2. Loading(i) => log[d] = "running"
        BY <3>1 DEF IInv, RunInv, SerialInv
      <3>3. CASE Begin(i)
        <4>1. log' = [log EXCEPT ![d] = "running"] /\ rows' = rows
          BY <3>3 DEF Begin, Fault, RefreshAlone
        <4>2. Published' = Published \ {d}
          BY <3>1, <4>1 DEF IInv, TypeOK
        <4>3. \E e \in Dates : Table!Withdraw(e)
          BY <3>1, <4>1, <4>2 DEF Table!Withdraw
        <4>4. QED
          BY <4>3 DEF Table!Next
      <3>4. CASE Delete(i) \/ Insert(i) \/ Count(i)
        <4>1. log' = log /\ Loading(i)
          BY <3>4 DEF Delete, Insert, Count, Statement, At, Loading
        <4>2. rows' \in [Dates -> Nat] /\ \A e \in Dates \ {d} : rows'[e] = rows[e]
          BY <3>1, <3>4 DEF IInv, TypeOK, Delete, Insert, Count, Statement
        <4>3. d \notin Published
          BY <3>2, <4>1
        <4>4. \E e \in Dates : Table!Change(e)
          BY <3>1, <4>1, <4>2, <4>3 DEF Table!Change
        <4>5. QED
          BY <4>4 DEF Table!Next
      <3>5. CASE Finish(i)
        <4>1. log' = [log EXCEPT ![d] = job[i].res] /\ rows' = rows /\ Loading(i) /\ pc[i] = "finish"
          BY <3>2, <3>5 DEF Finish, Fault, RefreshAlone, At, Loading
        <4>2. CASE job[i].res = "success"
          <5>1. rows[d] = 1
            BY <3>1, <4>1, <4>2 DEF IInv, RunInv, SerialInv
          <5>2. Published' = Published \cup {d}
            BY <3>1, <4>1, <4>2 DEF IInv, TypeOK
          <5>3. \E e \in Dates : Table!Publish(e)
            BY <3>1, <4>1, <5>1, <5>2 DEF Table!Publish
          <5>4. QED
            BY <5>3 DEF Table!Next
        <4>3. CASE job[i].res # "success"
          <5>1. Published' = Published
            BY <3>1, <3>2, <4>1, <4>3 DEF IInv, TypeOK
          <5>2. QED
            BY <4>1, <5>1 DEF Table!vars
        <4>4. QED
          BY <4>2, <4>3
      <3>6. QED
        BY <2>2, <3>3, <3>4, <3>5 DEF RunETL
    <2>3. CASE UNCHANGED vars \/ Tick \/ \E k \in Keys : Expire(k)
      <3>1. UNCHANGED db
        BY <2>3 DEF vars, Tick, Expire, db
      <3>2. QED
        BY <2>1, <3>1
    <2>4. ASSUME NEW i \in Inst, Start(i) \/ Scheduler(i) \/ Loop(i) \/ Environment(i)
          PROVE UNCHANGED db
      BY <2>4, StartQuiet, SchedulerQuiet, LoopQuiet, EnvironmentQuiet DEF Quiet
    <2>5. QED
      BY <2>1, <2>2, <2>3, <2>4 DEF Next
  <1>3. IInv /\ SerialInv /\ [Next]_vars => SerialInv'
    BY NextSerial
  <1>4. QED
    BY <1>1, <1>2, <1>3, InitSerial, Invariant, PTL DEF Spec, KeepsDailyTable, Table!Spec
=============================================================================
