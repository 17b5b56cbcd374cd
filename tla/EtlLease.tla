------------------------------ MODULE EtlLease ------------------------------
(***************************************************************************)
(* The Redis lease of one ETL lock key, with time: withTaskLock, the       *)
(* renewLockLoop goroutine it starts, acquireLock, refreshLock and         *)
(* releaseLock of internal/server/etl_server.go.                           *)
(*                                                                         *)
(* A call to Redis has two steps: it takes effect there, and its answer    *)
(* arrives.  Time passes in ticks.  The module assumes that a process is   *)
(* scheduled in time: from the effect of SETNX to the first ticker it      *)
(* takes Delay at most, the ticker fires when its interval is over, a      *)
(* refresh is answered (or fails) within Delay, and a statement in flight  *)
(* ends within Linger once its context is cancelled.  Tick cannot pass     *)
(* these deadlines.  A lease that is too short for them, and a key that    *)
(* Redis itself drops (LoseKey, MaxLoss), are part of the model.           *)
(***************************************************************************)
EXTENDS Integers

CONSTANTS
    Inst,          \* the instances that compete for the key
    Nobody,        \* the key does not exist
    Orphan,        \* the key holds a token no live instance knows
    ConfTTL,       \* lock_ttl of the configuration, 0 when it is not set
    ConfRefresh,   \* lock_refresh_interval, 0 when it is not set
    DefaultTTL,    \* defaultEtlLockTTL
    DefaultRefresh,\* defaultEtlLockRefresh
    Delay,         \* the longest a call to Redis takes
    Linger,        \* the longest a cancelled statement takes to return
    MaxLoss        \* bound: how often Redis drops the key on its own

\* lockTTL of runtimeConfig: the configured value when it is positive.
TTL == IF ConfTTL > 0 THEN ConfTTL ELSE DefaultTTL

\* lockRefresh of runtimeConfig, halved below the TTL when it is not below
\* it; one tick stands for the last resort of a second.
Refresh ==
    LET wanted == IF ConfRefresh > 0 THEN ConfRefresh ELSE DefaultRefresh
        half   == TTL \div 2
    IN  IF wanted < TTL THEN wanted ELSE IF half > 0 THEN half ELSE 1

ASSUME DurationAssumption ==
    /\ ConfTTL \in Nat /\ ConfRefresh \in Nat
    /\ DefaultTTL \in Nat \ {0} /\ DefaultRefresh \in Nat \ {0}
    /\ Delay \in Nat /\ Linger \in Nat /\ MaxLoss \in Nat
    /\ Delay <= Refresh      \* a refresh is answered before the ticker fires again

\* The longest an instance goes on after its last call to Redis took effect: the
\* answer or the first ticker, the interval, the refresh that fails, the statement.
Longest == Delay + Refresh + Delay + Linger

\* The lease is longer.  runtimeConfig asks for less: only that Refresh < TTL.
Slack == Longest < TTL

ASSUME TokenAssumption == Nobody \notin Inst /\ Orphan \notin Inst /\ Nobody # Orphan

VARIABLES
    lock,       \* the value of the key: whose token it is
    ttl,        \* ticks until the key expires, 0 when it does not exist
    pc,         \* where each scheduler goroutine is
    cancelled,  \* its context is done
    ren,        \* where its renewal goroutine is
    timer,      \* ticks since SETNX, the last fire of the ticker, or the cancel
    lost,       \* 0, or 1 + the ticks it went on after its key was gone
    losses      \* how often Redis dropped the key

vars == <<lock, ttl, pc, cancelled, ren, timer, lost, losses>>

\* "wait": SETNX took effect, its answer is on the way; "sql": a statement on
\* the daily table may run; "sleep": before a date; "release": fn has returned.
PCs == {"idle", "wait", "sql", "sleep", "release"}

\* "start": before its ticker runs; "ok", "no": the script ran, with that answer.
Rens == {"off", "start", "ticker", "call", "ok", "no"}

Working(i) == pc[i] \in {"sql", "sleep"}

\* What is timed: the way to the first ticker, the goroutine while it may still
\* renew (it stops when the context ends), and a cancelled statement.
Asking(i) == pc[i] = "wait"
Renewing(i) == ren[i] # "off" /\ ~cancelled[i]
Lingering(i) == pc[i] = "sql" /\ cancelled[i]
Timed(i) == Asking(i) \/ Renewing(i) \/ Lingering(i)

TypeOK ==
    /\ lock \in Inst \cup {Nobody, Orphan}
    /\ ttl \in 0..TTL
    /\ pc \in [Inst -> PCs]
    /\ cancelled \in [Inst -> BOOLEAN]
    /\ ren \in [Inst -> Rens]
    /\ timer \in [Inst -> Nat]
    /\ lost \in [Inst -> Nat]
    /\ losses \in 0..MaxLoss

Init ==
    /\ lock = Nobody /\ ttl = 0
    /\ pc = [i \in Inst |-> "idle"]
    /\ cancelled = [i \in Inst |-> FALSE]
    /\ ren = [i \in Inst |-> "off"]
    /\ timer = [i \in Inst |-> 0]
    /\ lost = [i \in Inst |-> 0]
    /\ losses = 0

-----------------------------------------------------------------------------
(* withTaskLock *)

\* The task is over, and with it its context and its goroutine.
Over(i) ==
    /\ pc' = [pc EXCEPT ![i] = "idle"]
    /\ cancelled' = [cancelled EXCEPT ![i] = FALSE]
    /\ ren' = [ren EXCEPT ![i] = "off"]
    /\ timer' = [timer EXCEPT ![i] = 0]
    /\ lost' = [lost EXCEPT ![i] = 0]

\* SETNX with a fresh token takes effect.
Acquire(i) ==
    /\ pc[i] = "idle" /\ lock = Nobody
    /\ lock' = i /\ ttl' = TTL
    /\ pc' = [pc EXCEPT ![i] = "wait"]
    /\ UNCHANGED <<cancelled, ren, timer, lost, losses>>

\* Its answer arrives: the renewal goroutine is started and fn is called.
Acquired(i) ==
    /\ pc[i] = "wait"
    /\ pc' = [pc EXCEPT ![i] = "sleep"]
    /\ ren' = [ren EXCEPT ![i] = "start"]
    /\ UNCHANGED <<lock, ttl, cancelled, timer, lost, losses>>

\* Its answer is lost: the token is forgotten.
AcquireError(i) ==
    /\ pc[i] = "wait"
    /\ lock' = IF lock = i THEN Orphan ELSE lock
    /\ Over(i)
    /\ UNCHANGED <<ttl, losses>>

\* A date is done; RunWindow and Backfill sleep without watching ctx.
EndDate(i) ==
    /\ pc[i] = "sql"
    /\ pc' = [pc EXCEPT ![i] = "sleep"]
    /\ UNCHANGED <<lock, ttl, cancelled, ren, timer, lost, losses>>

\* The head of the loop over the dates, ctx not done.
NextDate(i) ==
    /\ pc[i] = "sleep" /\ ~cancelled[i]
    /\ pc' = [pc EXCEPT ![i] = "sql"]
    /\ UNCHANGED <<lock, ttl, cancelled, ren, timer, lost, losses>>

\* Mutant: withTaskLock waits for renewDone without calling cancel().
FinishNoCancel(i) ==
    /\ pc[i] = "sleep"
    /\ pc' = [pc EXCEPT ![i] = "release"]
    /\ UNCHANGED <<lock, ttl, cancelled, ren, timer, lost, losses>>

\* fn returns, ctx done or no date left; withTaskLock calls cancel().
Finish(i) ==
    /\ pc[i] = "sleep"
    /\ pc' = [pc EXCEPT ![i] = "release"]
    /\ cancelled' = [cancelled EXCEPT ![i] = TRUE]
    /\ UNCHANGED <<lock, ttl, ren, timer, lost, losses>>

\* Mutant: DEL without comparing the token.
ReleaseBlind(i) ==
    /\ pc[i] = "release" /\ ren[i] = "off"
    /\ lock' = Nobody /\ ttl' = 0
    /\ Over(i)
    /\ UNCHANGED losses

\* releaseLock after <-renewDone: compare and delete.  An error leaves the
\* key to its TTL, whether or not the script ran.
Release(i) ==
    /\ pc[i] = "release" /\ ren[i] = "off"
    /\ IF lock = i
       THEN \/ lock' = Nobody /\ ttl' = 0
            \/ lock' = Orphan /\ UNCHANGED ttl
       ELSE UNCHANGED <<lock, ttl>>
    /\ Over(i)
    /\ UNCHANGED losses

\* Stop cancels the context the task context comes from.
Shutdown(i) ==
    /\ Asking(i) \/ Working(i)
    /\ ~cancelled[i]
    /\ cancelled' = [cancelled EXCEPT ![i] = TRUE]
    /\ timer' = [timer EXCEPT ![i] = IF Asking(i) THEN @ ELSE 0]
    /\ UNCHANGED <<lock, ttl, pc, ren, lost, losses>>

\* The process dies (and may start again): its token stays in Redis.
Crash(i) ==
    /\ pc[i] # "idle"
    /\ lock' = IF lock = i THEN Orphan ELSE lock
    /\ Over(i)
    /\ UNCHANGED <<ttl, losses>>

-----------------------------------------------------------------------------
(* renewLockLoop *)

\* time.NewTicker
StartTicker(i) ==
    /\ ren[i] = "start" /\ ~cancelled[i]
    /\ ren' = [ren EXCEPT ![i] = "ticker"]
    /\ timer' = [timer EXCEPT ![i] = 0]
    /\ UNCHANGED <<lock, ttl, pc, cancelled, lost, losses>>

\* The ticker fires and refreshLock is called.
Fire(i) ==
    /\ ren[i] = "ticker" /\ ~cancelled[i] /\ timer[i] = Refresh
    /\ ren' = [ren EXCEPT ![i] = "call"]
    /\ timer' = [timer EXCEPT ![i] = 0]
    /\ UNCHANGED <<lock, ttl, pc, cancelled, lost, losses>>

\* Mutant: the script compares the token and forgets PEXPIRE.
ScriptNoExpire(i) ==
    /\ ren[i] = "call"
    /\ ren' = [ren EXCEPT ![i] = IF lock = i THEN "ok" ELSE "no"]
    /\ UNCHANGED <<lock, ttl, pc, cancelled, timer, lost, losses>>

\* Mutant: the new TTL is added to what is left.
ScriptAdds(i) ==
    /\ ren[i] = "call"
    /\ ren' = [ren EXCEPT ![i] = IF lock = i THEN "ok" ELSE "no"]
    /\ ttl' = IF lock = i THEN ttl + TTL ELSE ttl
    /\ UNCHANGED <<lock, pc, cancelled, timer, lost, losses>>

\* lockScript at Redis: it finds the token and sets the TTL again, or not.
Script(i) ==
    /\ ren[i] = "call"
    /\ ren' = [ren EXCEPT ![i] = IF lock = i THEN "ok" ELSE "no"]
    /\ ttl' = IF lock = i THEN TTL ELSE ttl
    /\ UNCHANGED <<lock, pc, cancelled, timer, lost, losses>>

\* The answer 1 arrives.
Renewed(i) ==
    /\ ren[i] = "ok" /\ ~cancelled[i]
    /\ ren' = [ren EXCEPT ![i] = "ticker"]
    /\ UNCHANGED <<lock, ttl, pc, cancelled, timer, lost, losses>>

\* Mutant: the answer 0 of the script is not looked at.
LockLostUnseen(i) ==
    /\ ren[i] = "no" /\ ~cancelled[i]
    /\ ren' = [ren EXCEPT ![i] = "ticker"]
    /\ UNCHANGED <<lock, ttl, pc, cancelled, timer, lost, losses>>

\* The answer 0 arrives (another token or none): cancel() and return.
LockLost(i) ==
    /\ ren[i] = "no" /\ ~cancelled[i]
    /\ cancelled' = [cancelled EXCEPT ![i] = TRUE]
    /\ ren' = [ren EXCEPT ![i] = "off"]
    /\ timer' = [timer EXCEPT ![i] = 0]
    /\ UNCHANGED <<lock, ttl, pc, lost, losses>>

\* Mutant: the loop returns on an error without cancel().
RenewErrorNoCancel(i) ==
    /\ ren[i] \in {"call", "ok", "no"} /\ ~cancelled[i]
    /\ ren' = [ren EXCEPT ![i] = "off"]
    /\ UNCHANGED <<lock, ttl, pc, cancelled, timer, lost, losses>>

\* The call fails, before or after the script ran: cancel() and return.
RenewError(i) ==
    /\ ren[i] \in {"call", "ok", "no"} /\ ~cancelled[i]
    /\ cancelled' = [cancelled EXCEPT ![i] = TRUE]
    /\ ren' = [ren EXCEPT ![i] = "off"]
    /\ timer' = [timer EXCEPT ![i] = 0]
    /\ UNCHANGED <<lock, ttl, pc, lost, losses>>

\* ctx.Done: the loop returns, or its call fails with the context.
StopRenewing(i) ==
    /\ ren[i] # "off" /\ cancelled[i]
    /\ ren' = [ren EXCEPT ![i] = "off"]
    /\ UNCHANGED <<lock, ttl, pc, cancelled, timer, lost, losses>>

-----------------------------------------------------------------------------
(* Redis and the clock *)

\* Redis drops the key before its time (failover, eviction, flush).
LoseKey ==
    /\ losses < MaxLoss /\ lock # Nobody
    /\ lock' = Nobody /\ ttl' = 0 /\ losses' = losses + 1
    /\ lost' = [i \in Inst |-> IF lock = i THEN 1 ELSE lost[i]]
    /\ UNCHANGED <<pc, cancelled, ren, timer>>

\* No deadline of a live process is passed.
InTime(i) ==
    /\ Asking(i) => timer[i] < Delay
    /\ Renewing(i) => timer[i] < (IF ren[i] = "ticker" THEN Refresh ELSE Delay)
    /\ Lingering(i) => timer[i] < Linger

Tick ==
    /\ \A i \in Inst : InTime(i)
    /\ ttl' = IF ttl > 0 THEN ttl - 1 ELSE 0
    /\ lock' = IF ttl' = 0 THEN Nobody ELSE lock
    /\ timer' = [i \in Inst |-> IF Timed(i) THEN timer[i] + 1 ELSE timer[i]]
    /\ lost' = [i \in Inst |-> IF lock = i /\ ttl = 1 THEN 1
                               ELSE IF lost[i] > 0 /\ Timed(i) THEN lost[i] + 1 ELSE lost[i]]
    /\ UNCHANGED <<pc, cancelled, ren, losses>>

Worker(i) == \/ Acquire(i) \/ Acquired(i) \/ AcquireError(i) \/ EndDate(i) \/ NextDate(i)
             \/ Finish(i) \/ Release(i)
Renewer(i) == \/ StartTicker(i) \/ Fire(i) \/ Script(i) \/ Renewed(i) \/ LockLost(i)
              \/ RenewError(i) \/ StopRenewing(i)

Next == \/ Tick \/ LoseKey
        \/ \E i \in Inst : Worker(i) \/ Renewer(i) \/ Shutdown(i) \/ Crash(i)

Spec == Init /\ [][Next]_vars

\* Nothing in the program waits for ever: goroutines run, statements and calls
\* return, the clock goes on.  The dates of a task are finitely many, hence the
\* strong fairness of Finish.  New tasks and faults are not promised.
Fairness ==
    /\ WF_vars(Tick)
    /\ \A i \in Inst : WF_vars(Acquired(i)) /\ WF_vars(Renewer(i)) /\ WF_vars(EndDate(i))
                       /\ SF_vars(Finish(i)) /\ WF_vars(Release(i))

FairSpec == Spec /\ Fairness

-----------------------------------------------------------------------------
(* Properties *)

\* As long as Redis keeps its keys, and with enough slack, two instances are
\* never both working on the table under one key (withTaskLock, renewLockLoop).
MutualExclusion ==
    losses = 0 /\ Slack => \A i, j \in Inst : pc[i] = "sql" /\ pc[j] = "sql" => i = j

\* An instance that works without owning the key stops within Longest of losing
\* it ("redis lock lost, task will stop").  If Redis drops no key, it stops within
\* what the lease was too short for Longest, whatever durations are configured.
WorksOnlyBriefly ==
    \A i \in Inst : pc[i] = "sql" /\ lock # i =>
        LET overlap == lost[i] - 1
        IN  overlap \in 0..Longest /\ (losses = 0 => overlap + TTL <= Longest)

\* Only its owner (releasing or dying), Redis losing it or the end of the TTL
\* take the key away from a token: a late release or refresh of a previous
\* owner does not (the scripts compare the token first).
NoTheft ==
    [][\A i \in Inst : lock = i /\ lock' # i =>
          pc'[i] = "idle" \/ losses' > losses \/ ttl = 1]_vars

\* A key is not held for ever: every task ends (the sleep cannot be extended),
\* and what a dead process leaves expires.
LockIsFreed == \A i \in Inst : lock \in {i, Orphan} ~> lock \notin {i, Orphan}

\* The promise of TaskLock, as long as Redis keeps its keys and with enough slack.
Promise == INSTANCE TaskLock WITH owner <- lock, inside <- {i \in Inst : pc[i] = "sql"}
ImplementsPromise ==
    Promise!Init /\ [][losses' = 0 /\ Slack => Promise!Next \/ UNCHANGED Promise!vars]_vars
=============================================================================
