--------------------------- MODULE EtlLeaseProofs ---------------------------
(***************************************************************************)
(* Proofs about EtlLease, for every set of instances, every configuration  *)
(* and every number of lost keys.                                          *)
(***************************************************************************)
EXTENDS EtlLease, TLAPS

\* The key exists exactly while its TTL runs, and names a busy instance.
KeyInv ==
    /\ lock = Nobody <=> ttl = 0
    /\ \A i \in Inst : lock = i => pc[i] # "idle" /\ lost[i] = 0

\* A task that was not cancelled renews its lease; an idle process does not.
PhaseInv(i) ==
    /\ pc[i] = "idle" => ~cancelled[i] /\ timer[i] = 0 /\ lost[i] = 0
    /\ pc[i] \in {"idle", "wait"} => ren[i] = "off"
    /\ pc[i] = "release" => cancelled[i]
    /\ Working(i) /\ ~cancelled[i] => ren[i] # "off"
    /\ Renewing(i) => Working(i)

\* Who may still touch the table has the key, or it is gone.
OwnInv(i) == Timed(i) => lock = i \/ lost[i] > 0

\* No deadline was passed.
DeadlineInv(i) ==
    /\ Asking(i) => timer[i] <= Delay
    /\ Renewing(i) => timer[i] <= (IF ren[i] = "ticker" THEN Refresh ELSE Delay)
    /\ Lingering(i) => timer[i] <= Linger

\* How long ago, at most, the last call of i took effect: SETNX while the ticker is
\* not started, the script of this call, or the one before.
Elapsed(i) ==
    timer[i] + (IF Asking(i) \/ (ren[i] \in {"start", "ok"} /\ ~cancelled[i]) THEN 0
                ELSE IF ren[i] = "ticker" /\ ~cancelled[i] THEN Delay
                ELSE IF ren[i] \in {"call", "no"} /\ ~cancelled[i] THEN Delay + Refresh
                ELSE Delay + Refresh + Delay)

\* What is left of a lease, and how long ago a key that is gone was lost.
LeaseInv(i) ==
    Timed(i) =>
        /\ lock = i => ttl + Elapsed(i) >= TTL
        /\ lost[i] <= 1 + Elapsed(i)
        /\ losses = 0 /\ lost[i] > 0 => lost[i] + TTL <= 1 + Elapsed(i)

IInv == /\ TypeOK /\ KeyInv
        /\ \A i \in Inst : PhaseInv(i) /\ OwnInv(i) /\ DeadlineInv(i) /\ LeaseInv(i)

-----------------------------------------------------------------------------
\* The effective durations are positive: what the proofs use of runtimeConfig.
LEMMA Durations ==
    /\ TTL \in Nat /\ Refresh \in Nat /\ Delay \in Nat /\ Linger \in Nat
    /\ TTL > 0 /\ Refresh > 0 /\ Delay <= Refresh
    /\ Longest \in Nat /\ Longest = Delay + Refresh + Delay + Linger
    BY DurationAssumption DEF TTL, Refresh, Longest

LEMMA InitInv == Init => IInv
  <1> SUFFICES ASSUME Init PROVE IInv
    OBVIOUS
  <1>1. TypeOK
    BY Durations, DurationAssumption DEF Init, TypeOK, PCs, Rens
  <1>2. KeyInv
    BY TokenAssumption DEF Init, KeyInv
  <1>3. ASSUME NEW i \in Inst PROVE PhaseInv(i) /\ OwnInv(i) /\ DeadlineInv(i) /\ LeaseInv(i)
    BY DEF Init, PhaseInv, OwnInv, DeadlineInv, LeaseInv, Working, Timed, Asking, Renewing,
           Lingering
  <1>4. QED
    BY <1>1, <1>2, <1>3 DEF IInv

\* What an instance is doing, and with what: a step of another one that leaves these
\* alone and does not take its key leaves its part of the invariant alone.
LEMMA OthersStay ==
    ASSUME TypeOK, TypeOK', NEW j \in Inst,
           PhaseInv(j), OwnInv(j), DeadlineInv(j), LeaseInv(j),
           pc'[j] = pc[j], cancelled'[j] = cancelled[j], ren'[j] = ren[j],
           timer'[j] = timer[j], lost'[j] = lost[j], losses' = losses,
           lock = j <=> lock' = j, lock = j => ttl' = ttl
    PROVE  (PhaseInv(j) /\ OwnInv(j) /\ DeadlineInv(j) /\ LeaseInv(j))'
  <1>1. (PhaseInv(j) /\ OwnInv(j) /\ DeadlineInv(j))'
    BY DEF PhaseInv, OwnInv, DeadlineInv, Working, Timed, Asking, Renewing, Lingering
  <1>2. (Timed(j) <=> Timed(j)') /\ Elapsed(j)' = Elapsed(j)
    BY DEF Timed, Elapsed, Asking, Renewing, Lingering
  <1>3. LeaseInv(j)'
    BY <1>2 DEF LeaseInv
  <1>4. QED
    BY <1>1, <1>3

\* A step of one instance: the invariant is what it is for that instance.
LEMMA StepOf ==
    ASSUME IInv, TypeOK', KeyInv', NEW i \in Inst,
           (PhaseInv(i) /\ OwnInv(i) /\ DeadlineInv(i) /\ LeaseInv(i))', losses' = losses,
           \A j \in Inst \ {i} :
               /\ pc'[j] = pc[j] /\ cancelled'[j] = cancelled[j] /\ ren'[j] = ren[j]
               /\ timer'[j] = timer[j] /\ lost'[j] = lost[j]
               /\ (lock = j <=> lock' = j) /\ (lock = j => ttl' = ttl)
    PROVE  IInv'
  <1>1. ASSUME NEW j \in Inst PROVE (PhaseInv(j) /\ OwnInv(j) /\ DeadlineInv(j) /\ LeaseInv(j))'
    <2>1. CASE j = i
      BY <2>1
    <2>2. CASE j # i
      BY <2>2, OthersStay DEF IInv
    <2>3. QED
      BY <2>1, <2>2
  <1>2. QED
    BY <1>1 DEF IInv

\* Acquiring starts a whole lease; nobody else can have owned the key. The other steps
\* of withTaskLock touch the key only to give it up.
LEMMA WorkerInv == ASSUME NEW i \in Inst, IInv, Worker(i) PROVE IInv'
  <1> USE Durations, TokenAssumption
  <1>1. CASE Acquire(i)
    <2>1. TypeOK' /\ KeyInv'
      BY <1>1 DEF IInv, TypeOK, KeyInv, PhaseInv, Working, Asking, Acquire, PCs, Rens
    <2>2. (PhaseInv(i) /\ OwnInv(i) /\ DeadlineInv(i))'
      BY <1>1 DEF IInv, TypeOK, KeyInv, PhaseInv, OwnInv, DeadlineInv, Acquire, Rens,
                  Working, Timed, Asking, Renewing, Lingering
    <2>3. LeaseInv(i)'
      BY <1>1 DEF IInv, TypeOK, KeyInv, PhaseInv, OwnInv, DeadlineInv, LeaseInv, Acquire, Rens,
                  Elapsed, Working, Timed, Asking, Renewing, Lingering
    <2>4. QED
      BY <1>1, <2>1, <2>2, <2>3, StepOf DEF IInv, TypeOK, Acquire
  <1>2. CASE Acquired(i)
    <2>1. TypeOK' /\ KeyInv'
      BY <1>2 DEF IInv, TypeOK, KeyInv, PhaseInv, Working, Asking, Acquired, PCs, Rens
    <2>2. (PhaseInv(i) /\ OwnInv(i) /\ DeadlineInv(i))'
      BY <1>2 DEF IInv, TypeOK, KeyInv, PhaseInv, OwnInv, DeadlineInv, Acquired, Rens,
                  Working, Timed, Asking, Renewing, Lingering
    <2>3. LeaseInv(i)'
      BY <1>2 DEF IInv, TypeOK, KeyInv, PhaseInv, OwnInv, DeadlineInv, LeaseInv, Acquired, Rens,
                  Elapsed, Working, Timed, Asking, Renewing, Lingering
    <2>4. QED
      BY <1>2, <2>1, <2>2, <2>3, StepOf DEF IInv, TypeOK, Acquired
  <1>3. CASE AcquireError(i)
    <2>1. TypeOK' /\ KeyInv'
      BY <1>3 DEF IInv, TypeOK, KeyInv, PhaseInv, Working, Asking, AcquireError, Over, PCs, Rens
    <2>2. (PhaseInv(i) /\ OwnInv(i) /\ DeadlineInv(i))'
      BY <1>3 DEF IInv, TypeOK, KeyInv, PhaseInv, OwnInv, DeadlineInv, AcquireError, Over, Rens,
                  Working, Timed, Asking, Renewing, Lingering
    <2>3. LeaseInv(i)'
      BY <1>3 DEF IInv, TypeOK, KeyInv, PhaseInv, OwnInv, DeadlineInv, LeaseInv, AcquireError, Over, Rens,
                  Elapsed, Working, Timed, Asking, Renewing, Lingering
    <2>4. \A j \in Inst \ {i} :
             /\ pc'[j] = pc[j] /\ cancelled'[j] = cancelled[j] /\ ren'[j] = ren[j]
             /\ timer'[j] = timer[j] /\ lost'[j] = lost[j]
      BY <1>3 DEF IInv, TypeOK, AcquireError, Over
    <2>5. \A j \in Inst \ {i} : (lock = j <=> lock' = j) /\ (lock = j => ttl' = ttl)
      BY <1>3 DEF IInv, TypeOK, AcquireError, Over
    <2>6. losses' = losses
      BY <1>3 DEF AcquireError, Over
    <2>7. QED
      BY <2>1, <2>2, <2>3, <2>4, <2>5, <2>6, StepOf
  <1>4. CASE EndDate(i)
    <2>1. TypeOK' /\ KeyInv'
      BY <1>4 DEF IInv, TypeOK, KeyInv, PhaseInv, Working, Asking, EndDate, PCs, Rens
    <2>2. (PhaseInv(i) /\ OwnInv(i) /\ DeadlineInv(i))'
      BY <1>4 DEF IInv, TypeOK, KeyInv, PhaseInv, OwnInv, DeadlineInv, EndDate, Rens,
                  Working, Timed, Asking, Renewing, Lingering
    <2>3. LeaseInv(i)'
      BY <1>4 DEF IInv, TypeOK, KeyInv, PhaseInv, OwnInv, DeadlineInv, LeaseInv, EndDate, Rens,
                  Elapsed, Working, Timed, Asking, Renewing, Lingering
    <2>4. QED
      BY <1>4, <2>1, <2>2, <2>3, StepOf DEF IInv, TypeOK, EndDate
  <1>5. CASE NextDate(i)
    <2>1. TypeOK' /\ KeyInv'
      BY <1>5 DEF IInv, TypeOK, KeyInv, PhaseInv, Working, Asking, NextDate, PCs, Rens
    <2>2. (PhaseInv(i) /\ OwnInv(i) /\ DeadlineInv(i))'
      BY <1>5 DEF IInv, TypeOK, KeyInv, PhaseInv, OwnInv, DeadlineInv, NextDate, Rens,
                  Working, Timed, Asking, Renewing, Lingering
    <2>3. LeaseInv(i)'
      BY <1>5 DEF IInv, TypeOK, KeyInv, PhaseInv, OwnInv, DeadlineInv, LeaseInv, NextDate, Rens,
                  Elapsed, Working, Timed, Asking, Renewing, Lingering
    <2>4. QED
      BY <1>5, <2>1, <2>2, <2>3, StepOf DEF IInv, TypeOK, NextDate
  <1>6. CASE Finish(i)
    <2>1. TypeOK' /\ KeyInv'
      BY <1>6 DEF IInv, TypeOK, KeyInv, PhaseInv, Working, Asking, Finish, PCs, Rens
    <2>2. (PhaseInv(i) /\ OwnInv(i) /\ DeadlineInv(i))'
      BY <1>6 DEF IInv, TypeOK, KeyInv, PhaseInv, OwnInv, DeadlineInv, Finish, Rens,
                  Working, Timed, Asking, Renewing, Lingering
    <2>3. LeaseInv(i)'
      BY <1>6 DEF IInv, TypeOK, KeyInv, PhaseInv, OwnInv, DeadlineInv, LeaseInv, Finish, Rens,
                  Elapsed, Working, Timed, Asking, Renewing, Lingering
    <2>4. QED
      BY <1>6, <2>1, <2>2, <2>3, StepOf DEF IInv, TypeOK, Finish
  <1>7. CASE Release(i)
    <2>1. TypeOK' /\ KeyInv'
      BY <1>7 DEF IInv, TypeOK, KeyInv, PhaseInv, Working, Asking, Release, Over, PCs, Rens
    <2>2. (PhaseInv(i) /\ OwnInv(i) /\ DeadlineInv(i))'
      BY <1>7 DEF IInv, TypeOK, KeyInv, PhaseInv, OwnInv, DeadlineInv, Release, Over, Rens,
                  Working, Timed, Asking, Renewing, Lingering
    <2>3. LeaseInv(i)'
      BY <1>7 DEF IInv, TypeOK, KeyInv, PhaseInv, OwnInv, DeadlineInv, LeaseInv, Release, Over, Rens,
                  Elapsed, Working, Timed, Asking, Renewing, Lingering
    <2>4. \A j \in Inst \ {i} :
             /\ pc'[j] = pc[j] /\ cancelled'[j] = cancelled[j] /\ ren'[j] = ren[j]
             /\ timer'[j] = timer[j] /\ lost'[j] = lost[j]
      BY <1>7 DEF IInv, TypeOK, Release, Over
    <2>5. \A j \in Inst \ {i} : (lock = j <=> lock' = j) /\ (lock = j => ttl' = ttl)
      BY <1>7 DEF IInv, TypeOK, Release, Over
    <2>6. losses' = losses
      BY <1>7 DEF Release, Over
    <2>7. QED
      BY <2>1, <2>2, <2>3, <2>4, <2>5, <2>6, StepOf
  <1>8. QED
    BY <1>1, <1>2, <1>3, <1>4, <1>5, <1>6, <1>7 DEF Worker

\* The script makes the lease whole again; a failed call starts the time in which the
\* cancelled statement has to return.
LEMMA RenewerInv == ASSUME NEW i \in Inst, IInv, Renewer(i) PROVE IInv'
  <1> USE Durations, TokenAssumption
  <1>1. CASE StartTicker(i)
    <2>1. TypeOK' /\ KeyInv'
      BY <1>1 DEF IInv, TypeOK, KeyInv, PhaseInv, Working, Asking, StartTicker, PCs, Rens
    <2>2. (PhaseInv(i) /\ OwnInv(i) /\ DeadlineInv(i))'
      BY <1>1 DEF IInv, TypeOK, KeyInv, PhaseInv, OwnInv, DeadlineInv, StartTicker, Rens,
                  Working, Timed, Asking, Renewing, Lingering
    <2>3. LeaseInv(i)'
      BY <1>1 DEF IInv, TypeOK, KeyInv, PhaseInv, OwnInv, DeadlineInv, LeaseInv, StartTicker, Rens,
                  Elapsed, Working, Timed, Asking, Renewing, Lingering
    <2>4. QED
      BY <1>1, <2>1, <2>2, <2>3, StepOf DEF IInv, TypeOK, StartTicker
  <1>2. CASE Fire(i)
    <2>1. TypeOK' /\ KeyInv'
      BY <1>2 DEF IInv, TypeOK, KeyInv, PhaseInv, Working, Asking, Fire, PCs, Rens
    <2>2. (PhaseInv(i) /\ OwnInv(i) /\ DeadlineInv(i))'
      BY <1>2 DEF IInv, TypeOK, KeyInv, PhaseInv, OwnInv, DeadlineInv, Fire, Rens,
                  Working, Timed, Asking, Renewing, Lingering
    <2>3. LeaseInv(i)'
      BY <1>2 DEF IInv, TypeOK, KeyInv, PhaseInv, OwnInv, DeadlineInv, LeaseInv, Fire, Rens,
                  Elapsed, Working, Timed, Asking, Renewing, Lingering
    <2>4. QED
      BY <1>2, <2>1, <2>2, <2>3, StepOf DEF IInv, TypeOK, Fire
  <1>3. CASE Script(i)
    <2>1. TypeOK' /\ KeyInv'
      BY <1>3 DEF IInv, TypeOK, KeyInv, PhaseInv, Working, Asking, Script, PCs, Rens
    <2>2. (PhaseInv(i) /\ OwnInv(i) /\ DeadlineInv(i))'
      BY <1>3 DEF IInv, TypeOK, KeyInv, PhaseInv, OwnInv, DeadlineInv, Script, Rens,
                  Working, Timed, Asking, Renewing, Lingering
    <2>3. LeaseInv(i)'
      BY <1>3 DEF IInv, TypeOK, KeyInv, PhaseInv, OwnInv, DeadlineInv, LeaseInv, Script, Rens,
                  Elapsed, Working, Timed, Asking, Renewing, Lingering
    <2>4. QED
      BY <1>3, <2>1, <2>2, <2>3, StepOf DEF IInv, TypeOK, Script
  <1>4. CASE Renewed(i)
    <2>1. TypeOK' /\ KeyInv'
      BY <1>4 DEF IInv, TypeOK, KeyInv, PhaseInv, Working, Asking, Renewed, PCs, Rens
    <2>2. (PhaseInv(i) /\ OwnInv(i) /\ DeadlineInv(i))'
      BY <1>4 DEF IInv, TypeOK, KeyInv, PhaseInv, OwnInv, DeadlineInv, Renewed, Rens,
                  Working, Timed, Asking, Renewing, Lingering
    <2>3. LeaseInv(i)'
      BY <1>4 DEF IInv, TypeOK, KeyInv, PhaseInv, OwnInv, DeadlineInv, LeaseInv, Renewed, Rens,
                  Elapsed, Working, Timed, Asking, Renewing, Lingering
    <2>4. QED
      BY <1>4, <2>1, <2>2, <2>3, StepOf DEF IInv, TypeOK, Renewed
  <1>5. CASE LockLost(i)
    <2>1. TypeOK' /\ KeyInv'
      BY <1>5 DEF IInv, TypeOK, KeyInv, PhaseInv, Working, Asking, LockLost, PCs, Rens
    <2>2. (PhaseInv(i) /\ OwnInv(i) /\ DeadlineInv(i))'
      BY <1>5 DEF IInv, TypeOK, KeyInv, PhaseInv, OwnInv, DeadlineInv, LockLost, Rens,
                  Working, Timed, Asking, Renewing, Lingering
    <2>3. LeaseInv(i)'
      BY <1>5 DEF IInv, TypeOK, KeyInv, PhaseInv, OwnInv, DeadlineInv, LeaseInv, LockLost, Rens,
                  Elapsed, Working, Timed, Asking, Renewing, Lingering
    <2>4. QED
      BY <1>5, <2>1, <2>2, <2>3, StepOf DEF IInv, TypeOK, LockLost
  <1>6. CASE RenewError(i)
    <2>1. TypeOK' /\ KeyInv'
      BY <1>6 DEF IInv, TypeOK, KeyInv, PhaseInv, Working, Asking, RenewError, PCs, Rens
    <2>2. (PhaseInv(i) /\ OwnInv(i) /\ DeadlineInv(i))'
      BY <1>6 DEF IInv, TypeOK, KeyInv, PhaseInv, OwnInv, DeadlineInv, RenewError, Rens,
                  Working, Timed, Asking, Renewing, Lingering
    <2>3. LeaseInv(i)'
      BY <1>6 DEF IInv, TypeOK, KeyInv, PhaseInv, OwnInv, DeadlineInv, LeaseInv, RenewError, Rens,
                  Elapsed, Working, Timed, Asking, Renewing, Lingering
    <2>4. QED
      BY <1>6, <2>1, <2>2, <2>3, StepOf DEF IInv, TypeOK, RenewError
  <1>7. CASE StopRenewing(i)
    <2>1. TypeOK' /\ KeyInv'
      BY <1>7 DEF IInv, TypeOK, KeyInv, PhaseInv, Working, Asking, StopRenewing, PCs, Rens
    <2>2. (PhaseInv(i) /\ OwnInv(i) /\ DeadlineInv(i))'
      BY <1>7 DEF IInv, TypeOK, KeyInv, PhaseInv, OwnInv, DeadlineInv, StopRenewing, Rens,
                  Working, Timed, Asking, Renewing, Lingering
    <2>3. LeaseInv(i)'
      BY <1>7 DEF IInv, TypeOK, KeyInv, PhaseInv, OwnInv, DeadlineInv, LeaseInv, StopRenewing, Rens,
                  Elapsed, Working, Timed, Asking, Renewing, Lingering
    <2>4. QED
      BY <1>7, <2>1, <2>2, <2>3, StepOf DEF IInv, TypeOK, StopRenewing
  <1>8. QED
    BY <1>1, <1>2, <1>3, <1>4, <1>5, <1>6, <1>7 DEF Renewer

\* A cancelled task has Linger ticks to return; a dead one leaves an orphan.
LEMMA StopInv == ASSUME NEW i \in Inst, IInv, Shutdown(i) \/ Crash(i) PROVE IInv'
  <1> USE Durations, TokenAssumption
  <1>1. CASE Shutdown(i)
    <2>1. TypeOK' /\ KeyInv'
      BY <1>1 DEF IInv, TypeOK, KeyInv, PhaseInv, Working, Asking, Shutdown, PCs, Rens
    <2>2. (PhaseInv(i) /\ OwnInv(i) /\ DeadlineInv(i))'
      BY <1>1 DEF IInv, TypeOK, KeyInv, PhaseInv, OwnInv, DeadlineInv, Shutdown, Rens,
                  Working, Timed, Asking, Renewing, Lingering
    <2>3. LeaseInv(i)'
      BY <1>1 DEF IInv, TypeOK, KeyInv, PhaseInv, OwnInv, DeadlineInv, LeaseInv, Shutdown, Rens,
                  Elapsed, Working, Timed, Asking, Renewing, Lingering
    <2>4. QED
      BY <1>1, <2>1, <2>2, <2>3, StepOf DEF IInv, TypeOK, Shutdown
  <1>2. CASE Crash(i)
    <2>1. TypeOK' /\ KeyInv'
      BY <1>2 DEF IInv, TypeOK, KeyInv, PhaseInv, Working, Asking, Crash, Over, PCs, Rens
    <2>2. (PhaseInv(i) /\ OwnInv(i) /\ DeadlineInv(i))'
      BY <1>2 DEF IInv, TypeOK, KeyInv, PhaseInv, OwnInv, DeadlineInv, Crash, Over, Rens,
                  Working, Timed, Asking, Renewing, Lingering
    <2>3. LeaseInv(i)'
      BY <1>2 DEF IInv, TypeOK, KeyInv, PhaseInv, OwnInv, DeadlineInv, LeaseInv, Crash, Over, Rens,
                  Elapsed, Working, Timed, Asking, Renewing, Lingering
    <2>4. \A j \in Inst \ {i} :
             /\ pc'[j] = pc[j] /\ cancelled'[j] = cancelled[j] /\ ren'[j] = ren[j]
             /\ timer'[j] = timer[j] /\ lost'[j] = lost[j]
      BY <1>2 DEF IInv, TypeOK, Crash, Over
    <2>5. \A j \in Inst \ {i} : (lock = j <=> lock' = j) /\ (lock = j => ttl' = ttl)
      BY <1>2 DEF IInv, TypeOK, Crash, Over
    <2>6. losses' = losses
      BY <1>2 DEF Crash, Over
    <2>7. QED
      BY <2>1, <2>2, <2>3, <2>4, <2>5, <2>6, StepOf
  <1>3. QED
    BY <1>1, <1>2

\* Redis takes a key away: its owner has just lost it.
LEMMA LoseKeyInv == ASSUME IInv, LoseKey PROVE IInv'
  <1> USE Durations, TokenAssumption, DurationAssumption
  <1>1. TypeOK' /\ KeyInv'
    BY DEF IInv, TypeOK, KeyInv, LoseKey
  <1>2. ASSUME NEW j \in Inst PROVE (PhaseInv(j) /\ OwnInv(j) /\ DeadlineInv(j))'
    BY DEF IInv, TypeOK, KeyInv, PhaseInv, OwnInv, DeadlineInv, LoseKey, Working, Timed, Asking,
           Renewing, Lingering
  <1>3. ASSUME NEW j \in Inst PROVE LeaseInv(j)'
    BY DEF IInv, TypeOK, LeaseInv, Elapsed, LoseKey, Timed, Asking, Renewing, Lingering
  <1>4. QED
    BY <1>1, <1>2, <1>3 DEF IInv

\* The clock: while an instance is timed, what is left of its lease shrinks as Elapsed
\* grows; where nothing is left, the key was held for TTL.
LEMMA TickInv == ASSUME IInv, Tick PROVE IInv'
  <1> USE Durations, TokenAssumption
  <1>1. TypeOK'
    BY DEF IInv, TypeOK, Tick
  <1>2. KeyInv'
    BY DEF IInv, TypeOK, KeyInv, Tick
  <1>3. ASSUME NEW j \in Inst PROVE (PhaseInv(j) /\ DeadlineInv(j))'
    BY DEF IInv, TypeOK, KeyInv, PhaseInv, DeadlineInv, Tick, InTime, Working, Timed, Asking, Renewing,
           Lingering
  <1>4. ASSUME NEW j \in Inst PROVE OwnInv(j)'
    BY DEF IInv, TypeOK, KeyInv, OwnInv, Tick, Timed, Asking, Renewing, Lingering
  <1>5. ASSUME NEW j \in Inst PROVE LeaseInv(j)'
    <2>1. SUFFICES ASSUME Timed(j)
                   PROVE  LeaseInv(j)'
      BY DEF LeaseInv, Tick, Timed, Asking, Renewing, Lingering
    <2>2. Elapsed(j)' = Elapsed(j) + 1 /\ Elapsed(j) \in Nat
      BY <2>1 DEF Elapsed, Tick, IInv, TypeOK, Asking, Renewing
    <2>3. QED
      BY <2>1, <2>2 DEF IInv, TypeOK, KeyInv, LeaseInv, Tick
  <1>6. QED
    BY <1>1, <1>2, <1>3, <1>4, <1>5 DEF IInv

LEMMA NextInv == IInv /\ [Next]_vars => IInv'
  <1> SUFFICES ASSUME IInv, [Next]_vars PROVE IInv'
    OBVIOUS
  <1>1. CASE UNCHANGED vars
    BY <1>1 DEF vars, IInv, TypeOK, KeyInv, PhaseInv, OwnInv, DeadlineInv, LeaseInv, Elapsed,
                Working, Timed, Asking, Renewing, Lingering
  <1>2. QED
    BY <1>1, WorkerInv, RenewerInv, StopInv, LoseKeyInv, TickInv DEF Next

\* The inductive invariant holds in every reachable state.
THEOREM Invariant == Spec => []IInv
    BY InitInv, NextInv, PTL DEF Spec

-----------------------------------------------------------------------------
\* Every variable keeps its type: the lease never exceeds its TTL, the
\* counters stay natural (the whole of etl_server.go 158-245).
THEOREM TypeCorrect == Spec => []TypeOK
  <1>1. IInv => TypeOK
    BY DEF IInv
  <1>2. QED
    BY <1>1, Invariant, PTL

\* Whoever works without the key has lost it, and stops in time.
LEMMA Overlap ==
    ASSUME IInv, NEW i \in Inst, pc[i] = "sql", lock # i
    PROVE  /\ lost[i] - 1 \in 0 .. Longest
           /\ losses = 0 => lost[i] - 1 + TTL <= Longest
  <1>1. Timed(i)
    BY DEF IInv, TypeOK, PhaseInv, Working, Timed, Renewing, Lingering
  <1>2. lost[i] \in Nat /\ lost[i] > 0 /\ TTL \in Nat
    BY <1>1, Durations DEF IInv, TypeOK, OwnInv
  <1>3. Elapsed(i) \in Nat /\ Elapsed(i) <= Longest
    BY <1>1, Durations DEF IInv, TypeOK, DeadlineInv, Elapsed, Timed, Asking, Renewing, Lingering, Rens
  <1>4. lost[i] <= 1 + Elapsed(i) /\ (losses = 0 => lost[i] + TTL <= 1 + Elapsed(i))
    BY <1>1, <1>2 DEF IInv, LeaseInv
  <1>5. Longest \in Nat
    BY Durations
  <1>6. QED
    BY <1>2, <1>3, <1>4, <1>5

\* With enough slack, and while Redis keeps its keys, who may touch the table has the
\* key: no lease runs out under an instance that renews or lingers.
LEMMA WorkersOwn ==
    ASSUME IInv, losses = 0, Slack, NEW i \in Inst, Timed(i)
    PROVE  lock = i
  <1>1. Elapsed(i) \in Nat /\ Elapsed(i) <= Longest
    BY Durations DEF IInv, TypeOK, DeadlineInv, Elapsed, Timed, Asking, Renewing, Lingering, Rens
  <1>2. lost[i] \in Nat /\ (lost[i] > 0 => lost[i] + TTL <= 1 + Elapsed(i))
    BY DEF IInv, TypeOK, LeaseInv
  <1>3. Longest \in Nat /\ TTL \in Nat /\ Longest < TTL
    BY Durations DEF Slack
  <1>4. ~(lost[i] > 0)
    BY <1>1, <1>2, <1>3
  <1>5. QED
    BY <1>4 DEF IInv, OwnInv

\* With enough slack the clock cannot reach the end of the lease of a timed instance.
LEMMA LeaseLasts ==
    ASSUME IInv, Tick, Slack, NEW i \in Inst, Timed(i), lock = i
    PROVE  lock' = lock
  <1>1. ttl \in Nat /\ ttl + Elapsed(i) >= TTL
    BY DEF IInv, TypeOK, LeaseInv
  <1>2. Elapsed(i) \in Nat /\ Elapsed(i) < Longest
    BY Durations DEF IInv, TypeOK, Tick, InTime, Elapsed, Timed, Asking, Renewing, Lingering, Rens
  <1>3. ttl > 1
    BY <1>1, <1>2, Durations DEF Slack
  <1>4. QED
    BY <1>1, <1>3 DEF Tick

\* While Redis keeps its keys and the lease has enough slack, two instances never work
\* under one key: the lease cannot run out under a renewing or lingering instance.
THEOREM MutualExclusionHolds == Spec => []MutualExclusion
  <1>1. IInv => MutualExclusion
    <2> SUFFICES ASSUME IInv, losses = 0, Slack,
                        NEW i \in Inst, NEW j \in Inst, pc[i] = "sql", pc[j] = "sql"
                 PROVE i = j
      BY DEF MutualExclusion
    <2>1. ASSUME NEW k \in Inst, pc[k] = "sql" PROVE lock = k
      <3>1. Timed(k)
        BY <2>1 DEF IInv, TypeOK, PhaseInv, Working, Timed, Renewing, Lingering
      <3>2. QED
        BY <3>1, WorkersOwn
    <2>2. QED
      BY <2>1
  <1>2. QED
    BY <1>1, Invariant, PTL

\* An instance whose key is gone stops touching the table within one answer of SETNX or
\* one call, one interval, one call and one statement; if Redis dropped nothing, within
\* what the lease lacks of that, for any configuration.
THEOREM OverlapIsBrief == Spec => []WorksOnlyBriefly
  <1>1. IInv => WorksOnlyBriefly
    BY Overlap DEF WorksOnlyBriefly
  <1>2. QED
    BY <1>1, Invariant, PTL

\* No step of another instance takes a key away from its owner: refresh and
\* release compare the token first.
THEOREM NoTheftHolds == Spec => NoTheft
  <1>1. IInv /\ [Next]_vars =>
          [\A i \in Inst : lock = i /\ lock' # i =>
              pc'[i] = "idle" \/ losses' > losses \/ ttl = 1]_vars
    <2> SUFFICES ASSUME IInv, Next, NEW i \in Inst, lock = i, lock' # i
                 PROVE pc'[i] = "idle" \/ losses' > losses \/ ttl = 1
      BY DEF vars
    <2> USE TokenAssumption DEF IInv, TypeOK, KeyInv
    <2>1. CASE Tick
      BY <2>1 DEF Tick
    <2>2. CASE LoseKey
      BY <2>2 DEF LoseKey
    <2>3. ASSUME NEW j \in Inst, Worker(j) PROVE pc'[i] = "idle"
      BY <2>3 DEF Worker, Acquire, Acquired, AcquireError, EndDate, NextDate, Finish, Release, Over
    <2>4. ASSUME NEW j \in Inst, Renewer(j) PROVE FALSE
      BY <2>4 DEF Renewer, StartTicker, Fire, Script, Renewed, LockLost, RenewError, StopRenewing
    <2>5. ASSUME NEW j \in Inst, Shutdown(j) \/ Crash(j) PROVE pc'[i] = "idle"
      BY <2>5 DEF Shutdown, Crash, Over
    <2>6. QED
      BY <2>1, <2>2, <2>3, <2>4, <2>5 DEF Next
  <1>2. QED
    BY <1>1, Invariant, PTL DEF Spec, NoTheft

\* EtlLease implements TaskLock: every step of the lease is a step of the
\* abstract lock or leaves it alone, until Redis drops a key.
THEOREM LeaseImplementsTaskLock == Spec => ImplementsPromise
  <1> DEFINE In == {i \in Inst : pc[i] = "sql"}
  <1>1. Init => Promise!Init
    BY DEF Init, Promise!Init
  <1>2. IInv /\ [Next]_vars => [losses' = 0 /\ Slack => Promise!Next \/ UNCHANGED Promise!vars]_vars
    <2> SUFFICES ASSUME IInv, Next, losses' = 0, Slack
                 PROVE Promise!Next \/ UNCHANGED Promise!vars
      BY DEF vars
    <2>0. losses = 0
      BY DurationAssumption DEF IInv, TypeOK, Next, Tick, LoseKey, Worker, Renewer, Shutdown, Crash,
         Acquire, Acquired, AcquireError, EndDate, NextDate, Finish, Release, StartTicker, Fire,
         Script, Renewed, LockLost, RenewError, StopRenewing
    <2>1. CASE Tick
      <3>1. In' = In
        BY <2>1 DEF Tick
      <3>2. CASE lock' = lock
        BY <3>1, <3>2 DEF Promise!vars
      <3>3. CASE lock' # lock
        <4>1. lock' = Nobody
          BY <2>1, <3>3 DEF Tick
        <4>2. lock \notin In
          <5>1. SUFFICES ASSUME lock \in Inst, pc[lock] = "sql" PROVE FALSE
            OBVIOUS
          <5>2. Timed(lock)
            BY <5>1 DEF IInv, TypeOK, PhaseInv, Working, Timed, Renewing, Lingering
          <5>3. QED
            BY <2>1, <3>3, <5>1, <5>2, LeaseLasts
        <4>3. Promise!Free
          BY <3>1, <4>1, <4>2 DEF Promise!Free
        <4>4. QED
          BY <4>3 DEF Promise!Next
      <3>4. QED
        BY <3>2, <3>3
    <2>2. CASE LoseKey
      BY <2>0, <2>2 DEF LoseKey
    <2>3. ASSUME NEW i \in Inst, Worker(i) PROVE Promise!Next \/ UNCHANGED Promise!vars
      <3>1. CASE Acquire(i)
        BY <3>1 DEF Acquire, IInv, TypeOK, Promise!Next, Promise!Take
      <3>2. CASE Acquired(i)
        BY <3>2 DEF Acquired, IInv, TypeOK, Promise!vars
      <3>3. CASE AcquireError(i)
        <4>1. Promise!Die(i)
          BY <3>3 DEF AcquireError, Over, IInv, TypeOK, Promise!Die
        <4>2. QED
          BY <4>1 DEF Promise!Next
      <3>4. CASE EndDate(i)
        <4>1. Promise!Leave(i)
          BY <3>4 DEF EndDate, IInv, TypeOK, Promise!Leave
        <4>2. QED
          BY <4>1 DEF Promise!Next
      <3>5. CASE NextDate(i)
        <4>1. Timed(i)
          BY <3>5 DEF NextDate, IInv, PhaseInv, Working, Timed, Renewing
        <4>2. lock = i
          BY <2>0, <4>1, WorkersOwn
        <4>3. Promise!Enter(i)
          BY <3>5, <4>2 DEF NextDate, IInv, TypeOK, Promise!Enter
        <4>4. QED
          BY <4>3 DEF Promise!Next
      <3>6. CASE Finish(i)
        BY <3>6 DEF Finish, IInv, TypeOK, Promise!vars
      <3>7. CASE Release(i)
        <4>1. In' = In /\ i \notin In
          BY <3>7 DEF Release, Over, IInv, TypeOK
        <4>2. CASE lock' = lock
          BY <4>1, <4>2 DEF Promise!vars
        <4>3. CASE lock = i /\ lock' = Nobody
          BY <4>1, <4>3 DEF Promise!Next, Promise!Free
        <4>4. CASE lock = i /\ lock' = Orphan
          <5>1. Promise!Die(i)
            BY <4>1, <4>4 DEF Promise!Die
          <5>2. QED
            BY <5>1 DEF Promise!Next
        <4>5. QED
          BY <3>7, <4>2, <4>3, <4>4 DEF Release
      <3>8. QED
        BY <2>3, <3>1, <3>2, <3>3, <3>4, <3>5, <3>6, <3>7 DEF Worker
    <2>4. ASSUME NEW i \in Inst, Renewer(i) PROVE UNCHANGED Promise!vars
      BY <2>4 DEF Renewer, StartTicker, Fire, Script, Renewed, LockLost, RenewError, StopRenewing,
                  Promise!vars
    <2>5. ASSUME NEW i \in Inst, Shutdown(i) PROVE UNCHANGED Promise!vars
      BY <2>5 DEF Shutdown, Promise!vars
    <2>6. ASSUME NEW i \in Inst, Crash(i) PROVE Promise!Next
      <3>1. Promise!Die(i)
        BY <2>6 DEF Crash, Over, IInv, TypeOK, Promise!Die
      <3>2. QED
        BY <3>1 DEF Promise!Next
    <2>7. QED
      BY <2>1, <2>2, <2>3, <2>4, <2>5, <2>6 DEF Next
  <1>3. QED
    BY <1>1, <1>2, Invariant, PTL DEF Spec, ImplementsPromise

=============================================================================
