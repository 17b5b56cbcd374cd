\* Both tasks, two instances, two faults of every kind: what a success in the
\* log is worth, and whether Stop returns.
SPECIFICATION FairSpec
CONSTANTS
    Inst = {a, b}
    Nobody = Nobody
    Orphan = Orphan
    BackfillOn = TRUE
    BackfillDays = 1
    RefreshDays = 1
    Punctual = FALSE
    Faults = {"log", "table", "redis", "lease", "crash", "stop"}
    MaxFaults = 2
    Horizon = 1
\* The clock of the model ends at Horizon; the instances then wait for ever.
CHECK_DEADLOCK FALSE
INVARIANTS TypeOK TrustedSuccess
PROPERTY StopReturns
