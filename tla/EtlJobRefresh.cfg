\* The daily refresh alone, punctual, no lease and no log write lost.
SPECIFICATION FairSpec
CONSTANTS
    Inst = {a, b}
    Nobody = Nobody
    Orphan = Orphan
    BackfillOn = FALSE
    BackfillDays = 1
    RefreshDays = 2
    Punctual = TRUE
    Faults = {"table", "redis", "crash", "stop"}
    MaxFaults = 2
    Horizon = 3
\* The clock of the model ends at Horizon; the instances then wait for ever.
CHECK_DEADLOCK FALSE
INVARIANT SerialRuns
PROPERTIES KeepsDailyTable Refreshed
