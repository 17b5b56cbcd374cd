CONSTANTS
    Bags = {1}
    Keys <- MCKeys
    BagStatuses = {1, 2}
    Fates = {"ok", "convert"}
    DefaultSize = 1
    MaxSize = 2
    MaxReasons = 2
    Sizes = {0, 5}
    MaxLate = 1
    Views = {"overview", "tree", "list"}
SPECIFICATION Spec
\* A request is answered once.
CHECK_DEADLOCK FALSE
INVARIANTS EveryEventIsCountedOnce ViewsAgree QuietTreeAddsUp ReasonsCoverCounts WalkSeesEachOnce
