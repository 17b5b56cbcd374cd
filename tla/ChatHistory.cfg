CONSTANTS
    DataTools = {query}
    Reserved = {clarify}
    MaxHistory = 3
    MaxLen = 4
SPECIFICATION Spec
\* A request is sent once.
CHECK_DEADLOCK FALSE
INVARIANTS EveryUseIsAnswered NoOrphans RealAnswersAreKept TidyHistoryIsExact
