SPECIFICATION FairSpec
CONSTANTS
    Requests = {r1, r2, r3}
    Lists = {events, cars}
    MaxVersion = 2
    NoRequest = NoRequest
\* Every request asks once.
CHECK_DEADLOCK FALSE
INVARIANTS TypeOK OneFetch NoLostRefresh ReadsAreMonotone
PROPERTIES ServedOnceCached EveryRequestIsAnswered
