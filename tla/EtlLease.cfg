\* One tick is 20 s: a lease of 140 s, renewed (its configured interval does
\* not fit below the TTL and is halved) every 60 s.
SPECIFICATION FairSpec
CONSTANTS
    Inst = {a, b}
    Nobody = Nobody
    Orphan = Orphan
    ConfTTL = 7
    ConfRefresh = 8
    DefaultTTL = 8
    DefaultRefresh = 2
    Delay = 1
    Linger = 1
    MaxLoss = 1
INVARIANTS TypeOK MutualExclusion WorksOnlyBriefly
PROPERTIES NoTheft ImplementsPromise LockIsFreed
