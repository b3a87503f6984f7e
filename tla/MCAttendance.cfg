SPECIFICATION FairSpec
CONSTANTS
    u1 = u1  u2 = u2  u3 = u3
    Users <- MCUsers3
    Reward = 3
    TotalPool = 6
    NoPool = NoPool
    PoolAtStart = 6
    MaxDay = 1
    MaxLosses = 0
    Faults = {"credit"}
INVARIANTS
    NeverOversold
    PoolAccounted
    ClaimBacked
PROPERTIES
    ClaimResolved
