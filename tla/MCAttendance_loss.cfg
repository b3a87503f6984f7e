SPECIFICATION Spec
CONSTANTS
    u1 = u1  u2 = u2  u3 = u3
    Users <- MCUsers2
    Reward = 3
    TotalPool = 6
    NoPool = NoPool
    PoolAtStart = NoPool
    MaxDay = 2
    MaxLosses = 1
    Faults = {"credit", "commit", "disconnect", "redis", "loss"}
INVARIANTS
    OncePerDay
