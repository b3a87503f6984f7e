SPECIFICATION Spec
CONSTANTS
    u1 = u1  c1 = c1  c2 = c2  c3 = c3
    Users <- MCUsers
    Requests <- MCRequests2
    Owner <- MCOwner2
    OpeningBalances <- MCOpeningBalances
    NoRequest = NoRequest
    ChatCost = 5
    DraftCost = 10
    MonthlyTokens = 50
    MaxPeriod = 2
    Faults = {"history"}
INVARIANT
    FailedStreamRefunded
