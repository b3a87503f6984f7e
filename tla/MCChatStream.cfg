SPECIFICATION StreamFairSpec
CONSTANTS
    u1 = u1  c1 = c1  c2 = c2
    Users <- MCUsers
    Requests <- MCRequests
    Owner <- MCOwner
    OpeningBalances <- MCOpeningBalances
    NoRequest = NoRequest
    ChatCost = 5
    DraftCost = 10
    MonthlyTokens = 50
    MaxPeriod = 2
    MaxChunks = 1
    Faults = {"db", "history", "disconnect"}
INVARIANTS
    VerdictLast
    AnswerComplete
PROPERTIES
    ImplementsBilling
    EveryStreamEnds
    FailureIsRefunded
