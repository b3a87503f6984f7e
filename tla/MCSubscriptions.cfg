SPECIFICATION FairSpec
CONSTANTS
    r1 = r1  r2 = r2  w1 = w1  w2 = w2  a1 = a1  a2 = a2
    Rebills <- MCOneRebill
    Workers <- MCOneWorker
    Callers <- MCTwoCallers
    NoRow = NoRow
    NoRebill = NoRebill
    NoPrice = NoPrice
    Prices = {6900, 9900}
    MaxNow = 0
    MaxCharges = 1
    MaxRecords = 2
    MaxRefunds = 2
    Ops = {"initiate", "admin", "refund", "provider", "plans"}
    Faults = {"duplicate", "payapp"}
INVARIANTS
    OneRecordPerCharge
    RefundedOnce
PROPERTIES
    EveryWebhookAnswered
