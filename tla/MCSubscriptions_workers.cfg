SPECIFICATION Spec
CONSTANTS
    r1 = r1  r2 = r2  w1 = w1  w2 = w2  a1 = a1  a2 = a2
    Rebills <- MCTwoRebills
    Workers <- MCTwoWorkers
    Callers <- MCOneCaller
    NoRow = NoRow
    NoRebill = NoRebill
    NoPrice = NoPrice
    Prices = {6900}
    MaxNow = 1
    MaxCharges = 1
    MaxRecords = 4
    MaxRefunds = 2
    Ops = {"initiate", "provider"}
    Faults = {"duplicate", "crash", "form"}
INVARIANT
    ChargeRecorded
