SPECIFICATION Spec
CONSTANTS
    r1 = r1  r2 = r2  w1 = w1  w2 = w2  a1 = a1  a2 = a2
    Rebills <- MCOneRebill
    Workers <- MCOneWorker
    Callers <- MCOneCaller
    NoRow = NoRow
    NoRebill = NoRebill
    NoPrice = NoPrice
    Prices = {6900}
    MaxNow = 2
    MaxCharges = 2
    MaxRecords = 2
    MaxRefunds = 2
    Ops = {"initiate"}
    Faults = {}
INVARIANT
    ChargeRecorded
