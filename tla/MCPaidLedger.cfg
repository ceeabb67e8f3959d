CONSTANTS
    e1 = e1
    a = a
    b = b
    x = x
    r1 = r1
    r2 = r2
    Nil = Nil
    Events <- MCEvents
    Contents <- MCContents
    Good <- MCGood
    Calls <- MCCalls
    MaxAttempts = 3
    PerCycle = 1
    MaxFaults = 1
SPECIFICATION PaidSpec
INVARIANTS LedgerInv
PROPERTIES GoodRowKept Settles
