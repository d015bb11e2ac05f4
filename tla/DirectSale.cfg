SPECIFICATION Spec
CONSTANTS
    r1 = r1
    r2 = r2
    c1 = c1
    c2 = c2
    c3 = c3
    Requests <- TwoRequests
    Calls <- ThreeCalls
    RequestOf <- Repeating
    Num <- Uneven
    MaxNum = 2
    InitialStock = 3
    MayMiss = TRUE
    MayLack = TRUE
    ContextEnds = TRUE
    MaxLapses = 1
    MaxRestarts = 1
    MaxFaults = 2
CHECK_DEADLOCK FALSE
INVARIANTS
    ChargedOnce
    HashTruthful
PROPERTY
    ImplementsSale
