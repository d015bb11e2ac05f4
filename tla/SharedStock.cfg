\* Three sagas of PreLock for two pieces; two calls and two orders for three pieces.
SPECIFICATION StockSpec
CONSTANTS
    g1 = g1
    g2 = g2
    g3 = g3
    p1 = p1
    r1 = r1
    r2 = r2
    c1 = c1
    c2 = c2
    o1 = o1
    o2 = o2
    Gids <- MCGids
    Products <- MCProducts
    Qty <- MCQty
    InitStock <- MCInitStock
    MaxItemQuantity = 2
    MaxLapsed = 1
    Requests = {r1, r2}
    Calls = {c1, c2}
    RequestOf <- MCRequestOf
    Num <- MCNum
    MaxNum = 2
    InitialStock = 3
    MayMiss = TRUE
    MayLack = FALSE
    ContextEnds = FALSE
    MaxLapses = 1
    MaxRestarts = 1
    MaxFaults = 1
    Orders = {o1, o2}
    Pcs <- MCPcs
    MayRollBack = TRUE
\* Every saga and every call may come to its end.
CHECK_DEADLOCK FALSE
INVARIANTS
    StockTypeOK
    LedgerBalanced
    NoPieceTwice
    HashAndTableAgree
PROPERTY
    DecisionsFinal
