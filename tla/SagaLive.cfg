SPECIFICATION FairSpec
CONSTANTS
    g1 = g1
    g2 = g2
    p1 = p1
    p2 = p2
    w1 = w1
    w2 = w2
    NoGid = NoGid
    Gids <- OneGid
    Products <- OneProduct
    Qty <- OneQty
    InitStock <- LastPiece
    Workers = {w1, w2}
    Slow = {g1}
    Loads <- OneOrNone
    Browsed = {p1}
    Delisted = {p1}
    MaxItemQuantity = 1
    MaxLapsed = 1
    MaxChanges = 1
    MaxFaults = 1
    Rejected = {}
CHECK_DEADLOCK FALSE
INVARIANTS
    OrderAnnounced
PROPERTIES
    LedgerSpec
    SagaCompletes
    RollbackEnds
