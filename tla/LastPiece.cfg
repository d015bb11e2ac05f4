SPECIFICATION FairSpec
CONSTANTS
    g1 = g1
    g2 = g2
    p1 = p1
    p2 = p2
    w1 = w1
    w2 = w2
    NoGid = NoGid
    Gids <- OneGid
    Products <- OneProduct
    Qty <- OneQty
    InitStock <- LastPiece
    Workers = {w1}
    Slow = {}
    Loads = {}
    Browsed = {}
    Delisted = {}
    MaxItemQuantity = 1
    MaxLapsed = 0
    MaxChanges = 0
    MaxFaults = 0
    Rejected = {}
PROPERTY EventuallyConsistent
CHECK_DEADLOCK FALSE
