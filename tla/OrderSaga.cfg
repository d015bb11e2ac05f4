SPECIFICATION Spec
CONSTANTS
    g1 = g1
    g2 = g2
    p1 = p1
    p2 = p2
    w1 = w1
    w2 = w2
    NoGid = NoGid
    Gids <- TwoGids
    Products <- BothProducts
    Qty <- MixedQty
    InitStock <- TwoEach
    Workers = {w1, w2}
    Slow = {g1}
    Loads <- OneLeft
    Browsed = {}
    Delisted = {}
    MaxItemQuantity = 1
    MaxLapsed = 0
    MaxChanges = 1
    MaxFaults = 1
    Rejected = {}
SYMMETRY Handlers
CHECK_DEADLOCK FALSE
INVARIANTS
    SagaAtomic
    OrdersBacked
    PreLocksReturned
PROPERTIES
    ImplementsReservation
