SPECIFICATION Spec
CONSTANTS
    o1 = o1
    p1 = p1
    p2 = p2
    oc = oc
    d1 = d1
    d2 = d2
    s1 = s1
    s2 = s2
    nc = nc
    Orders <- OneOrder
    Products = {p1, p2}
    ItemsOf <- TwoItems
    OrderConsumers = {oc}
    DelayConsumers = {d1, d2}
    StockConsumers = {s1, s2}
    NotifyConsumers = {nc}
    MaxAnnounced = 1
    MaxDelayed = 2
    MaxLapses <- Lapses
    MaxFaults = 1
SYMMETRY Sym
CHECK_DEADLOCK FALSE
INVARIANTS
    HandledOnce
    NoticeTruthful
    RollbackJustified
    CancelSettles
