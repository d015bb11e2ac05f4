SPECIFICATION Spec
CONSTANTS
    r1 = r1
    r2 = r2
    r3 = r3
    u1 = u1
    u2 = u2
    q1 = q1
    q2 = q2
    c1 = c1
    c2 = c2
    k1 = k1
    k2 = k2
    NoRequest = NoRequest
    Requests = {r1, r2}
    Users = {u1, u2}
    UserOf <- Senders
    Products = {q1}
    ProductOf <- Wanted
    Partitions = {k1, k2}
    PartitionOf <- WrittenTo
    Channels = {c1, c2}
    Shard <- OwnChannel
    BufferCount = 1
    MaxStops = 1
    MaxFaults = 1
CHECK_DEADLOCK FALSE
INVARIANTS
    NothingVanishes
    RequestsTriedOnce
