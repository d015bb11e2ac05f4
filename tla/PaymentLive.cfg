SPECIFICATION FairSpec
CONSTANTS
    p1 = p1
    p2 = p2
    o1 = o1
    failCall = failCall
    paidEvent = paidEvent
    strayEvent = strayEvent
    r1 = r1
    r2 = r2
    s1 = s1
    Payments = {p1, p2}
    Orders = {o1}
    OrderOf <- OneOrder
    Amount <- AmountTwo
    Unknown = {p2}
    Callbacks = {failCall}
    Events = {paidEvent, strayEvent}
    About <- Subject
    Status <- Verdict
    Refunds = {}
    RefundOf <- OfFirst
    RefundAmount <- OneAndTwo
    Shoppers = {}
    OrderAsked <- Asked
    Prefetch = 2
    MaxPaymentFaults = 2
PROPERTY EventsArrive
CHECK_DEADLOCK FALSE
