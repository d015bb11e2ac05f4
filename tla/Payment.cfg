SPECIFICATION Spec
CONSTANTS
    p1 = p1
    p2 = p2
    o1 = o1
    failCall = failCall
    paidEvent = paidEvent
    strayEvent = strayEvent
    r1 = r1
    r2 = r2
    s1 = s1
    Payments = {p1}
    Orders = {o1}
    OrderOf <- OneOrder
    Amount <- AmountTwo
    Unknown = {}
    Callbacks = {failCall}
    Events = {paidEvent}
    About <- Subject
    Status <- Verdict
    Refunds = {r1, r2}
    RefundOf <- OfFirst
    RefundAmount <- OneAndTwo
    Shoppers = {s1}
    OrderAsked <- Asked
    Prefetch = 2
    MaxPaymentFaults = 1
CHECK_DEADLOCK FALSE
INVARIANTS
    RefundsWithinPayment
    RefundsOnlyPaid
    StaleHasCause
