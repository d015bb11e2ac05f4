----------------------------- MODULE MCPayment -----------------------------
(* Payments of one order.  The first is reported as paid by an event and as *)
(* failed by a callback, and refunded; an event of another one, which       *)
(* nobody creates, is in the way.                                          *)
EXTENDS Payment

CONSTANTS p1, p2, o1, failCall, paidEvent, strayEvent, r1, r2, s1

OneOrder == [p \in Payments |-> o1]
AmountTwo == [p \in Payments |-> 2]
Subject == [m \in Reports |-> IF m = strayEvent THEN p2 ELSE p1]
Verdict == [m \in Reports |-> IF m = failCall THEN "failed" ELSE "paid"]
OfFirst == [r \in Refunds |-> p1]
OneAndTwo == [r \in Refunds |-> IF r = r1 THEN 1 ELSE 2]
Asked == [s \in Shoppers |-> o1]
=============================================================================
