---------------------------- MODULE MCStockSync ----------------------------
(* Three calls that buy one product, two of them for the same request.     *)
EXTENDS StockSync

CONSTANTS r1, r2, c1, c2, c3

TwoRequests == {r1, r2}
ThreeCalls == {c1, c2, c3}
\* c1 and c2 repeat the same request.
Repeating == [c \in ThreeCalls |-> IF c = c3 THEN r2 ELSE r1]
Uneven == [r \in TwoRequests |-> IF r = r1 THEN 1 ELSE 2]
=============================================================================
