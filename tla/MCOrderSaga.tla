---------------------------- MODULE MCOrderSaga ----------------------------
(* Instances of the order saga.                                            *)
EXTENDS OrderSaga, TLC

CONSTANTS g1, g2, p1, p2, w1, w2

\* Two sagas that compete for a product; one of them buys a second one too.
TwoGids == {g1, g2}
BothProducts == {p1, p2}
MixedQty ==
    [g \in TwoGids |-> [p \in BothProducts |-> IF g = g1 \/ p = p1 THEN 1 ELSE 0]]
TwoEach == [p \in BothProducts |-> 2]
\* The hash is loaded when one of the two pieces is already taken.
OneLeft == {<<p1, 1>>}
\* The handlers are alike, and no property checked with them names one.
Handlers == Permutations({w1, w2})

\* One saga that buys the last piece of a product.
OneGid == {g1}
OneProduct == {p1}
OneQty == [g \in OneGid |-> [p \in OneProduct |-> 1]]
LastPiece == [p \in OneProduct |-> 1]
OneOrNone == {<<p1, 0>>, <<p1, 1>>}
=============================================================================
