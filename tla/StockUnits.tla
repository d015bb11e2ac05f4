---------------------------- MODULE StockUnits ----------------------------
(***************************************************************************)
(* Quantities.  An order saga (a "gid") buys Qty[g][p] pieces of product   *)
(* p; 0 means that p is not an item of the order.  The stock ledgers of    *)
(* the other modules are sums of such quantities over sets of sagas.  A    *)
(* sum is written here as the number of units <<g, i>>, one for every      *)
(* piece that g buys, so that it is a cardinality.                         *)
(***************************************************************************)
EXTENDS Integers, FiniteSets

CONSTANTS
    Gids,            \* global transaction ids, one per submitted order saga
    Products,        \* product ids
    MaxItemQuantity, \* largest quantity of one order item
    Qty,             \* Qty[g][p]: pieces of p ordered by g, 0 if none
    InitStock        \* InitStock[p]: product.stock before the first saga

ASSUME GidsAssumption == IsFiniteSet(Gids)
ASSUME QuantityAssumption ==
    /\ MaxItemQuantity \in Nat
    /\ Qty \in [Gids -> [Products -> 0 .. MaxItemQuantity]]
    /\ InitStock \in [Products -> Nat]
    \* validateOrderRequest refuses an order without items
    /\ \A g \in Gids : \E p \in Products : Qty[g][p] > 0

\* The products of an order: product ids are distinct and counts positive.
Items(g) == {p \in Products : Qty[g][p] > 0}

\* The units of product p bought by the sagas in G, and how many they are.
Units(G, p) == {u \in G \X (1 .. MaxItemQuantity) : u[2] <= Qty[u[1]][p]}
Pieces(G, p) == Cardinality(Units(G, p))
=============================================================================
