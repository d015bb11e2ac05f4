---------------------------- MODULE Reservation ----------------------------
(***************************************************************************)
(* What the order saga promises, without coordinator, barrier, retries or  *)
(* Redis: every saga takes its items out of the product stock at most      *)
(* once, places its order only on stock it has taken, and gives the stock  *)
(* back at most once, after the order is withdrawn and for good.           *)
(*   new        nothing done                                               *)
(*   reserved   stock taken, no order                                      *)
(*   placed     stock taken, order live                                    *)
(*   withdrawn  stock taken, order cancelled or ruled out                  *)
(*   released   stock given back                                           *)
(*   void       given up before any stock was taken                        *)
(***************************************************************************)
EXTENDS StockUnits

VARIABLES
    stock, \* column product.stock
    res    \* res[g]: how far saga g got

resVars == <<stock, res>>

ResStates == {"new", "reserved", "placed", "withdrawn", "released", "void"}
Holding   == {"reserved", "placed", "withdrawn"}

ResTypeOK ==
    /\ stock \in [Products -> Nat]
    /\ res \in [Gids -> ResStates]

ResInit ==
    /\ stock = InitStock
    /\ res = [g \in Gids |-> "new"]

Reserve(g) ==
    /\ res[g] = "new"
    /\ \A p \in Products : stock[p] >= Qty[g][p]
    /\ stock' = [p \in Products |-> stock[p] - Qty[g][p]]
    /\ res' = [res EXCEPT ![g] = "reserved"]

Place(g) ==
    /\ res[g] = "reserved"
    /\ res' = [res EXCEPT ![g] = "placed"]
    /\ UNCHANGED stock

Withdraw(g) ==
    /\ res[g] \in {"reserved", "placed"}
    /\ res' = [res EXCEPT ![g] = "withdrawn"]
    /\ UNCHANGED stock

Release(g) ==
    /\ res[g] \in {"reserved", "withdrawn"}
    /\ stock' = [p \in Products |-> stock[p] + Qty[g][p]]
    /\ res' = [res EXCEPT ![g] = "released"]

GiveUp(g) ==
    /\ res[g] = "new"
    /\ res' = [res EXCEPT ![g] = "void"]
    /\ UNCHANGED stock

ResNext == \E g \in Gids :
    Reserve(g) \/ Place(g) \/ Withdraw(g) \/ Release(g) \/ GiveUp(g)

ResSpec == ResInit /\ [][ResNext]_resVars

-----------------------------------------------------------------------------
\* Every piece is either in product.stock or held by exactly one saga: no
\* piece is sold twice, lost or given back twice.
StockConserved ==
    \A p \in Products :
        stock[p] + Pieces({g \in Gids : res[g] \in Holding}, p) = InitStock[p]
=============================================================================
