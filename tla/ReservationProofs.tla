------------------------- MODULE ReservationProofs -------------------------
(***************************************************************************)
(* What the abstract reservation guarantees for any number of sagas,       *)
(* products and quantities.                                                *)
(***************************************************************************)
EXTENDS Reservation, StockUnitsProofs

Holders == {g \in Gids : res[g] \in Holding}
ResInv  == ResTypeOK /\ StockConserved

LEMMA ResInitInv == ResInit => ResInv
<1> SUFFICES ASSUME ResInit PROVE ResInv
  OBVIOUS
<1> USE DEF ResInit
<1>1. ResTypeOK
  BY QuantityAssumption DEF ResTypeOK, ResStates
<1>2. ASSUME NEW p \in Products
      PROVE  stock[p] + Pieces(Holders, p) = InitStock[p]
  <2>1. Holders = {}
    BY DEF Holders, Holding
  <2>2. Pieces(Holders, p) = 0
    BY <2>1, PiecesNone, Zenon
  <2> QED BY <2>2, QuantityAssumption
<1> QED BY <1>1, <1>2 DEF ResInv, StockConserved, Holders

LEMMA ResStepInv == ResInv /\ [ResNext]_resVars => ResInv'
<1> SUFFICES ASSUME ResInv, [ResNext]_resVars
             PROVE  ResInv'
  OBVIOUS
<1> USE DEF ResInv
<1>1. ResTypeOK'
  <2>1. ASSUME NEW g \in Gids, Reserve(g) PROVE ResTypeOK'
    <3>1. ASSUME NEW p \in Products PROVE stock[p] - Qty[g][p] \in Nat
      BY <2>1, QtyType DEF Reserve, ResTypeOK
    <3> QED BY <2>1, <3>1 DEF Reserve, ResTypeOK, ResStates
  <2>2. ASSUME NEW g \in Gids, Release(g) PROVE ResTypeOK'
    <3>1. ASSUME NEW p \in Products PROVE stock[p] + Qty[g][p] \in Nat
      BY QtyType DEF ResTypeOK
    <3> QED BY <2>2, <3>1 DEF Release, ResTypeOK, ResStates
  <2>3. ASSUME NEW g \in Gids, Place(g) \/ Withdraw(g) \/ GiveUp(g)
        PROVE  ResTypeOK'
    BY <2>3 DEF Place, Withdraw, GiveUp, ResTypeOK, ResStates
  <2>4. CASE UNCHANGED resVars
    BY <2>4 DEF resVars, ResTypeOK
  <2> QED BY <2>1, <2>2, <2>3, <2>4 DEF ResNext
<1>2. ASSUME NEW p \in Products
      PROVE  stock'[p] + Pieces(Holders', p) = InitStock[p]
  <2>0. /\ stock[p] + Pieces(Holders, p) = InitStock[p]
        /\ Holders \in SUBSET Gids
        /\ stock[p] \in Nat
        /\ Pieces(Holders, p) \in Nat
    <3>1. Holders \in SUBSET Gids
      BY DEF Holders
    <3> QED BY <3>1, UnitsFinite DEF StockConserved, Holders, ResTypeOK
  <2>1. ASSUME NEW g \in Gids, Reserve(g)
        PROVE  stock'[p] + Pieces(Holders', p) = InitStock[p]
    <3>1. Holders' = Holders \cup {g} /\ g \notin Holders
      BY <2>1 DEF Reserve, Holders, Holding, ResTypeOK
    <3>2. Pieces(Holders \cup {g}, p) = Pieces(Holders, p) + Qty[g][p]
      BY <2>0, <3>1, PiecesAdd
    <3>3. Pieces(Holders', p) = Pieces(Holders, p) + Qty[g][p]
      BY <3>1, <3>2, Zenon
    <3>4. stock'[p] = stock[p] - Qty[g][p] /\ Qty[g][p] \in Nat
      BY <2>1, QtyType DEF Reserve
    <3> QED BY <2>0, <3>3, <3>4
  <2>2. ASSUME NEW g \in Gids, Release(g)
        PROVE  stock'[p] + Pieces(Holders', p) = InitStock[p]
    <3>1. Holders' = Holders \ {g} /\ g \in Holders
      BY <2>2 DEF Release, Holders, Holding, ResTypeOK
    <3>2. Pieces(Holders \ {g}, p) = Pieces(Holders, p) - Qty[g][p]
      BY <2>0, <3>1, PiecesRemove
    <3>3. Pieces(Holders', p) = Pieces(Holders, p) - Qty[g][p]
      BY <3>1, <3>2, Zenon
    <3>4. stock'[p] = stock[p] + Qty[g][p] /\ Qty[g][p] \in Nat
      BY <2>2, QtyType DEF Release
    <3> QED BY <2>0, <3>3, <3>4
  <2>3. ASSUME NEW g \in Gids, Place(g) \/ Withdraw(g) \/ GiveUp(g)
        PROVE  stock'[p] + Pieces(Holders', p) = InitStock[p]
    <3>1. Holders' = Holders /\ stock' = stock
      BY <2>3 DEF Place, Withdraw, GiveUp, Holders, Holding, ResTypeOK
    <3> QED BY <2>0, <3>1, Zenon
  <2>4. CASE UNCHANGED resVars
    <3>1. Holders' = Holders /\ stock' = stock
      BY <2>4 DEF resVars, Holders
    <3> QED BY <2>0, <3>1, Zenon
  <2> QED BY <2>1, <2>2, <2>3, <2>4 DEF ResNext
<1> QED BY <1>1, <1>2 DEF StockConserved, Holders

\* No piece is sold twice, lost or given back twice, and the stock never
\* goes below zero: every piece is on stock or held by exactly one saga.
THEOREM ReservationConserves == ResSpec => [](ResTypeOK /\ StockConserved)
BY ResInitInv, ResStepInv, PTL DEF ResSpec, ResInv
=============================================================================
