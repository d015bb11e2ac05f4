------------------------- MODULE StockUnitsProofs -------------------------
(***************************************************************************)
(* How the number of pieces held by a set of sagas changes when one saga   *)
(* joins or leaves the set.                                                *)
(***************************************************************************)
EXTENDS StockUnits, FiniteSetTheorems, TLAPS

\* A quantity is a number of pieces.
LEMMA QtyType ==
  ASSUME NEW g \in Gids, NEW p \in Products
  PROVE  /\ Qty[g][p] \in 0 .. MaxItemQuantity
         /\ Qty[g][p] \in Nat
<1>1. Qty \in [Gids -> [Products -> 0 .. MaxItemQuantity]] /\ MaxItemQuantity \in Nat
  BY QuantityAssumption
<1>2. Qty[g][p] \in 0 .. MaxItemQuantity
  BY <1>1
<1> QED BY <1>1, <1>2

\* A set of sagas buys finitely many pieces of a product.
LEMMA UnitsFinite ==
  ASSUME NEW G \in SUBSET Gids, NEW p \in Products
  PROVE  IsFiniteSet(Units(G, p)) /\ Pieces(G, p) \in Nat
<1>1. IsFiniteSet(G)
  BY GidsAssumption, FS_Subset
<1>2. IsFiniteSet(1 .. MaxItemQuantity)
  BY QuantityAssumption, FS_Interval
<1>3. IsFiniteSet(G \X (1 .. MaxItemQuantity))
  BY <1>1, <1>2, FS_Product
<1>4. IsFiniteSet(Units(G, p))
  BY <1>3, FS_Subset DEF Units
<1> QED BY <1>4, FS_CardinalityType DEF Pieces

\* No saga, no pieces.
LEMMA PiecesNone ==
  ASSUME NEW p \in Products
  PROVE  Pieces({}, p) = 0
<1>1. Units({}, p) = {}
  BY DEF Units
<1> QED BY <1>1, FS_EmptySet DEF Pieces

\* One saga buys its quantity.
LEMMA PiecesOfOne ==
  ASSUME NEW g \in Gids, NEW p \in Products
  PROVE  Pieces({g}, p) = Qty[g][p]
<1> DEFINE N == Qty[g][p]
<1>1. N \in 0 .. MaxItemQuantity /\ MaxItemQuantity \in Nat
  BY QtyType, QuantityAssumption
<1>2. Units({g}, p) = {g} \X (1 .. N)
  <2>1. ASSUME NEW u \in Units({g}, p)
        PROVE  u \in {g} \X (1 .. N)
    BY <1>1 DEF Units
  <2>2. ASSUME NEW u \in {g} \X (1 .. N)
        PROVE  u \in Units({g}, p)
    BY <1>1 DEF Units
  <2> QED BY <2>1, <2>2
<1> HIDE DEF N
<1>3. IsFiniteSet({g}) /\ Cardinality({g}) = 1
  BY FS_Singleton
<1>4. IsFiniteSet(1 .. N) /\ Cardinality(1 .. N) = N
  <2>1. /\ IsFiniteSet(1 .. N)
        /\ Cardinality(1 .. N) = IF 1 > N THEN 0 ELSE N - 1 + 1
    BY <1>1, FS_Interval
  <2> QED BY <1>1, <2>1
<1>5. Cardinality({g} \X (1 .. N)) = Cardinality({g}) * Cardinality(1 .. N)
  BY <1>3, <1>4, FS_Product
<1>6. Cardinality({g} \X (1 .. N)) = N
  BY <1>1, <1>3, <1>4, <1>5
<1>7. Pieces({g}, p) = N
  BY <1>2, <1>6, Zenon DEF Pieces
<1> QED BY <1>7 DEF N

\* A saga that joins a set adds its quantity.
LEMMA PiecesAdd ==
  ASSUME NEW G \in SUBSET Gids, NEW g \in Gids, g \notin G, NEW p \in Products
  PROVE  Pieces(G \cup {g}, p) = Pieces(G, p) + Qty[g][p]
<1>1. Units(G \cup {g}, p) = Units(G, p) \cup Units({g}, p)
  BY DEF Units
<1>2. Units(G, p) \cap Units({g}, p) = {}
  BY DEF Units
<1>3. IsFiniteSet(Units(G, p)) /\ IsFiniteSet(Units({g}, p))
  BY UnitsFinite
<1>4. /\ Pieces(G, p) \in Nat
      /\ Pieces({g}, p) = Qty[g][p]
      /\ Qty[g][p] \in Nat
  BY UnitsFinite, PiecesOfOne, QtyType
<1>5. Cardinality(Units(G, p) \cup Units({g}, p)) =
        Cardinality(Units(G, p)) + Cardinality(Units({g}, p))
          - Cardinality(Units(G, p) \cap Units({g}, p))
  BY <1>3, FS_Union
<1>6. Pieces(G \cup {g}, p) = Pieces(G, p) + Pieces({g}, p) - Cardinality({})
  BY <1>1, <1>2, <1>5, Zenon DEF Pieces
<1> QED BY <1>4, <1>6, FS_EmptySet

\* A saga that leaves a set takes its quantity away.
LEMMA PiecesRemove ==
  ASSUME NEW G \in SUBSET Gids, NEW g \in G, NEW p \in Products
  PROVE  Pieces(G \ {g}, p) = Pieces(G, p) - Qty[g][p]
<1>1. Pieces((G \ {g}) \cup {g}, p) = Pieces(G \ {g}, p) + Qty[g][p]
  BY PiecesAdd
<1>2. Pieces((G \ {g}) \cup {g}, p) = Pieces(G, p)
  <2>1. (G \ {g}) \cup {g} = G
    OBVIOUS
  <2> QED BY <2>1, Zenon
<1>3. Pieces(G \ {g}, p) \in Nat /\ Qty[g][p] \in Nat
  BY UnitsFinite, QtyType
<1> QED BY <1>1, <1>2, <1>3
=============================================================================
