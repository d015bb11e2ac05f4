--------------------------- MODULE PreLockProofs ---------------------------
(***************************************************************************)
(* The Redis ledger balances, for any sagas, products and quantities, in   *)
(* whatever order its scripts run, whoever overwrites a hash at whatever   *)
(* time, and whenever hashes and keys expire.  The books are inductive as  *)
(* they stand: a step moves the pieces of one cell between the kinds that  *)
(* the fields count, or starts a new book for one hash.                    *)
(***************************************************************************)
EXTENDS PreLock, StockUnitsProofs

LedgerInv == LedgerTypeOK /\ LedgerBalanced

-----------------------------------------------------------------------------
(* Counting pieces by their cells.                                         *)

Count(c, k, p) == Pieces({g \in Gids : c[g][p] = k}, p)

\* What a kind gains when a cell of saga g goes from old to new.
Gain(g, p, old, new, k) ==
    (IF new = k THEN Qty[g][p] ELSE 0) - (IF old = k THEN Qty[g][p] ELSE 0)

\* One cell of c is v in d, the others are the same.
OneCell(c, d, g, p, v) == d = [c EXCEPT ![g][p] = v]

\* A kind that no saga is of.
LEMMA CountNone ==
  ASSUME NEW c, NEW k, NEW p \in Products, \A g \in Gids : c[g][p] # k
  PROVE  Count(c, k, p) = 0
<1>1. {g \in Gids : c[g][p] = k} = {}
  OBVIOUS
<1> QED BY <1>1, PiecesNone, Zenon DEF Count

\* How a count changes when one cell does.
LEMMA Recount ==
  ASSUME NEW c \in [Gids -> [Products -> Cells]],
         NEW g \in Gids, NEW p \in Products, NEW v,
         NEW d, OneCell(c, d, g, p, v),
         NEW k, NEW q \in Products
  PROVE  /\ Gain(g, p, c[g][p], v, k) \in Int
         /\ Count(c, k, q) \in Nat
         /\ Count(d, k, q) = IF q = p THEN Count(c, k, q) + Gain(g, p, c[g][p], v, k)
                                     ELSE Count(c, k, q)
<1> DEFINE Old == {h \in Gids : c[h][q] = k}
           New == {h \in Gids : d[h][q] = k}
<1>0. /\ Old \in SUBSET Gids
      /\ Pieces(Old, q) \in Nat
      /\ Qty[g][p] \in Nat
  BY UnitsFinite, QtyType
<1>1. \A h \in Gids : h \in New <=> (IF h = g /\ q = p THEN v ELSE c[h][q]) = k
  BY DEF OneCell
<1>2. \A h \in Gids : h \in Old <=> c[h][q] = k
  OBVIOUS
<1>3. New \in SUBSET Gids
  OBVIOUS
<1>4. Count(d, k, q) = Pieces(New, q) /\ Count(c, k, q) = Pieces(Old, q)
  BY Zenon DEF Count
<1> HIDE DEF Old, New
<1>5. CASE q = p /\ v = k /\ c[g][p] # k
  <2>1. New = Old \cup {g} /\ g \notin Old
    BY <1>0, <1>1, <1>2, <1>3, <1>5
  <2>2. Pieces(Old \cup {g}, q) = Pieces(Old, q) + Qty[g][q]
    BY <1>0, <2>1, PiecesAdd
  <2>3. Pieces(New, q) = Pieces(Old, q) + Qty[g][q]
    BY <2>1, <2>2, Zenon
  <2>4. Count(d, k, q) = Count(c, k, q) + Qty[g][p]
    BY <1>4, <1>5, <2>3
  <2> QED BY <1>0, <1>4, <1>5, <2>4 DEF Gain
<1>6. CASE q = p /\ v # k /\ c[g][p] = k
  <2>1. New = Old \ {g} /\ g \in Old
    BY <1>0, <1>1, <1>2, <1>3, <1>6
  <2>2. Pieces(Old \ {g}, q) = Pieces(Old, q) - Qty[g][q]
    BY <1>0, <2>1, PiecesRemove
  <2>3. Pieces(New, q) = Pieces(Old, q) - Qty[g][q]
    BY <2>1, <2>2, Zenon
  <2>4. Count(d, k, q) = Count(c, k, q) - Qty[g][p]
    BY <1>4, <1>6, <2>3
  <2> QED BY <1>0, <1>4, <1>6, <2>4 DEF Gain
<1>7. CASE q # p \/ (v = k <=> c[g][p] = k)
  <2>1. New = Old
    BY <1>0, <1>1, <1>2, <1>3, <1>7
  <2>2. Count(d, k, q) = Count(c, k, q)
    BY <1>4, <2>1, Zenon
  <2> QED BY <1>0, <1>4, <1>7, <2>2 DEF Gain
<1> QED BY <1>5, <1>6, <1>7

-----------------------------------------------------------------------------
(* The books of one product.                                               *)

Balanced(p) ==
    /\ available[p] = total[p] - In("held", p) - In("confirmed", p)
                               + In("refunded", p) + In("overreleased", p)
    /\ preLocked[p] = In("held", p) - In("overconfirmed", p)
                                    - In("overreleased", p)
    /\ used[p] = In("confirmed", p) + In("overconfirmed", p)

LEMMA BalancedDef == LedgerBalanced <=> \A p \in Products : Balanced(p)
BY DEF LedgerBalanced, Balanced

LEMMA BooksTypes ==
  ASSUME LedgerTypeOK, NEW p \in Products
  PROVE  /\ available[p] \in Nat /\ preLocked[p] \in Int /\ used[p] \in Nat
         /\ total[p] \in Nat
         /\ \A g \in Gids : cell[g][p] \in Cells
         /\ \A k \in Booked : lapsed[p][k] \in Nat /\ In(k, p) \in Nat
<1>1. ASSUME NEW k \in Booked PROVE lapsed[p][k] \in Nat
  BY DEF LedgerTypeOK
<1>2. ASSUME NEW k \in Booked PROVE In(k, p) \in Nat
  <2>1. {g \in Gids : cell[g][p] = k} \in SUBSET Gids
    OBVIOUS
  <2>2. Pieces({g \in Gids : cell[g][p] = k}, p) \in Nat
    BY <2>1, UnitsFinite
  <2> QED BY <1>1, <2>2 DEF In
<1> QED BY <1>1, <1>2 DEF LedgerTypeOK

\* A cell that is v now, with the lapsed pieces unchanged, moves its pieces.
LEMMA OneMoved ==
  ASSUME LedgerTypeOK, NEW g \in Gids, NEW p \in Products, NEW v,
         OneCell(cell, cell', g, p, v), lapsed' = lapsed,
         NEW k \in Booked, NEW q \in Products
  PROVE  /\ Gain(g, p, cell[g][p], v, k) \in Int
         /\ In(k, q)' = IF q = p THEN In(k, q) + Gain(g, p, cell[g][p], v, k)
                                 ELSE In(k, q)
<1>1. cell \in [Gids -> [Products -> Cells]] /\ lapsed[q][k] \in Nat
  BY DEF LedgerTypeOK
<1>2. /\ Gain(g, p, cell[g][p], v, k) \in Int
      /\ Count(cell, k, q) \in Nat
  BY <1>1, Recount
<1>3. Count(cell', k, q) =
        IF q = p THEN Count(cell, k, q) + Gain(g, p, cell[g][p], v, k)
                 ELSE Count(cell, k, q)
  BY <1>1, Recount
<1>4. In(k, q) = Count(cell, k, q) + lapsed[q][k]
  BY Zenon DEF In, Count
<1>5. In(k, q)' = Count(cell', k, q) + lapsed[q][k]
  BY Zenon DEF In, Count
<1> QED BY <1>1, <1>2, <1>3, <1>4, <1>5

\* What a step adds to the fields of the hash of p.
Increments(p, da, dp, du) ==
    \A q \in Products :
        /\ available'[q] = IF q = p THEN available[q] + da ELSE available[q]
        /\ preLocked'[q] = IF q = p THEN preLocked[q] + dp ELSE preLocked[q]
        /\ used'[q] = IF q = p THEN used[q] + du ELSE used[q]
        /\ total'[q] = total[q]

\* These increments are what the books of p gain when the cell turns to v.
Matches(g, p, v, da, dp, du) ==
    LET gain(k) == Gain(g, p, cell[g][p], v, k) IN
    /\ da = gain("refunded") + gain("overreleased") - gain("held") - gain("confirmed")
    /\ dp = gain("held") - gain("overconfirmed") - gain("overreleased")
    /\ du = gain("confirmed") + gain("overconfirmed")

\* A script that changes one cell keeps the books balanced if its increments
\* of the fields match the change.
LEMMA BooksKept ==
  ASSUME LedgerTypeOK, LedgerBalanced,
         NEW g \in Gids, NEW p \in Products, NEW v,
         NEW da \in Int, NEW dp \in Int, NEW du \in Int,
         OneCell(cell, cell', g, p, v), lapsed' = lapsed,
         Increments(p, da, dp, du),
         Matches(g, p, v, da, dp, du)
  PROVE  LedgerBalanced'
<1> SUFFICES ASSUME NEW q \in Products PROVE Balanced(q)'
  BY DEF LedgerBalanced, Balanced
<1>1. Balanced(q)
  BY BalancedDef
<1> DEFINE Moved(k) ==
      /\ Gain(g, p, cell[g][p], v, k) \in Int
      /\ In(k, q) \in Nat
      /\ In(k, q)' = IF q = p THEN In(k, q) + Gain(g, p, cell[g][p], v, k)
                              ELSE In(k, q)
<1>2. ASSUME NEW k \in Booked PROVE Moved(k)
  BY OneMoved, BooksTypes
<1>3. /\ Moved("held") /\ Moved("confirmed") /\ Moved("overconfirmed")
      /\ Moved("overreleased") /\ Moved("refunded")
  BY <1>2 DEF Booked
<1>4. /\ available[q] \in Int /\ preLocked[q] \in Int /\ used[q] \in Int
      /\ total[q] \in Int
  BY DEF LedgerTypeOK
<1>5. /\ available'[q] = IF q = p THEN available[q] + da ELSE available[q]
      /\ preLocked'[q] = IF q = p THEN preLocked[q] + dp ELSE preLocked[q]
      /\ used'[q] = IF q = p THEN used[q] + du ELSE used[q]
      /\ total'[q] = total[q]
  BY DEF Increments
<1>6. CASE q = p
  BY <1>1, <1>3, <1>4, <1>5, <1>6 DEF Balanced, Matches
<1>7. CASE q # p
  BY <1>1, <1>3, <1>4, <1>5, <1>7 DEF Balanced
<1> QED BY <1>6, <1>7

LEMMA LedgerInitInv == LedgerInit => LedgerInv
<1> SUFFICES ASSUME LedgerInit PROVE LedgerInv
  OBVIOUS
<1> USE DEF LedgerInit
<1>1. LedgerTypeOK
  BY DEF LedgerTypeOK, Cells
<1>2. ASSUME NEW p \in Products PROVE Balanced(p)
  <2>1. ASSUME NEW k \in Booked PROVE In(k, p) = 0
    <3>1. \A g \in Gids : cell[g][p] # k
      BY DEF Booked
    <3>2. Count(cell, k, p) = 0
      BY <3>1, CountNone
    <3>3. lapsed[p][k] = 0
      OBVIOUS
    <3>4. In(k, p) = Count(cell, k, p) + lapsed[p][k]
      BY Zenon DEF In, Count
    <3> QED BY <3>2, <3>3, <3>4
  <2>2. /\ In("held", p) = 0 /\ In("confirmed", p) = 0 /\ In("overconfirmed", p) = 0
        /\ In("overreleased", p) = 0 /\ In("refunded", p) = 0
    BY <2>1 DEF Booked
  <2> QED BY <2>2 DEF Balanced
<1> QED BY <1>1, <1>2, BalancedDef DEF LedgerInv

-----------------------------------------------------------------------------
(* The scripts, the expiries and the load keep the invariant.              *)

LEMMA PreLockStep ==
  ASSUME LedgerInv, NEW g \in Gids, NEW p \in Products, PreLock(g, p)
  PROVE  LedgerInv'
<1> USE DEF LedgerInv
<1> DEFINE n == Qty[g][p]
<1>1. /\ cell[g][p] = "none" /\ loaded[p] /\ available[p] >= n
      /\ n \in Nat /\ available[p] \in Nat /\ preLocked[p] \in Int
  <2>1. cell[g][p] \in Cells
    BY BooksTypes
  <2>2. PreLockCode(g, p) = 1
    BY DEF PreLock
  <2> QED BY <2>1, <2>2, BooksTypes, QtyType
          DEF PreLockCode, Cells, Held, Confirmed, Reverted
<1>2. LedgerTypeOK'
  BY <1>1 DEF PreLock, LedgerTypeOK, Cells, Held
<1>4. LedgerBalanced'
  <2>1. OneCell(cell, cell', g, p, "held") /\ lapsed' = lapsed
    BY DEF PreLock, OneCell
  <2>2. Increments(p, 0 - n, n, 0)
    BY <1>1 DEF PreLock, LedgerTypeOK, Increments
  <2>3. Matches(g, p, "held", 0 - n, n, 0)
    BY <1>1 DEF Matches, Gain
  <2>4. 0 - n \in Int /\ n \in Int /\ 0 \in Int
    BY <1>1
  <2> HIDE DEF n
  <2> QED BY <2>1, <2>2, <2>3, <2>4, BooksKept
<1> QED BY <1>2, <1>4

LEMMA ConfirmStep ==
  ASSUME LedgerInv, NEW g \in Gids, NEW p \in Products, Confirm(g, p)
  PROVE  LedgerInv'
<1> USE DEF LedgerInv
<1> DEFINE n == Qty[g][p]
           v == IF cell[g][p] = "held" THEN "confirmed" ELSE "overconfirmed"
<1>1. /\ cell[g][p] \in {"none", "held", "overwritten"}
      /\ n \in Nat /\ available[p] \in Nat /\ preLocked[p] \in Int
      /\ used[p] \in Nat
  <2>1. cell[g][p] \in Cells
    BY BooksTypes
  <2>2. ConfirmCode(g, p) = 1
    BY DEF Confirm
  <2> QED BY <2>1, <2>2, BooksTypes, QtyType
          DEF ConfirmCode, Cells, Held, Confirmed, Reverted
<1>2. LedgerTypeOK'
  BY <1>1 DEF Confirm, LedgerTypeOK, Cells, Confirmed
<1>4. LedgerBalanced'
  <2>1. OneCell(cell, cell', g, p, v) /\ lapsed' = lapsed
    BY DEF Confirm, OneCell, LedgerTypeOK
  <2>2. Increments(p, 0, 0 - n, n)
    BY <1>1 DEF Confirm, LedgerTypeOK, Increments
  <2>3. Matches(g, p, v, 0, 0 - n, n)
    BY <1>1 DEF Matches, Gain
  <2>4. 0 - n \in Int /\ n \in Int /\ 0 \in Int
    BY <1>1
  <2> HIDE DEF n, v
  <2> QED BY <2>1, <2>2, <2>3, <2>4, BooksKept
<1> QED BY <1>2, <1>4

LEMMA RevertStep ==
  ASSUME LedgerInv, NEW g \in Gids, NEW p \in Products, Revert(g, p)
  PROVE  LedgerInv'
<1> USE DEF LedgerInv
<1> DEFINE n == Qty[g][p]
           v == RevertedCell(g, p)
<1>1. /\ cell[g][p] \in {"none", "held", "overwritten"}
      /\ n \in Nat /\ available[p] \in Nat /\ preLocked[p] \in Int
  <2>1. cell[g][p] \in Cells
    BY BooksTypes
  <2>2. RevertCode(g, p) = 1
    BY DEF Revert
  <2> QED BY <2>1, <2>2, BooksTypes, QtyType
          DEF RevertCode, Cells, Held, Confirmed, Reverted
<1>2. LedgerTypeOK'
  <2>1. preLocked' \in [Products -> Int]
    <3>1. preLocked \in [Products -> Int] /\ preLocked[p] - n \in Int
      BY <1>1 DEF LedgerTypeOK
    <3> QED BY <3>1 DEF Revert
  <2>2. cell' \in [Gids -> [Products -> Cells]]
    <3>1. v \in Cells
      BY <1>1 DEF RevertedCell, Cells, Reverted
    <3>2. cell' = [cell EXCEPT ![g][p] = v]
      BY DEF Revert
    <3> QED BY <3>1, <3>2 DEF LedgerTypeOK
  <2>3. /\ loaded' \in [Products -> BOOLEAN]
        /\ available' \in [Products -> Nat]
    BY <1>1 DEF Revert, LedgerTypeOK
  <2> QED BY <2>1, <2>2, <2>3 DEF Revert, LedgerTypeOK
<1>4. LedgerBalanced'
  <2>0. n \in Int /\ 0 - n \in Int /\ 0 \in Int
    BY <1>1
  <2>1. OneCell(cell, cell', g, p, v) /\ lapsed' = lapsed
    BY DEF Revert, OneCell
  <2>2. CASE cell[g][p] = "held"
    <3>1. v = "released"
      BY <2>2 DEF RevertedCell
    <3>2. Increments(p, n, 0 - n, 0)
      BY <1>1, <2>2 DEF Revert, LedgerTypeOK, Increments, Held
    <3>3. Matches(g, p, v, n, 0 - n, 0)
      BY <1>1, <2>2, <3>1 DEF Matches, Gain
    <3> HIDE DEF n, v
    <3> QED BY <2>0, <2>1, <3>2, <3>3, BooksKept
  <2>3. CASE cell[g][p] = "overwritten"
    <3>1. v = "overreleased"
      BY <2>3 DEF RevertedCell
    <3>2. Increments(p, n, 0 - n, 0)
      BY <1>1, <2>3 DEF Revert, LedgerTypeOK, Increments, Held
    <3>3. Matches(g, p, v, n, 0 - n, 0)
      BY <1>1, <2>3, <3>1 DEF Matches, Gain
    <3> HIDE DEF n, v
    <3> QED BY <2>0, <2>1, <3>2, <3>3, BooksKept
  <2>4. CASE cell[g][p] = "none"
    <3>1. v = "refunded"
      BY <2>4 DEF RevertedCell
    <3>2. Increments(p, n, 0, 0)
      BY <1>1, <2>4 DEF Revert, LedgerTypeOK, Increments, Held
    <3>3. Matches(g, p, v, n, 0, 0)
      BY <1>1, <2>4, <3>1 DEF Matches, Gain
    <3> HIDE DEF n, v
    <3> QED BY <2>0, <2>1, <3>2, <3>3, BooksKept
  <2> QED BY <1>1, <2>2, <2>3, <2>4
<1> QED BY <1>2, <1>4

\* The pieces of an expired key stay in their kind, or are in none.
LEMMA ExpireStep ==
  ASSUME LedgerInv, NEW g \in Gids, NEW p \in Products, ExpireKey(g, p)
  PROVE  LedgerInv'
<1> USE DEF LedgerInv
<1> DEFINE n == Qty[g][p]
           old == cell[g][p]
<1>1. /\ n \in Nat /\ old # "none"
      /\ cell' = [cell EXCEPT ![g][p] = "none"]
      /\ UNCHANGED <<loaded, total, available, preLocked, used>>
  BY QtyType DEF ExpireKey
<1>2. lapsed' = IF old \in Booked THEN [lapsed EXCEPT ![p][old] = @ + n] ELSE lapsed
  BY DEF ExpireKey
<1>3. LedgerTypeOK'
  <2>1. lapsed' \in [Products -> [Booked -> Nat]]
    <3>1. lapsed \in [Products -> [Booked -> Nat]]
      BY DEF LedgerTypeOK
    <3>2. CASE old \in Booked
      <4>1. lapsed[p][old] + n \in Nat
        BY <1>1, <3>1, <3>2
      <4> HIDE DEF old, n
      <4> QED BY <1>2, <3>1, <3>2, <4>1
    <3> QED BY <1>2, <3>1, <3>2
  <2> QED BY <1>1, <2>1 DEF LedgerTypeOK, Cells
<1>4. ASSUME NEW k \in Booked, NEW q \in Products PROVE In(k, q)' = In(k, q)
  <2>1. /\ cell \in [Gids -> [Products -> Cells]] /\ lapsed[q][k] \in Nat
        /\ lapsed \in [Products -> [Booked -> Nat]]
    BY DEF LedgerTypeOK
  <2>2. OneCell(cell, cell', g, p, "none")
    BY <1>1 DEF OneCell
  <2>3. /\ Gain(g, p, cell[g][p], "none", k) \in Int
        /\ Count(cell, k, q) \in Nat
    BY <2>1, <2>2, Recount
  <2>4. Count(cell', k, q) =
          IF q = p THEN Count(cell, k, q) + Gain(g, p, cell[g][p], "none", k)
                   ELSE Count(cell, k, q)
    BY <2>1, <2>2, Recount
  <2>5. In(k, q) = Count(cell, k, q) + lapsed[q][k]
    BY Zenon DEF In, Count
  <2>6. In(k, q)' = Count(cell', k, q) + lapsed'[q][k]
    BY Zenon DEF In, Count
  <2>7. Gain(g, p, cell[g][p], "none", k) = IF old = k THEN 0 - n ELSE 0
    BY <1>1 DEF Gain, Booked
  <2>8. lapsed'[q][k] = IF q = p /\ old = k THEN lapsed[q][k] + n ELSE lapsed[q][k]
    <3> HIDE DEF old, n
    <3> QED BY <1>2, <2>1
  <2> HIDE DEF old, n
  <2> QED BY <1>1, <2>1, <2>3, <2>4, <2>5, <2>6, <2>7, <2>8
<1>5. ASSUME NEW q \in Products PROVE Balanced(q)'
  <2>1. /\ In("held", q)' = In("held", q) /\ In("confirmed", q)' = In("confirmed", q)
        /\ In("overconfirmed", q)' = In("overconfirmed", q)
        /\ In("overreleased", q)' = In("overreleased", q)
        /\ In("refunded", q)' = In("refunded", q)
    BY <1>4 DEF Booked
  <2>2. Balanced(q)
    BY BalancedDef
  <2> QED BY <1>1, <2>1, <2>2 DEF Balanced
<1>6. LedgerBalanced'
  BY <1>5 DEF LedgerBalanced, Balanced
<1> QED BY <1>3, <1>6

\* A hash that is loaded, or gone, has a new book.
LEMMA NewBookStep ==
  ASSUME LedgerInv, NEW p \in Products, NEW n \in Nat, NewBook(p),
         NEW b \in BOOLEAN,
         loaded' = [loaded EXCEPT ![p] = b],
         total' = [total EXCEPT ![p] = n],
         available' = [available EXCEPT ![p] = n],
         preLocked' = [preLocked EXCEPT ![p] = 0],
         used' = [used EXCEPT ![p] = 0]
  PROVE  LedgerInv'
<1> USE DEF LedgerInv
<1>1. /\ \A g \in Gids, q \in Products :
           cell'[g][q] = IF q = p THEN Forgotten(cell[g][q]) ELSE cell[g][q]
      /\ \A q \in Products, k \in Booked :
           lapsed'[q][k] = IF q = p THEN 0 ELSE lapsed[q][k]
      /\ lapsed' \in [Products -> [Booked -> Nat]]
  BY DEF NewBook, LedgerTypeOK
<1>2. \A c \in Cells : Forgotten(c) \in Cells \ Booked
  BY DEF Forgotten, Cells, Booked, Held, Confirmed, Reverted
<1>3. LedgerTypeOK'
  <2>1. cell' = [g \in Gids |-> [cell[g] EXCEPT ![p] = Forgotten(@)]]
    BY DEF NewBook
  <2>2. cell \in [Gids -> [Products -> Cells]]
    BY DEF LedgerTypeOK
  <2>3. cell' \in [Gids -> [Products -> Cells]]
    BY <1>2, <2>1, <2>2
  <2>4. /\ loaded' \in [Products -> BOOLEAN] /\ total' \in [Products -> Nat]
        /\ available' \in [Products -> Nat] /\ preLocked' \in [Products -> Int]
        /\ used' \in [Products -> Nat]
    BY DEF LedgerTypeOK
  <2> QED BY <1>1, <2>3, <2>4 DEF LedgerTypeOK
<1>4. ASSUME NEW q \in Products PROVE Balanced(q)'
  <2>1. CASE q = p
    <3>1. ASSUME NEW k \in Booked PROVE In(k, p)' = 0
      <4>1. \A g \in Gids : cell'[g][p] # k
        <5>1. \A g \in Gids : cell[g][p] \in Cells
          BY BooksTypes
        <5> QED BY <1>1, <1>2, <5>1
      <4>2. Count(cell', k, p) = 0
        BY <4>1, CountNone
      <4>3. In(k, p)' = Count(cell', k, p) + lapsed'[p][k]
        BY Zenon DEF In, Count
      <4> QED BY <1>1, <4>2, <4>3
    <3>2. /\ In("held", p)' = 0 /\ In("confirmed", p)' = 0
          /\ In("overconfirmed", p)' = 0 /\ In("overreleased", p)' = 0
          /\ In("refunded", p)' = 0
      BY <3>1 DEF Booked
    <3>3. available'[p] = n /\ total'[p] = n /\ preLocked'[p] = 0 /\ used'[p] = 0
      BY DEF LedgerTypeOK
    <3> QED BY <2>1, <3>2, <3>3 DEF Balanced
  <2>2. CASE q # p
    <3>1. ASSUME NEW k \in Booked PROVE In(k, q)' = In(k, q)
      <4>1. {g \in Gids : cell'[g][q] = k} = {g \in Gids : cell[g][q] = k}
        BY <1>1, <2>2
      <4>2. lapsed'[q][k] = lapsed[q][k]
        BY <1>1, <2>2
      <4> QED BY <4>1, <4>2, Zenon DEF In
    <3>2. /\ In("held", q)' = In("held", q) /\ In("confirmed", q)' = In("confirmed", q)
          /\ In("overconfirmed", q)' = In("overconfirmed", q)
          /\ In("overreleased", q)' = In("overreleased", q)
          /\ In("refunded", q)' = In("refunded", q)
      BY <3>1 DEF Booked
    <3>3. /\ available'[q] = available[q] /\ total'[q] = total[q]
          /\ preLocked'[q] = preLocked[q] /\ used'[q] = used[q]
      BY <2>2 DEF LedgerTypeOK
    <3>4. Balanced(q)
      BY BalancedDef
    <3> QED BY <3>2, <3>3, <3>4 DEF Balanced
  <2> QED BY <2>1, <2>2
<1>5. LedgerBalanced'
  BY <1>4 DEF LedgerBalanced, Balanced
<1> QED BY <1>3, <1>5

LEMMA LoadStep ==
  ASSUME LedgerInv, NEW p \in Products,
         (\E n \in 0 .. InitStock[p] : LoadStock(p, n)) \/ ExpireHash(p)
  PROVE  LedgerInv'
<1>1. ASSUME NEW n \in 0 .. InitStock[p], LoadStock(p, n) PROVE LedgerInv'
  <2>1. n \in Nat
    BY QuantityAssumption
  <2> QED BY <1>1, <2>1, NewBookStep DEF LoadStock
<1>2. CASE ExpireHash(p)
  BY <1>2, NewBookStep DEF ExpireHash
<1> QED BY <1>1, <1>2

LEMMA LedgerStepInv == LedgerInv /\ [LedgerNext]_ledgerVars => LedgerInv'
<1> SUFFICES ASSUME LedgerInv, [LedgerNext]_ledgerVars PROVE LedgerInv'
  OBVIOUS
<1>1. ASSUME NEW g \in Gids, NEW p \in Items(g),
             PreLock(g, p) \/ Confirm(g, p) \/ Revert(g, p) \/ ExpireKey(g, p)
      PROVE  LedgerInv'
  <2>1. p \in Products
    BY DEF Items
  <2> QED BY <1>1, <2>1, PreLockStep, ConfirmStep, RevertStep, ExpireStep
<1>2. ASSUME NEW p \in Products,
             (\E n \in 0 .. InitStock[p] : LoadStock(p, n)) \/ ExpireHash(p)
      PROVE  LedgerInv'
  BY <1>2, LoadStep
<1>3. CASE UNCHANGED ledgerVars
  <2>1. LedgerTypeOK'
    BY <1>3 DEF ledgerVars, LedgerInv, LedgerTypeOK
  <2>2. LedgerBalanced'
    BY <1>3 DEF ledgerVars, LedgerInv, LedgerBalanced, In
  <2> QED BY <2>1, <2>2 DEF LedgerInv
<1> QED BY <1>1, <1>2, <1>3 DEF LedgerNext

-----------------------------------------------------------------------------
(* Theorems.                                                               *)

\* The fields of a hash keep their types; available never goes below zero.
THEOREM LedgerTypeCorrect == LedgerSpec => []LedgerTypeOK
<1>1. LedgerInv => LedgerTypeOK
  BY DEF LedgerInv
<1> QED BY <1>1, LedgerInitInv, LedgerStepInv, PTL DEF LedgerSpec

\* Every field of the hash is accounted for by the keys of the sagas, in
\* whatever order the scripts run, the hash is overwritten and hash and keys
\* expire.
THEOREM LedgerAlwaysBalanced == LedgerSpec => []LedgerBalanced
<1>1. LedgerInv => LedgerBalanced
  BY DEF LedgerInv
<1> QED BY <1>1, LedgerInitInv, LedgerStepInv, PTL DEF LedgerSpec

\* No piece is promised twice by the pre-lock script under one hash.
THEOREM LedgerNeverOverLocks == LedgerSpec => []NoOverLock
<1>1. LedgerInv => NoOverLock
  <2> SUFFICES ASSUME LedgerInv, NEW p \in Products
               PROVE  In("held", p) + In("confirmed", p)
                        <= total[p] + In("refunded", p) + In("overreleased", p)
    BY DEF NoOverLock
  <2>1. Balanced(p)
    BY BalancedDef DEF LedgerInv
  <2>2. /\ available[p] \in Nat /\ total[p] \in Nat
        /\ In("held", p) \in Nat /\ In("confirmed", p) \in Nat
        /\ In("refunded", p) \in Nat /\ In("overreleased", p) \in Nat
    BY BooksTypes DEF LedgerInv, Booked
  <2> QED BY <2>1, <2>2 DEF Balanced
<1> QED BY <1>1, LedgerInitInv, LedgerStepInv, PTL DEF LedgerSpec

\* What a script decided stays decided while its key lives.
THEOREM LedgerDecisionsFinal == LedgerSpec => DecisionsFinal
<1> DEFINE Kept(g, p, D) ==
             cell[g][p] \in D =>
               \/ cell'[g][p] \in D
               \/ /\ cell'[g][p] = "none"
                  /\ UNCHANGED <<available[p], preLocked[p], used[p]>>
           AllKept == \A g \in Gids, p \in Products, D \in {Confirmed, Reverted} :
                        Kept(g, p, D)
<1>1. LedgerInv /\ [LedgerNext]_ledgerVars => [AllKept]_ledgerVars
  <2> SUFFICES ASSUME LedgerInv, LedgerNext PROVE AllKept
    OBVIOUS
  <2>0. /\ LedgerTypeOK
        /\ cell \in [Gids -> [Products -> Cells]]
    BY DEF LedgerInv, LedgerTypeOK
  <2>1. ASSUME NEW g \in Gids, NEW p \in Items(g),
               PreLock(g, p) \/ Confirm(g, p) \/ Revert(g, p)
        PROVE  AllKept
    <3>1. p \in Products
      BY DEF Items
    <3>2. cell[g][p] \in {"none", "held", "overwritten"}
      <4>1. cell[g][p] \in Cells
        BY <2>0, <3>1
      <4>2. PreLockCode(g, p) = 1 \/ ConfirmCode(g, p) = 1 \/ RevertCode(g, p) = 1
        BY <2>1 DEF PreLock, Confirm, Revert
      <4> QED BY <4>1, <4>2
              DEF PreLockCode, ConfirmCode, RevertCode, Cells, Held, Confirmed, Reverted
    <3>3. \E v : cell' = [cell EXCEPT ![g][p] = v]
      BY <2>1 DEF PreLock, Confirm, Revert
    <3>4. \A h \in Gids, q \in Products :
            h # g \/ q # p => cell'[h][q] = cell[h][q]
      BY <2>0, <3>1, <3>3
    <3> QED BY <3>2, <3>4 DEF Confirmed, Reverted
  <2>2. ASSUME NEW g \in Gids, NEW p \in Items(g), ExpireKey(g, p)
        PROVE  AllKept
    <3>1. p \in Products
      BY DEF Items
    <3>2. /\ \A h \in Gids, q \in Products :
               cell'[h][q] = IF h = g /\ q = p THEN "none" ELSE cell[h][q]
          /\ UNCHANGED <<available, preLocked, used>>
      BY <2>0, <2>2, <3>1 DEF ExpireKey
    <3> QED BY <3>2
  <2>3. ASSUME NEW p \in Products, NewBook(p)
        PROVE  AllKept
    <3>1. \A h \in Gids, q \in Products :
            cell'[h][q] = IF q = p THEN Forgotten(cell[h][q]) ELSE cell[h][q]
      BY <2>0, <2>3 DEF NewBook
    <3>2. \A c \in Cells, D \in {Confirmed, Reverted} :
            c \in D => Forgotten(c) \in D
      BY DEF Forgotten, Cells, Held, Confirmed, Reverted
    <3> QED BY <2>0, <3>1, <3>2
  <2>4. ASSUME NEW p \in Products,
               (\E n \in 0 .. InitStock[p] : LoadStock(p, n)) \/ ExpireHash(p)
        PROVE  NewBook(p)
    BY <2>4 DEF LoadStock, ExpireHash
  <2> QED BY <2>1, <2>2, <2>3, <2>4 DEF LedgerNext
<1> QED BY <1>1, LedgerInitInv, LedgerStepInv, PTL DEF LedgerSpec, DecisionsFinal
=============================================================================
