--------------------------- MODULE MCSharedStock ---------------------------
(***************************************************************************)
(* Who shares the stock hashes.  Either three sagas compete for the last   *)
(* two pieces of a product with the scripts of PreLock; or sagas and direct *)
(* sales buy the product of SharedStock, two of one and one of the other,  *)
(* or one of each.                                                         *)
(***************************************************************************)
EXTENDS PreLock, SharedStock, TLC

CONSTANTS g1, g2, g3, p1, r1, r2, c1, c2, o1, o2

MCGids == {g1, g2, g3}
MCProducts == {p1}
MCQty == [g \in MCGids |-> [p \in MCProducts |-> 1]]
MCInitStock == [p \in MCProducts |-> 2]

MCRequestOf == c1 :> r1 @@ c2 :> r2
MCNum == [r \in {r1, r2} |-> 1]
MCPcs == o1 :> 2 @@ o2 :> 1

VARIABLE absent \* the actors left out; everyone, in PreLock's part

AllVars == <<ledgerVars, sharedVars, absent>>

Absences == {{c2}, {o2}, {c2, o2}}

StockInit == LedgerInit /\ SharedInit /\ absent \in Absences \cup {{c1, c2, o1, o2}}

ScriptsOnly == absent \notin Absences /\ LedgerNext /\ UNCHANGED <<sharedVars, absent>>

\* The product service restarts only where a call and an order are alone.
Shared ==
    /\ absent \in Absences /\ SharedNext
    /\ \A c \in Calls \cap absent : call'[c].pc = "new"
    /\ \A o \in Orders \cap absent : order'[o] = "new"
    /\ absent # {c2, o2} => warm'.pc = "off"
    /\ UNCHANGED <<ledgerVars, absent>>

StockSpec == StockInit /\ [][ScriptsOnly \/ Shared]_AllVars

\* The hashes, the keys of the sagas, sales, write-backs and orders keep their
\* types: above all, neither available nor the stock of the table is negative.
StockTypeOK == LedgerTypeOK /\ SharedTypeOK
=============================================================================
