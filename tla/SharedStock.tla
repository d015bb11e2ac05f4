---------------------------- MODULE SharedStock ----------------------------
(***************************************************************************)
(* One product that is bought directly (StockSync) and through order sagas *)
(* (OrderSaga, PreLock) at once: both change the field available of the    *)
(* same hash and the same row of the product table, but a saga takes its   *)
(* pieces out of the table first and a direct sale only in the end.        *)
(*                                                                         *)
(* Of a saga only its item of this product is kept, one delivery at a time;*)
(* DTM, the barrier and the confirm script are in OrderSaga and PreLock.   *)
(***************************************************************************)
EXTENDS StockSync

CONSTANTS
    Orders,      \* order sagas that buy the product
    Pcs,         \* Pcs[o]: how many pieces of it
    MayRollBack  \* TRUE: DTM may roll sagas back

ASSUME OrdersAssumption ==
    /\ IsFiniteSet(Orders) /\ Pcs \in [Orders -> 1 .. MaxNum]
    /\ MayRollBack \in BOOLEAN

VARIABLES
    order,   \* order[o]: what the saga has committed in the database
    key,     \* key[o]: its keys in Redis (PreLock's cells, fewer of them)
    at,      \* at[o]: where its call of CreateOrderDTM is
    out,     \* history: orders whose pieces available does not offer
    written, \* history: pieces that write-backs took out of the table
    causes   \* history: what has made the hash tell another stock

orderVars == <<order, key, at, out>>
sharedVars == <<vars, orderVars, written, causes>>

\* new        nothing, or decr refused       cancelling  to be cancelled
\* taken      DecrStock done                 withdrawn   no order will come
\* placed     the order row is there         returned    DecrStockRevert done
OrderStates == {"new", "taken", "placed", "cancelling", "withdrawn", "returned"}
Holding == {"taken", "placed", "cancelling", "withdrawn"}
\* stale      a load wrote more than the table holds
\* unwritten  a load, or a pre-lock without a hash, while sold pieces were
\*            still in the table
\* phantom    a revert gave back pieces that no pre-lock had taken
\* undone     a revert gave back the pieces of a committed order
\* lapsed     a key of an order has expired
Causes == {"stale", "unwritten", "phantom", "undone", "lapsed"}

SharedTypeOK ==
    /\ SyncTypeOK
    /\ order \in [Orders -> OrderStates]
    /\ key \in [Orders -> {"none", "held", "reverted"}]
    /\ at \in [Orders -> {"idle", "checked", "locked", "undo"}]
    /\ \A o \in Orders : at[o] = "locked" => order[o] = "taken" /\ o \in out
    /\ out \subseteq Orders /\ written \in Nat /\ causes \subseteq Causes

SharedInit ==
    /\ Init
    /\ order = [o \in Orders |-> "new"] /\ key = [o \in Orders |-> "none"]
    /\ at = [o \in Orders |-> "idle"]
    /\ out = {} /\ written = 0 /\ causes = {}

Amounts == INSTANCE StockUnits WITH
    Gids <- Orders, Products <- {Product}, MaxItemQuantity <- MaxNum,
    Qty <- [o \in Orders |-> [p \in {Product} |-> Pcs[o]]],
    InitStock <- [p \in {Product} |-> InitialStock]

Ordered(S) == Amounts!Pieces(S, Product)
Sold == Sale!Pieces({r \in Requests : charged[r] > 0}, Product)
Left == IF hash.available = Missing THEN 0 ELSE hash.available
InState(S) == {o \in Orders : order[o] \in S}

Because(c) == causes' = causes \cup c
When(cause, holds) == IF holds THEN {cause} ELSE {}
Unwritten == Sold > written

-----------------------------------------------------------------------------
(* Direct sales, as in StockSync.                                          *)

Loads(n) == Because(When("stale", n > stock) \cup When("unwritten", Unwritten))

\* Without a hash, and in one just loaded, the stock that DecrStockRevert has
\* put back is offered again.
OfferReturned == out' = out \ InState({"returned"})

SaleStep ==
    \/ /\ \E c \in Calls :
            \/ CheckSells(c) \/ CheckAnswers(c) \/ CheckMisses(c) \/ LoadRead(c) \/ Retry(c)
            \/ CallFails(c) \/ SyncRead(c) \/ SyncCas(c) \/ SyncStops(c)
       /\ UNCHANGED <<out, written, causes>>
    \/ (WarmRead \/ WarmCheck \/ RowLapses) /\ UNCHANGED <<out, written, causes>>
    \/ \E c \in Calls :
         SyncUpdate(c) /\ written' = written + (stock - stock') /\ UNCHANGED <<out, causes>>
    \/ \E c \in Calls :
         LoadWrite(c) /\ Loads(call[c].seen) /\ OfferReturned /\ UNCHANGED written
    \/ WarmWrite /\ Loads(warm.seen) /\ OfferReturned /\ UNCHANGED written
    \/ HashLapses /\ OfferReturned /\ UNCHANGED <<written, causes>>

-----------------------------------------------------------------------------
(* The order sagas.                                                        *)

saleVars == <<processed, charged, kept, call, sync, tasks, warm>>

SetOrder(o, s) == order' = [order EXCEPT ![o] = s]
SetKey(o, k) == key' = [key EXCEPT ![o] = k]
Move(o, pc) == at' = [at EXCEPT ![o] = pc]
Offer(n) == hash' = [hash EXCEPT !.available = Left + n]

\* DecrStock: TxUpdateStock has a guard of its own.  (It and DecrStockRevert
\* also refuse a product that is off sale, for as long as it is: a delay.)
TakeStock(o) ==
    /\ order[o] = "new" /\ stock >= Pcs[o]
    /\ stock' = stock - Pcs[o] /\ SetOrder(o, "taken")
    /\ UNCHANGED <<saleVars, hash, row, budget, key, at, out, written, causes>>

\* CreateOrderDTM: the check of the cached product row.
CheckOrder(o) ==
    /\ order[o] = "taken" /\ at[o] = "idle"
    /\ row' = IF row = Missing THEN stock ELSE row
    /\ IF row' >= Pcs[o] THEN Move(o, "checked") ELSE UNCHANGED at
    /\ UNCHANGED <<saleVars, hash, stock, budget, order, key, out, written, causes>>

\* Mutant: available is not compared.
TakesAny(o) == key[o] = "none" /\ ~hash.invalid /\ hash.available # Missing

\* luaPreLockStock answers 1.
Takes(o) == key[o] = "none" /\ ~hash.invalid /\ hash.available # Missing
            /\ hash.available >= Pcs[o]

\* It answers 2 or 5: the pieces were taken before, or there is no hash yet.
Repeats(o) == key[o] = "held"
Unseen(o) == key[o] = "none" /\ ~hash.invalid /\ hash.available = Missing

\* The hash after answer 1.
TakenFrom(o) == [hash EXCEPT !.available = @ - Pcs[o]]

TakePieces(o) ==
    hash' = TakenFrom(o) /\ SetKey(o, "held") /\ out' = out \cup {o}

\* CreateOrderDTM: the transaction begins and pre-locks. A saga that DTM has
\* given up meanwhile finds the barrier row there.
PreLockOrder(o) ==
    /\ at[o] = "checked"
    /\ \/ /\ order[o] # "taken" /\ Move(o, "idle")
          /\ UNCHANGED <<hash, budget, key, out, causes>>
       \/ /\ order[o] = "taken" /\ Takes(o) /\ TakePieces(o) /\ Move(o, "locked")
          /\ UNCHANGED <<budget, causes>>
       \/ /\ order[o] = "taken" /\ Repeats(o) /\ Move(o, "locked")
          /\ UNCHANGED <<hash, budget, key, out, causes>>
       \/ /\ order[o] = "taken" /\ Unseen(o) /\ Move(o, "locked")
          /\ out' = out \cup {o} /\ Because(When("unwritten", Unwritten))
          /\ UNCHANGED <<hash, budget, key>>
       \/ /\ order[o] = "taken" /\ ~(Takes(o) \/ Repeats(o) \/ Unseen(o))
          /\ Move(o, "undo")
          /\ UNCHANGED <<hash, budget, key, out, causes>>
       \/ /\ order[o] = "taken" /\ Fault /\ Move(o, "undo") \* no answer
          /\ (Takes(o) /\ TakePieces(o)) \/ UNCHANGED <<hash, key, out>>
          /\ UNCHANGED causes
    /\ UNCHANGED <<saleVars, stock, row, order, written>>

\* The commit of the order; one that reports an error may have happened.
PlaceOrder(o) ==
    /\ at[o] = "locked"
    /\ \/ SetOrder(o, "placed") /\ Move(o, "idle") /\ UNCHANGED budget
       \/ /\ Fault /\ Move(o, "undo")
          /\ SetOrder(o, "placed") \/ UNCHANGED order
    /\ UNCHANGED <<saleVars, hash, stock, row, key, out, written, causes>>

\* luaRevertStock gives back the quantity of the order, whether the key of the
\* pre-lock is there or not.
RevertOrder(o) ==
    IF key[o] = "reverted" THEN UNCHANGED <<hash, key, out, causes>>
    ELSE /\ Offer(Pcs[o]) /\ SetKey(o, "reverted") /\ out' = out \ {o}
         /\ Because(When("phantom", o \notin out)
                    \cup When("undone", o \in out /\ order[o] = "placed"))

\* The loop after a failed transaction; its errors are ignored.
UndoOrder(o) ==
    /\ at[o] = "undo" /\ Move(o, "idle")
    /\ \/ RevertOrder(o) /\ UNCHANGED budget
       \/ Fault /\ UNCHANGED <<hash, key, out, causes>>
    /\ UNCHANGED <<saleVars, stock, row, order, written>>

\* The process of CreateOrderDTM dies, and its transaction rolls back.
OrderDies(o) ==
    /\ at[o] # "idle" /\ Fault /\ Move(o, "idle")
    /\ UNCHANGED <<saleVars, hash, stock, row, order, key, out, written, causes>>

\* DTM gives a saga up. If there is no order yet the barrier rules it out.
RollBack(o) ==
    /\ MayRollBack /\ at[o] # "locked"
    /\ \/ order[o] = "taken" /\ SetOrder(o, "withdrawn")
       \/ order[o] = "placed" /\ SetOrder(o, "cancelling")
    /\ UNCHANGED <<saleVars, hash, stock, row, budget, key, at, out, written, causes>>

\* CreateOrderDTMRevert: the script, then the commit, which may fail.
CancelReverts(o) ==
    /\ order[o] = "cancelling" /\ RevertOrder(o)
    /\ \/ SetOrder(o, "withdrawn") /\ UNCHANGED budget
       \/ Fault /\ UNCHANGED order
    /\ UNCHANGED <<saleVars, stock, row, at, written>>

\* Mutant: the compensation adds the pieces twice.
ReturnedTwice(o) == stock + 2 * Pcs[o]

\* The stock that DecrStockRevert leaves.
Returned(o) == stock + Pcs[o]

ReturnStock(o) ==
    /\ order[o] = "withdrawn"
    /\ stock' = Returned(o) /\ SetOrder(o, "returned")
    /\ out' = IF hash.available = Missing THEN out \ {o} ELSE out
    /\ UNCHANGED <<saleVars, hash, row, budget, key, at, written, causes>>

\* The pre-lock key lives 30 minutes, the revert key 24 hours.
KeyLapses(o) ==
    /\ key[o] # "none" /\ budget.lapses > 0
    /\ SetKey(o, "none") /\ Because({"lapsed"})
    /\ budget' = [budget EXCEPT !.lapses = @ - 1]
    /\ UNCHANGED <<saleVars, hash, stock, row, order, at, out, written>>

OrderStep(o) ==
    \/ TakeStock(o) \/ CheckOrder(o) \/ PreLockOrder(o) \/ PlaceOrder(o)
    \/ UndoOrder(o) \/ OrderDies(o) \/ RollBack(o) \/ CancelReverts(o)
    \/ ReturnStock(o) \/ KeyLapses(o)

SharedNext ==
    \/ SaleStep /\ UNCHANGED <<order, key, at>>
    \/ \E o \in Orders : OrderStep(o)

SharedSpec == SharedInit /\ [][SharedNext]_sharedVars

-----------------------------------------------------------------------------
(* Properties.                                                             *)

\* No piece is promised twice: what the hash offers, what was sold directly
\* and what orders have placed or pre-locked is within the stock there was,
\* unless one of four named steps has told the hash a stock that is not there.
NoPieceTwice ==
    causes \subseteq {"lapsed"} =>
        Left + Sold + Ordered(out \cup InState({"placed"})) <= InitialStock

\* As long as the hash does not expire, it and the table tell the same stock:
\* they differ by the sales still to be written back and by the sagas that
\* have taken pieces out of one and not of the other.
HashTellsTable ==
    kept /\ causes = {} =>
        hash.available + hash.used - written + Ordered(out)
            = stock + Ordered(InState(Holding))

\* A write-back finds too little stock in the table only because of a saga
\* that has taken stock and not pre-locked it, or because another write-back
\* has subtracted the same sales.
RefusalHasCause ==
    kept /\ causes = {} =>
        \A c \in Calls :
            sync[c].pc = "update" /\ stock < sync[c].used - sync[c].syncUsed =>
                \/ InState(Holding) \ out # {}
                \/ written > sync[c].syncUsed

\* Sagas and write-backs change hash and table in opposite order; after each
\* step both can be told from each other, and a write-back is refused for that
\* difference only.
HashAndTableAgree == HashTellsTable /\ RefusalHasCause
=============================================================================
