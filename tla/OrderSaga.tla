----------------------------- MODULE OrderSaga -----------------------------
(***************************************************************************)
(* Placing an order: the DTM saga that AddOrder submits, its two branches  *)
(*     decr    DecrStock       compensated by  decrRevert    DecrStockRevert      *)
(*     create  CreateOrderDTM  compensated by  createRevert  CreateOrderDTMRevert *)
(* and what they touch: the product table, the orders table, the barrier   *)
(* rows, the Redis stock ledger (PreLock) and the OrderCreated event.      *)
(*                                                                         *)
(* DTM is external.  It calls an operation again until it has an answer,   *)
(* and a call may arrive late or twice: any operation it has ever started  *)
(* to call may run at any time, any number of times.  Handlers that are a  *)
(* single database transaction are one action; CreateOrderDTM and its      *)
(* revert interleave with everything between their Redis calls and are     *)
(* run step by step by workers, the goroutines of the order service.       *)
(***************************************************************************)
EXTENDS PreLock

CONSTANTS
    Workers,     \* handler goroutines of the order service
    NoGid,       \* the gid of an idle worker
    Rejected,    \* sagas whose address check refuses them, on every call
    Slow,        \* sagas that DTM rolls back when they take too long
    Loads,       \* <<p, n>>: a stock n that a load may write into the hash of p
    Browsed,     \* products whose cached row others fill and Redis expires
    Delisted,    \* products that are taken off sale, and put back
    MaxChanges,  \* bound: loads of hashes, expiries of hashes, keys and
                 \* rows, products taken off sale
    MaxFaults    \* bound: failed Redis, database and broker calls, crashes

ASSUME SagaAssumption ==
    /\ NoGid \notin Gids
    /\ Rejected \subseteq Gids
    /\ Slow \subseteq Gids
    /\ \A l \in Loads : l[1] \in Products /\ l[2] \in 0 .. InitStock[l[1]]
    /\ Browsed \subseteq Products
    /\ Delisted \subseteq Products
    /\ MaxChanges \in Nat
    /\ MaxFaults \in Nat

VARIABLES
    saga,      \* saga[g]: status of the global transaction at DTM
    sent,      \* sent[g]: operations DTM has started to call
    acked,     \* acked[g]: operations whose success reached DTM
    barrier,   \* barrier[g][op]: the barrier row of an operation
    stock,     \* column product.stock
    row,       \* row[p]: stock in the cached product row, NoRow if uncached
    onSale,    \* onSale[p]: column product.status is 1
    orders,    \* orders[g]: number of order rows with this gid
    live,      \* live[g]: an order row with this gid has a status other than 0
    published, \* published[g]: whether OrderCreated was handed to RabbitMQ,
               \* or only tried to be ("lost")
    worker,    \* worker[w]: what a handler goroutine is doing
    changes,   \* changes so far
    faults     \* faults so far

sagaVars == <<saga, sent, acked>>
dbVars   == <<barrier, stock, orders, live>>
vars     == <<ledgerVars, sagaVars, dbVars, row, onSale, published, worker, changes, faults>>

NoRow  == -1
Ops    == {"decr", "decrRevert", "create", "createRevert"}
\* A barrier row is written by the operation itself when its business
\* commits ("done"), or by a compensation that found nothing to compensate
\* ("void": the row of the action and its own).
BarrierRows == {"absent", "done", "void"}

Idle == [pc |-> "idle", gid |-> NoGid, todo |-> {}, locked |-> {}]
\* checked  prechecks passed, transaction not begun
\* prelock  in the transaction of CreateOrderDTM, pre-locking todo
\* unlock   in the transaction, reverting the pre-locks in todo
\* undo     after the rollback, reverting every item in todo
\* publish  success, about to publish and answer
\* revert   in the transaction of CreateOrderDTMRevert, reverting todo
InTx == {"prelock", "unlock", "revert"}

WorkerStates ==
    [pc : InTx \cup {"idle", "checked", "undo", "publish"},
     gid : Gids \cup {NoGid}, todo : SUBSET Products, locked : SUBSET Products]

SagaTypeOK ==
    /\ saga \in [Gids -> {"none", "submitted", "aborting", "succeed", "failed"}]
    /\ sent \in [Gids -> SUBSET Ops]
    /\ acked \in [Gids -> SUBSET Ops]
    /\ barrier \in [Gids -> [Ops -> BarrierRows]]
    /\ stock \in [Products -> Nat]
    /\ row \in [Products -> Int]
    /\ onSale \in [Products -> BOOLEAN]
    /\ orders \in [Gids -> Nat]
    /\ live \in [Gids -> BOOLEAN]
    /\ published \in [Gids -> {"no", "lost", "yes"}]
    /\ worker \in [Workers -> WorkerStates]
    /\ \A w \in Workers : worker[w].pc # "idle" => worker[w].gid \in Gids
    /\ changes \in 0 .. MaxChanges
    /\ faults \in 0 .. MaxFaults

TypeOK == LedgerTypeOK /\ SagaTypeOK

Init ==
    /\ LedgerInit
    /\ saga = [g \in Gids |-> "none"]
    /\ sent = [g \in Gids |-> {}]
    /\ acked = [g \in Gids |-> {}]
    /\ barrier = [g \in Gids |-> [op \in Ops |-> "absent"]]
    /\ stock = InitStock
    /\ row = [p \in Products |-> NoRow]
    /\ onSale = [p \in Products |-> TRUE]
    /\ orders = [g \in Gids |-> 0]
    /\ live = [g \in Gids |-> FALSE]
    /\ published = [g \in Gids |-> "no"]
    /\ worker = [w \in Workers |-> Idle]
    /\ changes = 0
    /\ faults = 0

Fault == faults < MaxFaults /\ faults' = faults + 1
Change == changes < MaxChanges /\ changes' = changes + 1

-----------------------------------------------------------------------------
(* DTM, the coordinator (external).                                        *)

\* buildSagaTransaction and Submit: branches run in the order added.
Submit(g) ==
    /\ saga[g] = "none"
    /\ saga' = [saga EXCEPT ![g] = "submitted"]
    /\ UNCHANGED <<sent, acked, dbVars, ledgerVars, row, onSale, published, worker, changes, faults>>

\* Whether DTM calls op next: actions in order, each after the previous one
\* answered; compensations in reverse order, of the branches it started.
Due(g, op) ==
    \/ op = "decr" /\ saga[g] = "submitted"
    \/ op = "create" /\ saga[g] = "submitted" /\ "decr" \in acked[g]
    \/ op = "createRevert" /\ saga[g] = "aborting" /\ "create" \in sent[g]
    \/ /\ op = "decrRevert" /\ saga[g] = "aborting" /\ "decr" \in sent[g]
       /\ "create" \in sent[g] => "createRevert" \in acked[g]

Call(g, op) ==
    /\ Due(g, op)
    /\ op \notin sent[g]
    /\ sent' = [sent EXCEPT ![g] = @ \cup {op}]
    /\ UNCHANGED <<saga, acked, dbVars, ledgerVars, row, onSale, published, worker, changes, faults>>

\* A saga that is not slow is rolled back only when a branch answers
\* Aborted, which no handler does: see DecrStock and CreateStart.
Timeout(g) ==
    /\ g \in Slow
    /\ saga[g] = "submitted"
    /\ saga' = [saga EXCEPT ![g] = "aborting"]
    /\ UNCHANGED <<sent, acked, dbVars, ledgerVars, row, onSale, published, worker, changes, faults>>

Finish(g) ==
    /\ \/ /\ saga[g] = "submitted"
          /\ {"decr", "create"} \subseteq acked[g]
          /\ saga' = [saga EXCEPT ![g] = "succeed"]
       \/ /\ saga[g] = "aborting"
          /\ "decr" \in sent[g] => "decrRevert" \in acked[g]
          /\ saga' = [saga EXCEPT ![g] = "failed"]
    /\ UNCHANGED <<sent, acked, dbVars, ledgerVars, row, onSale, published, worker, changes, faults>>

\* The answer "success" of op: DTM gets it (if it still waits for it) or not.
Answer(g, op, delivered) ==
    IF delivered
      THEN Due(g, op) /\ acked' = [acked EXCEPT ![g] = @ \cup {op}]
      ELSE UNCHANGED acked

-----------------------------------------------------------------------------
(* The DTM barrier (external): CallWithDB begins a transaction and inserts  *)
(* the row of the operation, a compensation first that of its action.      *)

\* Mutant: the business runs although the row was there.
FirstRunUnchecked(g, op) == TRUE

\* An action runs its business only if its row was absent.
FirstRun(g, op) == barrier[g][op] = "absent"

\* A compensation runs its business only after the action committed,
Undoes(g, act, comp) == barrier[g][comp] = "absent" /\ barrier[g][act] = "done"

\* Mutant: an action that never ran is an error, not an empty compensation.
UndoesNothingRefused(g, act, comp) == FALSE

\* and rules the action out for good if it never did.
UndoesNothing(g, act, comp) ==
    barrier[g][comp] = "absent" /\ barrier[g][act] = "absent"

RuleOut(g, act, comp) ==
    barrier' = [barrier EXCEPT ![g][act] = "void", ![g][comp] = "void"]

-----------------------------------------------------------------------------
(* The product service: one transaction per call, begun by the barrier.    *)

\* TxUpdateStock: UPDATE ... WHERE status = 1, for every item,
Sellable(g) == \A p \in Items(g) : onSale[p]

\* AND stock + delta >= 0, where it takes stock out.
Covered(g) == \A p \in Products : stock[p] >= Qty[g][p]

\* A call with a barrier row in place succeeds without doing anything: it
\* repeats an earlier call, or arrives after its own compensation.  When
\* stock is short or a product off sale TxUpdateStock returns a plain error,
\* not Aborted: the transaction rolls back and DTM keeps calling.
DecrStock(g, delivered) ==
    /\ "decr" \in sent[g]
    /\ \/ /\ FirstRun(g, "decr")
          /\ Sellable(g) /\ Covered(g)
          /\ stock' = [p \in Products |-> stock[p] - Qty[g][p]]
          /\ barrier' = [barrier EXCEPT ![g]["decr"] = "done"]
       \/ /\ barrier[g]["decr"] # "absent"
          /\ UNCHANGED <<stock, barrier>>
    /\ Answer(g, "decr", delivered)
    /\ UNCHANGED <<saga, sent, orders, live, ledgerVars, row, onSale, published, worker,
                   changes, faults>>

\* The same statement, and the same plain error, for the pieces that go back.
DecrStockRevert(g, delivered) ==
    /\ "decrRevert" \in sent[g]
    /\ \/ /\ Undoes(g, "decr", "decrRevert")
          /\ Sellable(g)
          /\ stock' = [p \in Products |-> stock[p] + Qty[g][p]]
          /\ barrier' = [barrier EXCEPT ![g]["decrRevert"] = "done"]
       \/ /\ UndoesNothing(g, "decr", "decrRevert")
          /\ RuleOut(g, "decr", "decrRevert")
          /\ UNCHANGED stock
       \/ /\ barrier[g]["decrRevert"] # "absent"
          /\ UNCHANGED <<stock, barrier>>
    /\ Answer(g, "decrRevert", delivered)
    /\ UNCHANGED <<saga, sent, orders, live, ledgerVars, row, onSale, published, worker,
                   changes, faults>>

-----------------------------------------------------------------------------
(* CreateOrderDTM, step by step.                                           *)

\* The stock that ProductRpc.Product returns: the cached product row, which
\* no stock update invalidates.
StockRead(p) == IF row[p] = NoRow THEN stock[p] ELSE row[p]

\* The prechecks, before any transaction: address and stock.  A refusal is
\* an error other than Aborted.
CreateStart(w, g) ==
    /\ "create" \in sent[g]
    /\ worker[w].pc = "idle"
    /\ row' = [p \in Products |->
                 IF p \in Items(g) THEN StockRead(p) ELSE row[p]]
    /\ IF g \notin Rejected /\ \A p \in Items(g) : StockRead(p) >= Qty[g][p]
         THEN worker' = [worker EXCEPT ![w] = [Idle EXCEPT !.pc = "checked",
                                                           !.gid = g]]
         ELSE UNCHANGED worker
    /\ UNCHANGED <<sagaVars, dbVars, ledgerVars, onSale, published, changes, faults>>

\* A transaction that has inserted barrier rows of g's order branch and has
\* not ended: any other one blocks on its insert of the same row.
Locked(g) == \E v \in Workers : worker[v].pc \in InTx /\ worker[v].gid = g

\* Mutant: a repeated call answers at once, without publishing.
CreateBeginAnswering(w) ==
    LET g == worker[w].gid IN
    /\ worker[w].pc = "checked"
    /\ ~Locked(g)
    /\ IF FirstRun(g, "create")
         THEN /\ worker' = [worker EXCEPT ![w].pc = "prelock", ![w].todo = Items(g)]
              /\ UNCHANGED acked
         ELSE worker' = [worker EXCEPT ![w] = Idle] /\ Answer(g, "create", TRUE)
    /\ UNCHANGED <<saga, sent, dbVars, ledgerVars, row, onSale, published, changes, faults>>

\* CallWithDB: insert the barrier row; if it was there, skip the business
\* and go on as after a success.
CreateBegin(w) ==
    LET g == worker[w].gid IN
    /\ worker[w].pc = "checked"
    /\ ~Locked(g)
    /\ worker' = [worker EXCEPT ![w] =
                    IF FirstRun(g, "create")
                      THEN [@ EXCEPT !.pc = "prelock", !.todo = Items(g)]
                      ELSE [@ EXCEPT !.pc = "publish"]]
    /\ UNCHANGED <<sagaVars, dbVars, ledgerVars, row, onSale, published, changes, faults>>

\* One preLockStockByGID.  A refusal, or a failed call (whether or not the
\* script ran), makes the handler revert the items it has locked.
CreatePreLock(w) ==
    LET g == worker[w].gid IN
    /\ worker[w].pc = "prelock"
    /\ \E p \in worker[w].todo :
          \/ /\ PreLockAccepts(g, p)
             /\ RunPreLock(g, p)
             /\ worker' = [worker EXCEPT ![w].todo = @ \ {p},
                                         ![w].locked = @ \cup {p}]
             /\ UNCHANGED faults
          \/ /\ ~PreLockAccepts(g, p)
             /\ worker' = [worker EXCEPT ![w].pc = "unlock",
                                         ![w].todo = worker[w].locked]
             /\ UNCHANGED <<ledgerVars, faults>>
          \/ /\ Fault
             /\ PreLock(g, p) \/ UNCHANGED ledgerVars
             /\ worker' = [worker EXCEPT ![w].pc = "unlock",
                                         ![w].todo = worker[w].locked]
    /\ UNCHANGED <<sagaVars, dbVars, row, onSale, published, changes>>

\* Mutant: the order row is not in the transaction of the barrier row.
WriteOrderElsewhere(g) ==
    /\ orders' = [orders EXCEPT ![g] = @ + 1]
    /\ live' = [live EXCEPT ![g] = TRUE]
    /\ UNCHANGED <<stock, barrier>>

\* What the transaction writes: shipping, items, order and barrier row.
WriteOrder(g) ==
    /\ orders' = [orders EXCEPT ![g] = @ + 1]
    /\ live' = [live EXCEPT ![g] = TRUE]
    /\ barrier' = [barrier EXCEPT ![g]["create"] = "done"]
    /\ UNCHANGED stock

\* The inserts and the commit: all of the rows or none.  A commit that
\* reports an error may have happened.
CreateCommit(w) ==
    LET g == worker[w].gid IN
    /\ worker[w].pc = "prelock"
    /\ worker[w].todo = {}
    /\ \/ /\ WriteOrder(g)
          /\ worker' = [worker EXCEPT ![w].pc = "publish"]
          /\ UNCHANGED faults
       \/ /\ Fault \* an insert fails
          /\ worker' = [worker EXCEPT ![w].pc = "unlock",
                                      ![w].todo = worker[w].locked]
          /\ UNCHANGED dbVars
       \/ /\ Fault \* the commit fails, or its answer is lost
          /\ WriteOrder(g) \/ UNCHANGED dbVars
          /\ worker' = [worker EXCEPT ![w].pc = "undo", ![w].todo = Items(g)]
    /\ UNCHANGED <<sagaVars, ledgerVars, row, onSale, published, changes>>

\* revertPreLockStockByGID where the caller ignores its error.
RevertIgnoringErrors(g, p) ==
    \/ /\ RunRevert(g, p)
       /\ UNCHANGED faults
    \/ /\ Fault
       /\ UNCHANGED ledgerVars

\* revertPreLocks, inside the failing transaction, for the items locked by
\* this call; then the transaction rolls back, which frees the barrier row.
CreateUnlock(w) ==
    LET g == worker[w].gid IN
    /\ worker[w].pc = "unlock"
    /\ \/ \E p \in worker[w].todo :
             /\ RevertIgnoringErrors(g, p)
             /\ worker' = [worker EXCEPT ![w].todo = @ \ {p}]
       \/ /\ worker[w].todo = {}
          /\ worker' = [worker EXCEPT ![w].pc = "undo", ![w].todo = Items(g)]
          /\ UNCHANGED <<ledgerVars, faults>>
    /\ UNCHANGED <<sagaVars, dbVars, row, onSale, published, changes>>

\* The loop after a failed CallWithDB: it reverts every item of the
\* request, locked or not, outside the transaction; then an error answer.
CreateUndo(w) ==
    LET g == worker[w].gid IN
    /\ worker[w].pc = "undo"
    /\ \/ \E p \in worker[w].todo :
             /\ RevertIgnoringErrors(g, p)
             /\ worker' = [worker EXCEPT ![w].todo = @ \ {p}]
       \/ /\ worker[w].todo = {}
          /\ worker' = [worker EXCEPT ![w] = Idle]
          /\ UNCHANGED <<ledgerVars, faults>>
    /\ UNCHANGED <<sagaVars, dbVars, row, onSale, published, changes>>

\* Publish OrderCreated, ignoring the error, and answer success.
CreatePublish(w, delivered) ==
    LET g == worker[w].gid IN
    /\ worker[w].pc = "publish"
    /\ \/ /\ published' = [published EXCEPT ![g] = "yes"]
          /\ UNCHANGED faults
       \/ /\ Fault
          /\ published' = [published EXCEPT ![g] = IF @ = "no" THEN "lost" ELSE @]
    /\ worker' = [worker EXCEPT ![w] = Idle]
    /\ Answer(g, "create", delivered)
    /\ UNCHANGED <<saga, sent, dbVars, ledgerVars, row, onSale, changes>>

-----------------------------------------------------------------------------
(* CreateOrderDTMRevert.                                                   *)

\* The barrier inserts the row of the action first: if it was absent there
\* is nothing to compensate and the business, with its revert of the Redis
\* pre-locks, is skipped.  Otherwise the order row exists.
RevertBegin(w, g, delivered) ==
    /\ "createRevert" \in sent[g]
    /\ worker[w].pc = "idle"
    /\ ~Locked(g)
    /\ \/ /\ Undoes(g, "create", "createRevert")
          /\ ~delivered
          /\ worker' = [worker EXCEPT ![w] = [Idle EXCEPT !.pc = "revert",
                                              !.gid = g, !.todo = Items(g)]]
          /\ UNCHANGED <<barrier, acked>>
       \/ /\ UndoesNothing(g, "create", "createRevert")
          /\ RuleOut(g, "create", "createRevert")
          /\ Answer(g, "createRevert", delivered)
          /\ UNCHANGED worker
       \/ /\ barrier[g]["createRevert"] # "absent"
          /\ Answer(g, "createRevert", delivered)
          /\ UNCHANGED <<barrier, worker>>
    /\ UNCHANGED <<saga, sent, stock, orders, live, ledgerVars, row, onSale, published, changes, faults>>

\* One revertPreLockStockByGID; a failed call fails the transaction.
RevertItem(w) ==
    LET g == worker[w].gid IN
    /\ worker[w].pc = "revert"
    /\ \E p \in worker[w].todo :
          \/ /\ RunRevert(g, p)
             /\ worker' = [worker EXCEPT ![w].todo = @ \ {p}]
             /\ UNCHANGED faults
          \/ /\ Fault
             /\ Revert(g, p) \/ UNCHANGED ledgerVars
             /\ worker' = [worker EXCEPT ![w] = Idle]
    /\ UNCHANGED <<sagaVars, dbVars, row, onSale, published, changes>>

\* Mutant: the status is left as it is.
CancelOrderNot(g) ==
    /\ barrier' = [barrier EXCEPT ![g]["createRevert"] = "done"]
    /\ UNCHANGED live

\* The order row gets status 0, whatever its status was.
CancelOrder(g) ==
    /\ live' = [live EXCEPT ![g] = FALSE]
    /\ barrier' = [barrier EXCEPT ![g]["createRevert"] = "done"]

RevertCommit(w, delivered) ==
    LET g == worker[w].gid IN
    /\ worker[w].pc = "revert"
    /\ worker[w].todo = {}
    /\ worker' = [worker EXCEPT ![w] = Idle]
    /\ \/ /\ CancelOrder(g)
          /\ Answer(g, "createRevert", delivered)
          /\ UNCHANGED faults
       \/ /\ Fault
          /\ ~delivered
          /\ UNCHANGED <<live, barrier, acked>>
    /\ UNCHANGED <<saga, sent, stock, orders, ledgerVars, row, onSale, published, changes>>

-----------------------------------------------------------------------------
(* The environment of the handlers, and the specification.                 *)

\* A handler dies: its transaction rolls back, its Redis calls stay.
Crash(w) ==
    /\ worker[w].pc # "idle"
    /\ Fault
    /\ worker' = [worker EXCEPT ![w] = Idle]
    /\ UNCHANGED <<sagaVars, dbVars, ledgerVars, row, onSale, published, changes>>

\* A key reaches its time to live.
Lapse(g, p) ==
    /\ ExpireKey(g, p)
    /\ Change
    /\ UNCHANGED <<sagaVars, dbVars, row, onSale, published, worker, faults>>

\* The product service writes a stock that the row had when it was read, any
\* time before; the hash expires.
Load(p) ==
    /\ \/ \E n \in 0 .. InitStock[p] : <<p, n>> \in Loads /\ LoadStock(p, n)
       \/ loaded[p] /\ ExpireHash(p)
    /\ Change
    /\ UNCHANGED <<sagaVars, dbVars, row, onSale, published, worker, faults>>

\* Somebody takes the product off sale or puts it back: the column is only
\* read in src.
ChangeSale(p) ==
    /\ p \in Delisted
    /\ onSale' = [onSale EXCEPT ![p] = ~@]
    /\ IF onSale[p] THEN Change ELSE UNCHANGED changes
    /\ UNCHANGED <<sagaVars, dbVars, ledgerVars, row, published, worker, faults>>

\* The product row is read by a shopper, or its cache entry expires.
CacheRow(p) ==
    /\ p \in Browsed
    /\ IF row[p] = NoRow
         THEN row' = [row EXCEPT ![p] = stock[p]] /\ UNCHANGED changes
         ELSE row' = [row EXCEPT ![p] = NoRow] /\ Change
    /\ UNCHANGED <<sagaVars, dbVars, ledgerVars, onSale, published, worker, faults>>

Coordinator(g) ==
    \/ Submit(g)
    \/ \E op \in Ops : Call(g, op)
    \/ Timeout(g)
    \/ Finish(g)

Handler(g, delivered) ==
    \/ DecrStock(g, delivered)
    \/ DecrStockRevert(g, delivered)
    \/ \E w \in Workers : RevertBegin(w, g, delivered)

Worker(w, delivered) ==
    \/ CreateBegin(w)
    \/ CreatePreLock(w)
    \/ CreateCommit(w)
    \/ CreateUnlock(w)
    \/ CreateUndo(w)
    \/ CreatePublish(w, delivered)
    \/ RevertItem(w)
    \/ RevertCommit(w, delivered)
    \/ Crash(w)

Next ==
    \/ \E g \in Gids : Coordinator(g)
    \/ \E g \in Gids, w \in Workers : CreateStart(w, g)
    \/ \E g \in Gids, delivered \in BOOLEAN : Handler(g, delivered)
    \/ \E w \in Workers, delivered \in BOOLEAN : Worker(w, delivered)
    \/ \E g \in Gids : \E p \in Items(g) : Lapse(g, p)
    \/ \E p \in Products : Load(p) \/ CacheRow(p) \/ ChangeSale(p)

Spec == Init /\ [][Next]_vars

\* DTM never stops calling an operation that is due and has no answer, so
\* that of infinitely many answers one is delivered; a handler goroutine
\* runs to its end; a transaction that waits for a barrier row gets its turn
\* among those that wait with it.  The calls that are still on their way
\* when DTM stops calling are finitely many.
Fairness ==
    /\ <>[][\A g \in Gids, w \in Workers :
                CreateStart(w, g) => Due(g, "create")]_vars
    /\ \A g \in Gids :
          /\ WF_vars(\E op \in Ops : Call(g, op))
          /\ WF_vars(Finish(g))
          /\ WF_vars(DecrStock(g, TRUE))
          /\ WF_vars(DecrStockRevert(g, TRUE))
          /\ SF_vars(\E w \in Workers, d \in BOOLEAN : RevertBegin(w, g, d))
          /\ SF_vars(/\ Due(g, "create") /\ "create" \notin acked[g]
                     /\ \E w \in Workers : CreateStart(w, g))
    /\ \A w \in Workers :
          /\ WF_vars(\E delivered \in BOOLEAN : Worker(w, delivered))
          /\ SF_vars(CreateBegin(w))
          /\ SF_vars(CreatePublish(w, TRUE))
          /\ SF_vars(RevertCommit(w, TRUE))

FairSpec == Spec /\ Fairness

-----------------------------------------------------------------------------
(* Properties.                                                             *)

Taken(g) == barrier[g]["decr"] = "done" /\ barrier[g]["decrRevert"] = "absent"

\* The saga is atomic across the two services: a succeeded one has its
\* stock taken and one live order, a failed one has neither, and this stays
\* so although calls of both may still arrive.
SagaAtomic ==
    \A g \in Gids :
        /\ saga[g] = "succeed" => Taken(g) /\ orders[g] = 1 /\ live[g]
        /\ saga[g] = "failed" => ~Taken(g) /\ ~live[g]

\* No retry, duplicate or late call of CreateOrderDTM inserts a second
\* order for a saga, and no live order is without its stock.
OrdersBacked ==
    \A g \in Gids : orders[g] <= 1 /\ (live[g] => Taken(g))

\* How far a saga got, seen through the barrier rows.
Progress(g) ==
    LET b == barrier[g] IN
    CASE b["decr"] = "absent" -> "new"
      [] b["decr"] = "void" -> "void"
      [] b["decr"] = "done" /\ b["decrRevert"] # "absent" -> "released"
      [] b["decr"] = "done" /\ b["decrRevert"] = "absent" ->
            IF b["createRevert"] # "absent" THEN "withdrawn"
            ELSE IF b["create"] = "done" THEN "placed" ELSE "reserved"

\* The saga implements Reservation: with the barrier, calls that are lost,
\* repeated or late move stock and orders as if each ran once, in order.
Res == INSTANCE Reservation WITH res <- [g \in Gids |-> Progress(g)]
ImplementsReservation == Res!ResSpec

\* Every piece is in product.stock or taken by one saga.
StockConserved == Res!StockConserved

\* An OrderCreated event names an order that was inserted, as long as the
\* saga is not rolled back: after that, a late call that the barrier turns
\* away publishes for an order that never was.
EventHasOrder ==
    \A g \in Gids :
        saga[g] \in {"submitted", "succeed"} /\ published[g] = "yes" => orders[g] > 0

\* An order whose saga succeeded was announced, or the broker refused the
\* announcement: a crash between commit and publish is made up for by the
\* retry, which skips the business and publishes again.
SucceededPublished ==
    \A g \in Gids : saga[g] = "succeed" => published[g] # "no"

\* The announcement on the broker and the order in the database go together.
OrderAnnounced == EventHasOrder /\ SucceededPublished

\* A saga that failed keeps no pre-lock, unless the barrier found no order to
\* cancel and skipped the compensation: then one is left behind by an undo
\* loop that a fault cut short, or is still to be undone by a handler.
PreLocksReturned ==
    \A g \in Gids :
        saga[g] = "failed" /\ (\E p \in Items(g) : cell[g][p] \in Held) =>
            /\ barrier[g]["create"] = "void"
            /\ faults > 0 \/ \E w \in Workers : worker[w].gid = g

\* A rollback that DTM has begun ends, whatever failed before it: both
\* compensations are answered in the end, unless time and again a product of
\* the order is off sale, where its stock cannot be put back.
RollbackEnds ==
    \A g \in Gids : saga[g] = "aborting" ~> saga[g] = "failed" \/ ~Sellable(g)

\* What an order asks for is not there for the step that comes next: in the
\* table for DecrStock, or, once that has taken it there, a second time in
\* the product row, which CreateOrderDTM checks before it looks whether the
\* order is there already, or in the hash.
Short(g) ==
    \E p \in Items(g) :
        \/ barrier[g]["decr"] = "absent" /\ (stock[p] < Qty[g][p] \/ ~onSale[p])
        \/ barrier[g]["decr"] = "done" /\ StockRead(p) < Qty[g][p]
        \/ /\ barrier[g]["create"] = "absent"
           /\ loaded[p] /\ available[p] < Qty[g][p]

\* The undo loop after a refused pre-lock has left a revert key, which
\* refuses the retries until it expires.
Refused(g) == \E p \in Items(g) : cell[g][p] \in Reverted

\* An order that was submitted, and that no revert key keeps out, is placed,
\* unless a call to Redis, the database or the broker fails, DTM gives it up,
\* or a step of it finds the stock short.  Late and repeated calls, lost
\* answers, expiring rows, keys and hashes and a hash that is not there do not
\* stop it, and none of them lets the undo loop leave its revert keys.
SagaCompletes ==
    \A g \in Gids :
        saga[g] = "submitted" /\ ~Refused(g) ~>
            saga[g] \in {"succeed", "aborting"} \/ faults > 0 \/ Short(g)

\* README.md, "order creation": the DTM saga guarantees eventual
\* consistency.  Every submitted saga ends, one way or the other.
EventuallyConsistent ==
    \A g \in Gids : saga[g] = "submitted" ~> saga[g] \in {"succeed", "failed"}
=============================================================================
