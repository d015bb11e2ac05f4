----------------------------- MODULE StockSync -----------------------------
(***************************************************************************)
(* Buying a product directly: CheckAndUpdateStock takes pieces out of the  *)
(* Redis hash of the product, loads the hash from the database when it is  *)
(* missing, and has the sold pieces written back to the product table      *)
(* later (asyncSyncStockToDB).  One product; products do not interact.     *)
(*                                                                         *)
(* The hash is loaded by any call that finds it missing and by the warm-up *)
(* of a starting product service.  Redis scripts, single Redis commands    *)
(* and single statements of the database are steps; everything interleaves *)
(* between them.                                                           *)
(***************************************************************************)
EXTENDS Integers, FiniteSets

CONSTANTS
    Requests,    \* request ids of purchases
    Calls,       \* calls of CheckAndUpdateStock
    RequestOf,   \* RequestOf[c]: the request id call c carries; clients repeat
    MaxNum,      \* largest number of pieces asked for
    Num,         \* Num[r]: pieces request r buys
    InitialStock, \* product.stock before the first sale
    MayMiss,     \* TRUE: the hash may be missing before the first sale
    MayLack,     \* TRUE: there may be no such product
    ContextEnds, \* TRUE: the context of a call may end its write-back
    MaxLapses,   \* bound: expiries of the hash
    MaxRestarts, \* bound: starts of the product service
    MaxFaults    \* bound: failed or unanswered Redis, queue and database calls

NoProduct == -1
Missing   == -1

ASSUME SyncAssumption ==
    /\ IsFiniteSet(Requests)
    /\ RequestOf \in [Calls -> Requests]
    /\ MaxNum \in Nat
    /\ Num \in [Requests -> 1 .. MaxNum]
    /\ InitialStock \in Nat
    /\ MayMiss \in BOOLEAN /\ MayLack \in BOOLEAN /\ ContextEnds \in BOOLEAN
    /\ MaxLapses \in Nat /\ MaxRestarts \in Nat /\ MaxFaults \in Nat

VARIABLES
    hash,      \* the hash product:stock:<id>
    processed, \* the set product:stock:<id>:processed
    stock,     \* column product.stock
    row,       \* stock in the cached product row, Missing if uncached
    call,      \* call[c]: where call c is, and the stock it read
    sync,      \* sync[c]: the goroutine that call c started to write back
    tasks,     \* calls that enqueued a task "sync_stock_to_db"
    warm,      \* the warm-up goroutine
    charged,   \* history: how often each request was charged
    kept,      \* history: the hash was there from the start until now
    budget     \* what is left of the bounds

redisVars == <<hash, processed, charged, kept>>
vars == <<redisVars, stock, row, call, sync, tasks, warm, budget>>

\* Fields of the hash; a missing field reads as Missing (available) or 0.
NoHash == [total |-> 0, available |-> Missing, used |-> 0, syncUsed |-> 0,
           invalid |-> FALSE]
HashOf(n) == [total |-> n, available |-> n, used |-> 0, syncUsed |-> 0,
              invalid |-> FALSE]
InvalidHash == [HashOf(0) EXCEPT !.invalid = TRUE]

\* new      not evaluated yet         write    row read, to be written to Redis
\* load     hash missing, row unread  retry    hash written, sleeping
\* ok, failed                         answered
Pending == {"new", "load", "write", "retry"}
\* read, update, cas: the next step of asyncSyncStockToDB
Running == {"read", "update", "cas"}

SyncTypeOK ==
    /\ hash \in [total : Nat, available : Nat \cup {Missing}, used : Nat,
                 syncUsed : Nat, invalid : BOOLEAN]
    /\ processed \in SUBSET Requests
    /\ stock \in Nat \cup {NoProduct}
    /\ row \in Nat \cup {Missing}
    /\ call \in [Calls -> [pc : Pending \cup {"ok", "failed"},
                           seen : Nat \cup {NoProduct}]]
    /\ sync \in [Calls -> [pc : Running \cup {"none", "done"},
                           used : Nat, syncUsed : Nat]]
    /\ tasks \in SUBSET Calls
    /\ warm \in [pc : {"off", "check", "write"}, seen : Nat]
    /\ charged \in [Requests -> Nat]
    /\ kept \in BOOLEAN
    /\ budget \in [lapses : Nat, restarts : Nat, faults : Nat]

Init ==
    /\ \/ hash = HashOf(InitialStock) /\ stock = InitialStock
       \/ MayMiss /\ hash = NoHash /\ stock = InitialStock
       \/ MayLack /\ hash = NoHash /\ stock = NoProduct
    /\ kept = (hash = HashOf(InitialStock))
    /\ processed = {}
    /\ row = Missing
    /\ call = [c \in Calls |-> [pc |-> "new", seen |-> 0]]
    /\ sync = [c \in Calls |-> [pc |-> "none", used |-> 0, syncUsed |-> 0]]
    /\ tasks = {}
    /\ warm = [pc |-> "off", seen |-> 0]
    /\ charged = [r \in Requests |-> 0]
    /\ budget = [lapses |-> MaxLapses, restarts |-> MaxRestarts, faults |-> MaxFaults]

Fault == budget.faults > 0 /\ budget' = [budget EXCEPT !.faults = @ - 1]

-----------------------------------------------------------------------------
(* luaCheckAndUpdateScript: the answer, and what it writes when it is 1.   *)

\* Mutant: the script forgets which requests it has charged.
SaleCodeForgetful(r) ==
    CASE hash.invalid -> -2
      [] hash.available = Missing -> -1
      [] hash.available < Num[r] -> 0
      [] OTHER -> 1

SaleCode(r) ==
    CASE hash.invalid -> -2
      [] ~hash.invalid /\ r \in processed -> 2
      [] ~hash.invalid /\ r \notin processed /\ hash.available = Missing -> -1
      [] ~hash.invalid /\ r \notin processed /\ hash.available # Missing ->
            IF hash.available < Num[r] THEN 0 ELSE 1

Sell(r) ==
    /\ hash' = [hash EXCEPT !.available = @ - Num[r], !.used = @ + Num[r]]
    /\ processed' = processed \cup {r}
    /\ charged' = [charged EXCEPT ![r] = @ + 1]
    /\ UNCHANGED kept

Goto(c, pc) == call' = [call EXCEPT ![c].pc = pc]
Spawn(c) == sync' = [sync EXCEPT ![c].pc = "read"]

-----------------------------------------------------------------------------
(* CheckAndUpdateStock.                                                    *)

\* Result 1: enqueue the write-back, or start it here if that fails.  The
\* process may stop in between, and the answer of Redis may be lost.
CheckSells(c) ==
    /\ call[c].pc = "new"
    /\ SaleCode(RequestOf[c]) = 1
    /\ Sell(RequestOf[c])
    /\ \/ Goto(c, "ok") /\ tasks' = tasks \cup {c} /\ UNCHANGED <<sync, budget>>
       \/ Goto(c, "ok") /\ Spawn(c) /\ Fault /\ UNCHANGED tasks
       \/ Goto(c, "failed") /\ Fault /\ UNCHANGED <<sync, tasks>>
    /\ UNCHANGED <<stock, row, warm>>

\* Results 2, 0 and -2.
CheckAnswers(c) ==
    /\ call[c].pc = "new"
    /\ \/ SaleCode(RequestOf[c]) = 2 /\ Goto(c, "ok")
       \/ SaleCode(RequestOf[c]) \in {0, -2} /\ Goto(c, "failed")
    /\ UNCHANGED <<redisVars, stock, row, sync, tasks, warm, budget>>

\* Result -1.
CheckMisses(c) ==
    /\ call[c].pc = "new"
    /\ SaleCode(RequestOf[c]) = -1
    /\ Goto(c, "load")
    /\ UNCHANGED <<redisVars, stock, row, sync, tasks, warm, budget>>

\* syncStockFromDBToRedis: FindOne, which answers from the cached row.
LoadRead(c) ==
    /\ call[c].pc = "load"
    /\ IF stock = NoProduct
         THEN /\ call' = [call EXCEPT ![c] = [pc |-> "write", seen |-> NoProduct]]
              /\ UNCHANGED row
         ELSE /\ row' = IF row = Missing THEN stock ELSE row
              /\ call' = [call EXCEPT ![c] = [pc |-> "write", seen |-> row']]
    /\ UNCHANGED <<redisVars, stock, sync, tasks, warm, budget>>

\* syncStockFromDBToRedis: HMSET, whatever the hash holds by now.
LoadWrite(c) ==
    /\ call[c].pc = "write"
    /\ IF call[c].seen = NoProduct
         THEN hash' = InvalidHash /\ Goto(c, "failed")
         ELSE hash' = HashOf(call[c].seen) /\ Goto(c, "retry")
    /\ UNCHANGED <<processed, charged, kept, stock, row, sync, tasks, warm, budget>>

\* retryCheckAndUpdateStock: anything but 1 is a failure, 2 included.
Retry(c) ==
    /\ call[c].pc = "retry"
    /\ IF SaleCode(RequestOf[c]) = 1
         THEN /\ Sell(RequestOf[c])
              /\ \/ Goto(c, "ok") /\ Spawn(c) /\ UNCHANGED budget
                 \/ Goto(c, "failed") /\ Fault /\ UNCHANGED sync
         ELSE /\ Goto(c, "failed")
              /\ UNCHANGED <<redisVars, sync, budget>>
    /\ UNCHANGED <<stock, row, tasks, warm>>

\* A Redis or database call of c fails, or the process of c stops.
CallFails(c) ==
    /\ call[c].pc \in Pending
    /\ Goto(c, "failed")
    /\ Fault
    /\ UNCHANGED <<redisVars, stock, row, sync, tasks, warm>>

-----------------------------------------------------------------------------
(* asyncSyncStockToDB, in a goroutine of call c.                           *)

Step(c, pc) == sync' = [sync EXCEPT ![c].pc = pc]

SyncRead(c) ==
    /\ sync[c].pc = "read"
    /\ sync' = [sync EXCEPT ![c] =
         [pc |-> IF hash.used > hash.syncUsed THEN "update" ELSE "done",
          used |-> hash.used, syncUsed |-> hash.syncUsed]]
    /\ UNCHANGED <<redisVars, stock, row, call, tasks, warm, budget>>

\* Mutant: an UPDATE that affected no row is not noticed.
SyncUpdateUnnoticed(c) ==
    /\ sync[c].pc = "update"
    /\ LET increment == sync[c].used - sync[c].syncUsed IN
         stock' = IF stock >= increment THEN stock - increment ELSE stock
    /\ Step(c, "cas")
    /\ UNCHANGED <<redisVars, row, call, tasks, warm, budget>>

\* The UPDATE and its commit; the cached row is left as it is.
SyncUpdate(c) ==
    /\ sync[c].pc = "update"
    /\ LET increment == sync[c].used - sync[c].syncUsed IN
         IF stock >= increment
           THEN stock' = stock - increment /\ Step(c, "cas")
           ELSE Step(c, "done") /\ UNCHANGED stock
    /\ UNCHANGED <<redisVars, row, call, tasks, warm, budget>>

SyncCas(c) ==
    /\ sync[c].pc = "cas"
    /\ IF hash.syncUsed = sync[c].syncUsed
         THEN hash' = [hash EXCEPT !.syncUsed = sync[c].used]
         ELSE UNCHANGED hash
    /\ Step(c, "done")
    /\ UNCHANGED <<processed, charged, kept, stock, row, call, tasks, warm, budget>>

\* The goroutine uses the context of the request, which ends with the call.
SyncStops(c) ==
    /\ ContextEnds
    /\ sync[c].pc \in Running
    /\ Step(c, "done")
    /\ UNCHANGED <<redisVars, stock, row, call, tasks, warm, budget>>

-----------------------------------------------------------------------------
(* Warm-up of a starting product service, and the caches.                  *)

WarmRead ==
    /\ warm.pc = "off" /\ budget.restarts > 0 /\ stock # NoProduct
    /\ warm' = [pc |-> "check", seen |-> stock]
    /\ budget' = [budget EXCEPT !.restarts = @ - 1]
    /\ UNCHANGED <<redisVars, stock, row, call, sync, tasks>>

WarmNeeded == hash.available = Missing

WarmCheck ==
    /\ warm.pc = "check"
    /\ warm' = [warm EXCEPT !.pc = IF WarmNeeded THEN "write" ELSE "off"]
    /\ UNCHANGED <<redisVars, stock, row, call, sync, tasks, budget>>

WarmWrite ==
    /\ warm.pc = "write"
    /\ hash' = HashOf(warm.seen)
    /\ warm' = [warm EXCEPT !.pc = "off"]
    /\ UNCHANGED <<processed, charged, kept, stock, row, call, sync, tasks, budget>>

HashLapses ==
    /\ budget.lapses > 0 /\ hash.available # Missing
    /\ hash' = NoHash
    /\ kept' = FALSE
    /\ budget' = [budget EXCEPT !.lapses = @ - 1]
    /\ UNCHANGED <<processed, charged, stock, row, call, sync, tasks, warm>>

RowLapses ==
    /\ row # Missing
    /\ row' = Missing
    /\ UNCHANGED <<redisVars, stock, call, sync, tasks, warm, budget>>

-----------------------------------------------------------------------------
Purchase(c) ==
    \/ CheckSells(c) \/ CheckAnswers(c) \/ CheckMisses(c)
    \/ LoadRead(c) \/ LoadWrite(c) \/ Retry(c)
    \/ CallFails(c)

WriteBack(c) == SyncRead(c) \/ SyncUpdate(c) \/ SyncCas(c) \/ SyncStops(c)

Next ==
    \/ \E c \in Calls : Purchase(c) \/ WriteBack(c)
    \/ WarmRead \/ WarmCheck \/ WarmWrite
    \/ HashLapses \/ RowLapses

Spec == Init /\ [][Next]_vars

-----------------------------------------------------------------------------
(* Properties.                                                             *)

\* The books of the hash balance, however often it is loaded over what it
\* held and whatever is written back meanwhile (luaCheckAndUpdateScript).
HashBalanced ==
    hash.available # Missing => hash.available + hash.used = hash.total

\* A request is charged at most once, over repeated calls, lost answers,
\* reloads and expiries of the hash; a call that answered success was charged.
ChargedOnce ==
    /\ \A r \in Requests : charged[r] <= 1
    /\ \A c \in Calls : call[c].pc = "ok" => charged[RequestOf[c]] = 1

\* What Redis counts as synchronised has left the product table, with any
\* number of goroutines writing back at once (luaCASSyncUsedScript), as long
\* as the hash does not expire.
SyncedLeftDb ==
    kept => hash.syncUsed + stock <= InitialStock /\ hash.syncUsed <= hash.used

\* The hash tells the truth about what was sold: its books balance, and what
\* it counts as written back has left the table.
HashTruthful == HashBalanced /\ SyncedLeftDb

\* As long as the hash does not expire, direct sales implement the abstract
\* reservation, with the pieces in the hash as the stock.
Product == "product"
Sale == INSTANCE Reservation WITH
    Gids <- Requests, Products <- {Product}, MaxItemQuantity <- MaxNum,
    Qty <- [r \in Requests |-> [p \in {Product} |-> Num[r]]],
    InitStock <- [p \in {Product} |-> InitialStock],
    stock <- [p \in {Product} |-> hash.available],
    res <- [r \in Requests |-> IF r \in processed THEN "reserved" ELSE "new"]
ImplementsSale ==
    /\ kept => Sale!ResInit
    /\ [][kept' => [Sale!ResNext]_(Sale!resVars)]_vars
\* No piece is sold twice: what was charged and what is left are the stock.
SoldWithinStock == kept => Sale!StockConserved
=============================================================================
