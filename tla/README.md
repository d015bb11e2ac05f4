# go_zero_shop: specifications, model checking and proofs

The repository is an online shop: go-zero RPC services (`apps/*/rpc`), an HTTP
gateway (`apps/app`), RabbitMQ consumers (`apps/*/rmq`), MySQL for the tables,
Redis for stock, marks and caches, Kafka for the flash sale, DTM for distributed
transactions. This directory holds TLA+ modules translated from that code, the
TLC configurations that check them, and theorems about them checked by TLAPS.
The modules follow the code and not its documents; where the two disagree,
section 6 says so.

Paths below are relative to the repository root. `PROJECT.json` maps each
definition to the lines it stands for.

1. Inventory
2. Modules and their correspondence to the code
3. Runs, bounds and what they show
4. Fairness
5. What is proved
6. Where the code and its documents differ
7. What is not modelled, and assumptions
8. Plan

## 1. Inventory

### Components

| component | state | operations | modelled in |
|---|---|---|---|
| order pre-lock ledger: Lua scripts of `createorderdtmlogic.go` | Redis hash `product:stock:<pid>` (total, available, pre_locked, used), keys `product:prelock:gid:<gid>:<pid>` and the same with `:confirmed`, `:reverted` | pre-lock, confirm, revert, load of the hash (over whatever is there), expiry of hash and keys | `PreLock`, `SharedStock` |
| order saga: `CreateOrderDTM`, `CreateOrderDTMRevert` (order), `DecrStock`, `DecrStockRevert` (product) | `product.stock`, `orders`, `orderitem`, barrier rows, cached product rows, the ledger | the four branches of the saga, each repeatable at any time | `OrderSaga` |
| `AddOrder` (gateway) | `idempotent:<request_id>`, `order:mapping:<request_id>` | claim, validate, submit, release, remember, answer | `OrderRequests` |
| DTM (external) | status of a global transaction, which branches answered | submit, call a branch, retry, time out, roll back | `OrderSaga` |
| direct sale: `CheckAndUpdateStock`, the warm-up of the product service | the same Redis hash with `used`/`sync_used`, the set `:processed`, `product.stock` | sell, load the hash, retry, write back, warm up | `StockSync`, `SharedStock` |
| order events: `apps/order/rmq/consumer/*` | RabbitMQ queues, idempotency marks, the item snapshot, the reconcile list | announce, delay, cancel, hand over the items, notify, redeliver | `OrderEvents` |
| order status: `UpdateOrderStatus`, `ordersModel.go` | `orders.status`, the cached row, `order_status_log` | find, update if unchanged, log, cancel | `OrderStatus` |
| payment: `apps/pay/*` | payment and refund rows, two cache keys per payment, a queue of provider events | create, callback, refund, consume an event | `Payment` |
| flash sale: `apps/seckill/*`, `pkg/bacher` | limiter, batcher channels, Kafka partitions and their offsets, consumer channels | admit, batch, push, dispatch, execute, stop, restart | `Seckill` |
| RabbitMQ client: `pkg/mq` | connection, pool of channels, the channel of close notices | get, return, consume, reconnect, check each minute, close | `ChannelPool` |
| user addresses: `apps/user` | rows, cached rows, versioned cached lists | add, edit, delete, make default, list | `Addresses` |
| cart: `apps/cart` | rows with a unique key that counts deleted ones | add, update, delete | `Cart` |
| product lists: `ProductList` | the table, a sorted set per category | page from either, fill the set in the background | `ProductPages` |
| collections, search, gateway handlers, reply, bloom filter, utilities, deployment | see `PROJECT.json`, "components" | | not modelled (section 7) |

### How the parts meet

* The gateway claims the request id and submits a saga to DTM. DTM calls
  `DecrStock` on the product service and then `CreateOrderDTM` on the order
  service. Both wrap their business in a DTM barrier: a transaction which first
  inserts a row for the operation, so that a repeated call does nothing and an
  action that comes after its own compensation is shut out.
* `CreateOrderDTM` talks to Redis from inside its database transaction and,
  when the transaction fails, from a loop after it that the barrier does not cover.
* The product service keeps a second path to the same Redis hash: `CheckAndUpdateStock`
  sells from it without a saga and writes back to `product.stock` from a background
  goroutine. The saga takes from the table first and from the hash later, the
  sale the other way round.
* `CreateOrderDTM` publishes `OrderCreated` after the commit. The order consumer
  stores a snapshot of the items; the delay consumer, told to cancel, turns the
  snapshot into one rollback event per item and a notice; the stock and the
  notification consumers are to act on those, and log them so far. Each consumer marks
  an event as handled in Redis under a key with a lifetime.
* All of them reach RabbitMQ through the pool of `pkg/mq`, except the payment
  consumer, which has a connection of its own.
* Payments, orders, addresses and products are read through row caches that other
  processes fill and evict.
* RPC services run as several replicas (`k8s`: product 2, order 2,
  gateway 3), so nothing is protected by a process-local lock unless it is in
  one process for good.

### Hard behaviour

* A call of DTM may be repeated, arrive late, overlap another call of the same
  branch on another replica, or succeed without its answer arriving.
* A handler may crash between any two calls to Redis, the database and the broker,
  and the calls before the crash are not undone.
* Redis and MySQL are changed by separate steps, so the two books can disagree,
  and keys of different lifetimes guard the same decision.
* A message may be delivered again after its consumer acted and before it
  acknowledged; several consumers share a queue; Kafka's offset is kept before
  the work is done.
* Handlers read a state, wait for something, and act on the stale answer:
  load of the hash, warm-up, write-back, snapshots, cached rows, whole rows that
  are written back, a pool that is replaced while it is used.

`PROJECT.json`, "hazards", lists each of these at its line with the properties
that watch it.

### What makes each part correct

* Ledger: from one load of a hash to the next its books balance whatever the order of
  the scripts; a confirmed or reverted pre-lock is not decided again while its key lives.
* Saga: it is atomic over two services and a database each; no duplicate order;
  no live order without stock; stock is neither lost nor made up; a rollback ends;
  a failed saga keeps no pre-lock; an order whose every step finds the stock is placed and announced.
* Request ids: one id, one order; everyone is told of the same.
* Direct sale: a request is charged at most once; what is written back was sold;
  no more is sold than there is. Together with sagas: no piece is promised twice,
  and hash and table tell the same stock.
* Events: each item of a cancelled order is handed over to be put back, at most once,
  and of no other order; nobody is told of a rollback that is not under way.
* Payments: refunds stay within the payment and follow a report that it was paid;
  a stale cache entry has a cause; the event of a payment arrives.
* Flash sale: what was answered with success stays in one place until
  it is tried, once for each delivery, or is lost for a reason one can name.
* Channel pool: a channel is in one hand; none is left open; a lost connection
  is replaced, none is opened after `Close`, and an old one stays open only after a fault.
* Records behind caches: one default address, current lists and rows, a cart that
  adds up, a status that keeps to its table, pages that show everything; each
  unless a named race or fault happened.

## 2. Modules and their correspondence to the code

```
StockUnits  <-  PreLock  <-  OrderSaga  --implements-->  Reservation
                   |             |------implements-->  PreLock (LedgerSpec)
                   |
                   |   StockSync  --implements (while the hash is kept)-->  Reservation
                   |      ^
                   |   SharedStock
                   |      ^
                   +-- MCSharedStock

Addresses, Cart, OrderStatus, ProductPages, OrderRequests  <-  MCRecords
OrderEvents      Payment      Seckill      ChannelPool
```
(`<-` is EXTENDS.) The `MC` modules give values to constants; two of them also
choose which part of a run to explore, so that one run answers for several small
modules: `MCSharedStock` (the scripts alone, or sagas and sales together) and
`MCRecords` (one of five). Eight modules hold the theorems: `StockUnitsProofs`,
`ReservationProofs`, `PreLockProofs`, `OrderSagaProofs` and `SeckillProofs` about the module
they are named for; `SharedStockProofs` about `StockSync`, `SharedStock` and their composition with
the ledger in `MCSharedStock`; `RabbitMQProofs` about `OrderEvents` and `ChannelPool`;
`RecordsProofs` about the five parts of `MCRecords` and about `Payment`.

### StockUnits

Quantities. `Qty[g][p]` is what saga `g` orders of product `p`. A sum over a set of
sagas, `Pieces(G, p)`, is the cardinality of a set of units, so that no recursion
is needed and the sums can be reasoned about.

### PreLock

The three Lua scripts; Redis runs each as one step, and so does the module.
The hash is `loaded`, `total`, `available`, `preLocked`, `used`. The three keys
of a saga and a product are one `cell`, which also remembers what Redis does not: on
what the decision was taken, and whether the hash that counted it is still there.

| cell | key in Redis | written by |
|---|---|---|
| `none` | none (not yet, or expired) | |
| `held`; `overwritten` | pre-lock; of a hash that is gone | the pre-lock script |
| `confirmed` | confirm | the confirm script on a held pre-lock |
| `overconfirmed` | confirm | the confirm script on an overwritten pre-lock or the caller's fallback quantity |
| `settled` | confirm, of a hash that is gone | |
| `released` | revert | the revert script on a held pre-lock |
| `overreleased` | revert | the revert script on an overwritten pre-lock |
| `refunded` | revert | the revert script on the fallback quantity |
| `closed` | revert, of a hash that is gone | |

`PreLockCode`, `ConfirmCode` and `RevertCode` are the numbers the scripts return;
the handlers branch on them. `ExpireKey` is the end of the 30 minutes that
a pre-lock key lives, or of the 24 hours of a decision; the hash keeps counting the pieces, and so does `lapsed`.
`LoadStock(p, n)` is the HMSET of the product service: it writes a stock `n` that was read some time ago over whatever the
hash holds by then, with `pre_locked` and `used` back at 0 and the keys as they are. It has no guard, since the
look for the field `available` is a step before it, and `n` is any stock the row may have had. `ExpireHash` is the end of the 7 days that such a hash lives.
After either, `NewBook` marks every cell as one of a hash that is gone.

### Reservation

The abstract promise that two different mechanisms keep. A reservation goes
`new -> reserved -> placed`, may be `withdrawn` and `released`, or is ruled out
(`void`); product stock plus what is reserved is constant. It knows no message,
key, transaction or retry.

### OrderSaga

* `Submit`, `Call`, `Timeout`, `Finish`, `Answer`: DTM. Any operation ever sent may run
  at any time, any number of times; only a delivered answer to a call that is due
  moves the saga.
* `FirstRun`, `Undoes`, `UndoesNothing`, `RuleOut`: the barrier. Both rows of an
  operation are one function `barrier[g][op]`.
* `DecrStock`, `DecrStockRevert`: one database transaction each, so one action
  each. `Sellable` (`status = 1`) and `Covered` (`stock + delta >= 0`) are the condition of the UPDATE; where it
  fails the answer is a plain error and DTM calls again, also for a compensation.
* `Load`, `Lapse`: the hash is loaded, overwritten or expires, a key expires. `ChangeSale`: somebody takes a product off sale
  and puts it back; the column is only read in the repository.
* `CreateOrderDTM` is cut at every call that others can see: `CreateStart` (the
  prechecks against the cached row and the address), `CreateBegin` (barrier), `CreatePreLock` per item,
  commit or rollback, the undo loop per item, publish and answer. A worker is a handler
  goroutine: `pc`, the saga, the items left and the items pre-locked so far.
* `CreateOrderDTMRevert`: `RevertBegin`, one revert script per item, commit.
* `row`, `CacheRow`: the cached product row that the prechecks read and other
  requests fill.
* Failed calls of Redis, the database and the broker, lost answers of a commit, and
  crashes are actions that use up `faults`.

Items are handled in any order although the code walks a list: every order
of the code is among those explored. What a load writes is taken from `Loads`, a
constant; who comes to write it, and when, is the subject of `StockSync` and `SharedStock`.

### OrderRequests

The calls of `AddOrder` that carry one request id. A call claims the
placeholder (`Claim`) or meets it (`ClaimRefused`, `LookUp`), validates its
request only then, submits, and either remembers the gid or releases the
placeholder. A gid is named by the call it was made for. `unsure` are the sagas
DTM took although `Submit` reported an error, `orphaned` the calls that left a
placeholder nobody will release.

### StockSync

One product. `call[c]` is a call of `CheckAndUpdateStock`: the script, on a miss the read
of the product row, the write of the hash, and the single retry. `sync[c]` is the goroutine
it starts: read `sync_used`, UPDATE the product table, compare and set. The
context it inherits from the request may end first (`ContextEnds`). `warm` is the
start of a replica: it reads stock, looks for the hash and writes it. `charged[r]` is a history
variable: how often request `r` was counted as sold. `kept`, another one, says that the hash
was there from the start until now; then nobody has a reason to write over it.

### SharedStock

`StockSync` with order sagas on the same hash and the same row of the table. An
order runs `DecrStock`, the checks and scripts of `CreateOrderDTM` with its undo
loop, and both compensations, one delivery at a time; repeated and concurrent
deliveries are the subject of `OrderSaga`. `out` are the orders whose pieces
`available` does not offer, `written` what write-backs took out of the table,
and `causes` records five steps that make the hash tell a stock that is not
there:

| cause | step |
|---|---|
| `stale` | a load writes more than the table holds by then |
| `unwritten` | a load, or a pre-lock without a hash, while sold pieces are still in the table |
| `phantom` | a revert gives back pieces that no pre-lock had taken |
| `undone` | the undo loop gives back the pieces of an order whose commit reported an error and happened, or a compensation whose own commit fails does |
| `lapsed` | the key of a pre-lock expires |

### OrderEvents

`queue` is a bag of messages; `consumer[c]` is what a consumer does with the message
it holds. `Take` removes a message, `Crash` and a requeue put it back, `Ack` drops it.
`marks` are the idempotency keys (`Look` then `Mark` for the consumers that check before and
write after their work, `Claim` for SETNX), `snapshots` the items stored on creation,
`reconcile` the list for cancellations that found no snapshot. `published`, `handled` and `cutShort`
record what was ever published, how often the rollback event of an item reached its handler, and which messages a
failure or a crash took between their mark and the end of their work. The handler is `handleOrderStockIncrease`, a log line
with a TODO for the call of the product service: no stock moves in the program, nor in this module.

### OrderStatus

One order. `Updates` are calls of `UpdateOrderStatus`: `FindOrder` and
`FillOrder` read the row through the cache, `Rejected` and `UpdateStatusIf`
decide on what was read, `InsertStatusLog` writes the pair of statuses
afterwards; a conflict may be retried. `Viewers` call `GetOrderById` and fill the same
cache. `CancelOrder` is the UPDATE of the compensation. `trail` is a history variable:
the statuses the order has had.

### Payment

`row[p]` is the payment's status, `cache[k]` the entry under its own id or that of its
order, with go-zero's mark for what was not found. A report, a refund and a shopper all begin with
`Find` and `Fill`. `UpdateRow` and `Evict` are two steps, because the UPDATE and the deletion of the
keys are; so are `CheckSum` and `InsertRefund`. `queue`, `held` and `acked` are the
queue of provider events: `Deliver` up to the prefetch count, `Consume`, `AckOrNack`,
and `Requeued` puts a failed message back. `everPaid`, `overlapped`, `late` and `stale` are history variables.

### Seckill

`box[r]` and `worker[r]` are the batcher of one request and its goroutine `merge`:
every request builds its own, and its context closes it. `topic`, `ahead`, `fetched`, `due` and `committed` are
Kafka and the consumer's offsets. Go-queue hands messages to eight processors, so that requests reach `Consume` in any
order; each processor then commits the offset of its own message, which moves the offset of the whole partition. `Commit(r)` therefore
covers whatever stands in front of `r` in its partition (`ahead`), done or not, it may be skipped by an error, and it may move the
offset back; `FetchedBefore` is where a new process reads on. `chan[i]`, `serving[i]`, `quit` are the
consumer's channels and goroutines. `Stop` cancels the context, `Stopped` and `Crash` lose
what is in memory in front of the offset; `Restart` is the next process. The TCC transaction is the
counter `tried[r]`.

### ChannelPool

`conn` numbers the connections, `on[c]` says on which one a channel is open.
`rc` is the place of `autoReconnect` and, inside it, of `connect` and `initChannelPool`;
`pc[u]` is the place of a goroutine that gets a channel, uses it and returns it,
or consumes on it. What runs under `r.lock` is one step; `initChannelPool` replaces and fills
`r.pool` without it, one step at a time. `note` is what `closeChan` has to
say. `dead` is a panic. `abandoned` and `failures` are history variables.

### Addresses, Cart, ProductPages

* `Addresses`: one user. `entry` is the cache of single rows, `list` that of lists, by
  version. Each call moves through its statements (`at`): find, the transaction on the default,
  the write, the eviction or the increment of the version. Redis may fail and a handler may die
  between two of them.
* `Cart`: the rows of one product, live and deleted. A call reads (`FindOneByUserAndProduct`),
  then writes the whole row back (`Write`) or is refused by the unique key. `credited` is what the calls
  come to in the order in which they wrote; `since` who wrote while a call held its copy.
* `ProductPages`: table, sorted set, the goroutines that fill it, and readers who follow the cursor. A ZADD may fail, which
  leaves the set as it was. `MaxFirst` says which bound of a range the Redis client takes first: `productlistlogic.go:57` passes the
  greatest score first, as Redis does; the go-zero of `go.mod` takes the smallest first, so that the range is empty there and every page comes from the table.

## 3. Runs, bounds and what they show

TLC runs with two workers; every run takes less than five minutes. Deadlock is
not checked in any of them: requests, faults and restarts are finite, and when all
of them are over the system rightly stops.

| run | asks | bounds |
|---|---|---|
| `shared_stock` | Do the books of the ledger balance and its decisions hold in every order of the scripts? Is a piece promised twice when sagas and direct sales share hash and table, and do the two agree? | 3 sagas of 1 piece, 1 product of stock 2, its hash missing, loaded or overwritten with 0 to 2 at any time, and expiring; every kind of key may lapse once for each hash; or 2 calls of 1 piece and 2 orders of 2 and 1 pieces on a stock of 3, of which one call, one order or one of each stays away; 1 lapse, 1 fault, rollback, hash missing or there; a restart of the product service where one call meets one order |
| `order_saga` | Do two sagas that compete behave as two reservations, and do failed ones keep no pre-lock? | 2 sagas (one of 2 items) on 2 products of 2 pieces each, a load of the hash of the contested one with 1 piece left or its expiry, 2 workers, 1 fault, rollback of the saga of 2 items |
| `saga_live` | Is a submitted order placed and announced, does a rollback end, and is every step on Redis one of the ledger? | 1 saga, 1 item, the last piece, 2 workers, a cached row, which may be stale or expire, the product off sale, a load with 0 or 1, expiry of the hash or a key (1 of these), 1 fault, rollback, fair |
| `direct_sale` | Is a request charged once, is the hash true, and do sales implement `Reservation`? | 3 calls of 2 requests (one repeated), quantities 1 and 2, stock 3, hash or product missing, 1 lapse, 1 restart, 2 faults |
| `order_events` | Is a rollback event handled once and only for a cancelled order, is the notice true, and does a cancellation settle? | 1 order of 2 items, announced once and cancelled twice, 1 lapse of the cancel mark, 1 fault, 1 order, 2 delay, 2 stock, 1 notify consumers |
| `payment` | Do refunds stay within a payment that was reported as paid? What makes a cached status stale? | 1 payment of 2, refunds of 1 and 2, a callback (failed), an event (paid), 1 shopper, prefetch 2, 1 fault |
| `payment_live` | Does the event of a payment arrive in spite of one that never can? | 2 payments, one unknown, 1 callback, 2 events, prefetch 2, 2 faults, fair |
| `seckill` | What becomes of a request that was answered with success? | 2 requests of 2 users for 1 product, in one partition, processed in any order; 2 channels of 1 place, 1 stop, 1 fault |
| `channel_pool` | Is a channel in one hand, none lost, and a connection replaced, whenever `Close` comes? | pool of 1, a publisher and a consumer, 2 retries, 2 losses, 1 fault, fair |
| `records` | What can stale reads and forgotten placeholders lead to? | 1 address and 1 to be added, edited, deleted and listed; 6 calls on one product of a cart; 4 updates and a cancellation of an order, 1 lost log entry; 2 readers of 5 products in pages of 2; 3 calls with one request id, one malformed, 2 troubles |
| `last_piece`, `stale_address` | see section 6 | as small as shows the behaviour |

Why the bounds are enough to be worth something:

* Scripts and handlers treat sagas and products alike and look only at the keys of
  one saga and the hash of one product. Two sagas make them compete, a third lets
  a lapsed pre-lock be taken over while both its old and new owner are confirmed or
  reverted. Two items make a handler stop half-way: in `order_saga` the table has the pieces for both sagas, so that both come as
  far as the pre-lock, and a hash that was loaded when one piece was taken has them for one.
* A load may come at any moment, with any stock up to the initial one, before, between and after the scripts: the book that it
  opens and the one that it ends are both explored. Late keys of the first meet the second (`overwritten`, `settled`, `closed`).
* In `order_saga` the handlers are symmetric. They are alike, and no property checked there names one.
* Duplicates of a call need no bound: any operation that was sent can run again
  for ever. Two workers are needed and enough for two calls of one branch to overlap; a
  third could only do what one of them did in an earlier step.
* One fault can fall between any two steps of any actor; recovery from it is the
  retry that DTM or the broker performs. Two faults are allowed in `direct_sale`,
  where the write-back of two calls can both be cut short.
* A pool of one channel and a channel of one place are full after one step; the limits are reached.
  Two refunds suffice to exceed a payment, and two calls to overtake one another between a
  reading and a writing. The second connection that is lost is the one that a reconnection just made.
* What the bounds leave open (more sagas, items, faults, workers) is covered by the theorems
  of section 5, which have no bounds, for the safety properties listed there.

Properties in words, by run. Some are conjunctions of named parts; the parts are theorems of their own.

* `shared_stock`. `StockTypeOK`: the types of the ledger and of the shared hash; above all that
  `available` and the table's stock stay natural numbers. `LedgerBalanced`: from one load of a hash to the next `available`,
  `preLocked` and `used` are exactly what the cells and the lapsed pieces account for; its terms name the ways in which the hash may drift
  from its total: what a script did on a fallback quantity or on the key of an earlier hash, and lapsed pre-locks.
  `DecisionsFinal`: a confirmed cell never becomes reverted, nor the reverse, while its key lives, and no pieces move when it goes. `NoPieceTwice`: what is offered, sold, pre-locked and placed is within the stock there was, unless one
  of four named steps misled the hash. `HashAndTableAgree`: they differ by
  what is still to be written back and by the sagas between the two (`HashTellsTable`), and a write-back
  is refused only for that (`RefusalHasCause`).
* `order_saga`. `SagaAtomic`, `OrdersBacked`, `ImplementsReservation`: atomicity and conservation
  across services.
  `PreLocksReturned`: a failed saga leaves a pre-lock behind only where the barrier skipped its
  compensation and a fault, or a handler still at work, accounts for it.
* `saga_live`. `OrderAnnounced`: the event follows the order (`EventHasOrder`) and is not lost by a crash
  between commit and publication (`SucceededPublished`). The first is stated where no
  rollback happens: a call that comes after its compensation publishes for an
  order that was never inserted. `LedgerSpec`: whatever changes the hash or its keys is one script, load or expiry of the ledger.
  `SagaCompletes`: an order without a revert key in its way is placed unless a call fails, DTM gives it up or one of its steps finds the stock
  short; `Short` says where: in the table before `DecrStock`, in the product row after it, in the hash. `RollbackEnds`: a rollback ends
  unless a product is off sale time and again, where the UPDATE that puts its pieces back finds no row.
* `direct_sale`. `ChargedOnce`; `HashTruthful`: the counters balance (`HashBalanced`) and `sync_used` counts
  nothing that did not leave the table (`SyncedLeftDb`); `ImplementsSale`: no overselling as long as the hash is there.
* `order_events`. `HandledOnce`, `NoticeTruthful`, `RollbackJustified`: as in section 1. `CancelSettles`: when nothing of a cancellation
  is under way, the rollback event of every item was handed to its handler, or the order is on the reconcile list, in spite of failed
  calls and crashes. The exception is named (`cutShort`): a failure between the mark of a message and the end of its work loses it.
* `payment`, `payment_live`. `RefundsWithinPayment` for refunds that did not overlap; `RefundsOnlyPaid`; `StaleHasCause`:
  the three causes of a stale status; `EventsArrive`: as long as the poison messages are fewer
  than the prefetch count.
* `seckill`. `NothingVanishes`: an answered request is on its way or recorded as lost; `RequestsTriedOnce`: tried again only after a redelivery.
  Lost are also the requests that a later commit of their partition has covered and a stop or crash takes.
* `channel_pool`. `ChannelsHeldOnce`; `NoOpenChannelLost` outside two windows; `ReconnectionSound`: the current connection is closed for good
  after `Close`, an older one is open only after a fault has made `autoReconnect` dial past it, a pool when it listens again, giving up only after `MaxReconnect` failures in a row; `Reconnects`.
* `records`. `OneDefault` unless two transactions looked for the old default at once; `CachesCurrent`: lists and
  rows of addresses; `DeletionsHold`: what is deleted comes back only through a call that read it before;
  `CartTruthful`: additions add up until a row is overwritten, refusals have a cause; `StatusFollowsTable`,
  `LogTruthful`; `PagesComplete`: a reader at the end has seen everything but what it can lose;
  `OneOrderPerRequest`, `PlaceholderTruthful`.

Each property has a mutant in `PROJECT.json`: a definition changed the way a plausible
bug would change the code, for which TLC reports the property violated. The type
invariants of `OrderSaga`, `OrderEvents`, `Payment`, `Addresses`, `Cart`, `OrderStatus` and `OrderRequests` are theorems and not
checked by a run; those of the other modules are part of the properties above.

## 4. Fairness

Safety runs use `Spec`. The fair specifications add, with the reason:

* `OrderSaga`. DTM keeps calling an operation that is due and unanswered (its cron retries
  with back-off), and of infinitely many successful answers one is
  delivered: weak fairness of `Call`, `Finish` and of the handlers with a delivered answer, strong
  fairness where a call has to find a free goroutine. A handler goroutine that started runs to its end:
  weak fairness of each worker, which may always crash instead, as long as faults are left.
  A transaction waiting for a barrier row another holds is let in: strong fairness of
  `CreateBegin` and `RevertBegin`, for InnoDB does not starve
  a waiting lock request. Late calls are finite: from some time on, `CreateStart` only happens when DTM
  waits for it; DTM sends no call for an operation that was answered.
* `Payment`. The consumer's loop goes on: weak fairness of its steps. The broker uses the
  room it has now and then before the consumer empties it: strong fairness of a
  delivery. A not-found mark expires, which go-zero makes it do after a minute: strong fairness of `Expire` for it.
  Nothing is assumed of refunds, callbacks or shoppers.
* `ChannelPool`. The goroutine of `autoReconnect` is scheduled: weak fairness of its steps.
  Its `select` may take the ticker instead of the news, and nobody need call the pool.

`StockSync`, `SharedStock`, `OrderEvents` and `Seckill` state no liveness: the write-back goroutine
may die with its context and is not retried, the broker may lose a
message published without confirms, and no program of the repository starts the flash-sale consumer, so the code promises no progress there. The parts
of `records` are calls that a client may abandon.

## 5. What is proved

Every safety property that a passing run checks is also a theorem: every invariant and every action property, and the three
refinements. The theorems hold for every number of sagas, orders, products, quantities, workers, calls, requests, consumers,
channels, goroutines, refunds, messages, readers, restarts, faults and lapses.

They assume only what the modules assume of their constants: `GidsAssumption` and `OrdersAssumption` (finitely many sagas
and orders), `QuantityAssumption`, `SyncAssumption`, `PaymentAssumption`, `OrderStatusAssumption`, `CartAssumption`,
`AddressAssumption`, `RequestAssumption`, `SeckillAssumption`, `ChannelPoolAssumption` (types, finiteness, disjointness of names),
`SagaAssumption` (also that an order has an item, which `validateOrderRequest` enforces), `EventsAssumption` (also that
a consumer reads one queue: the delay consumer is neither a stock nor a notification consumer, for each is a program of its own) and
`ProductPagesAssumption` (also that the products are finitely many and the opening is not after the closing). TLC evaluates them all.

| module | theorems | argument |
|---|---|---|
| `StockUnitsProofs` | `PiecesAdd` | adding a saga to a set adds its quantity: cardinalities of disjoint sets instead of an induction |
| `ReservationProofs` | `ReservationConserves` | each step moves one saga between two sets of `Pieces` |
| `PreLockProofs` | `LedgerTypeCorrect`, `LedgerAlwaysBalanced`, `LedgerNeverOverLocks`, `LedgerDecisionsFinal` | inductive: type and balance; a script or an expiry moves one cell from one class to another, and `PiecesAdd` gives the change of each sum; a load empties all of them. `NoOverLock` follows from the balance, for `available` is a natural number |
| `OrderSagaProofs` | `SagaTypeCorrect`, `SagaInvariant`, `SagaAlwaysAtomic`, `OrdersAlwaysBacked`, `SagaImplementsReservation`, `SagaConservesStock`, `SagaKeepsLedger`, `SagaLedgerBalanced`, `AnnouncementHolds`, `FailedReturnPreLocks` | `SagaInv`, `AnnouncedInv`, `HeldInv`, below |
| `SharedStockProofs` | of direct sales alone `DirectTypeCorrect`, `RequestsChargedOnce`, `HashStaysTruthful`, `SalesImplementReservation`, `SoldStaysWithinStock`; with sagas `SharedInvariant`, `NothingSoldTwice`, `HashAndTableAgreed`, `StockTypeCorrect` | `DirectInv` and `SharedInv`, below |
| `RabbitMQProofs` | of the events `EventsInvariant`, `EventsTypeCorrect`, `RollbackHandledOnce`, `NoticeAlwaysTruthful`, `RollbackAlwaysJustified`, `CancelsSettle`; of the client `PoolInvariant`, `ChannelsApart`, `OpenChannelsAccounted`, `ReconnectsSoundly` | `EventsInv`, `QuietInv` and `PoolInv`, below |
| `SeckillProofs` | `SeckillInvariant`, `AnsweredNeverVanish`, `RequestsAreTriedOnce` | `SeckillInv`, below |
| `RecordsProofs` | of the status `StatusInvariant`, `StatusKeepsToTable`, `ReportsAreTrue`; of the cart `CartInvariant`, `CartKeepsWord`, `CartDeletions`; of addresses `AddressInvariant`, `DefaultIsOne`, `AddressCaches`, `EditsRevive`; of request ids `RequestIsOneOrder`, `PlaceholderHasCause`; of pages `PagesLeaveNothingOut`; of the five together `PartsAsSpecified`, `DeletionsStand`; of payments `PaymentInvariant`, `StaleStatusHasCause`, `OnlyPaidRefunded`, `RefundsStayWithin` | six invariants, below |

The parts of a property that is a conjunction, and the type invariants, are theorems of the same modules that
`PROJECT.json` does not list (`EventsHaveOrders`, `SyncedHasLeftDb`, `CartSum`, `OneSaga` and so on).

`SagaInv`. Neither `SagaAtomic` nor `OrdersBacked` is inductive: a handler that is
about to commit, or an answer that is about to arrive, can break both. `SagaInv` adds for every
saga the order in which DTM calls and hears (`SentInv`: the second branch is called after the
first committed, and undone before it), that a row exists only for an operation that was
called, that a compensation's row is `done` only if its action's is and `void` only together
with it (`RowPair`), that an answer was only heard where a row exists (`BarrierInv`), and that
the order row comes and goes with the rows of its branch (`OrderInv`); for every worker, what
its `pc` entails (`WorkerInv`); and that two workers are never in transactions on the same
saga at once (`Exclusive`: the second one waits for the row the first one inserted). Every step then changes
`Progress` of one saga along an edge of `Reservation`, or stutters. `SagaKeepsLedger`
shows that every step is a step of the ledger or leaves it alone, so the theorems of
`PreLockProofs` carry over. `AnnouncedInv` adds that an answer to `create` is heard only after
the publication was tried. `HeldInv` and `RevertedInv` follow a pre-lock: it is held only by an order that committed, by a
handler that knows of it, or because a fault cut the undo loop short.

`DirectInv`. A goroutine that writes back holds a stale copy of the hash. `ProcessedInv` ties
the set `:processed` to `charged`. While the hash is `kept`, `KeptInv` says that nobody is on the
way to write it over, and for each goroutine that its copy is not ahead of the hash and that
a compare-and-set which will succeed has its UPDATE behind it (`WriterInv`).

`SharedInv`. Neither of the two properties of the shared stock is inductive: what a load writes, and what a compensation gives back,
depends on who is on the way. Three books are kept of the pieces. `TableBook`: the table's stock, what was written back and what orders hold
of it are the stock there was, always. `NoPieceTwice`, of the hash: what is offered, sold and promised is at most that, unless a step with a
cause other than a lapsed key has happened. `HashBook`: exactly that, while the hash is kept and nothing has misled it. They rest on
`SaleInv` (while the hash is kept no call and no replica is about to write it over, and no write-back takes more than was sold) and on
`OrderInv` (pieces that a key says are pre-locked are out of what is offered, or its order gave the stock back, and while the
hash is kept and no key has lapsed, only those are). Each step of a sale and of an order then enters the same amount on two sides
of a book, by `PiecesAdd` over requests or orders. The direction `<=` in `NoPieceTwice` is all that survives a hash that expires.

`EventsInv`. `HeldInv` says for each stage of a consumer what it relies on: it handles a
published message, and one that publishes rollbacks has published those no longer in its
`todo`. `TraceInv`: every message in the queue, every snapshot and every rollback has its
cause among what was published. `MarkInv`: a rollback event that was or is being carried out has its
mark, and one consumer at most carries it out.

`QuietInv`. `CancelSettles` speaks of a moment when all is quiet; what holds on the way there is that, unless it was cut short, a
published cancellation is in its queue, in work, or through (on the reconcile list, or with all its rollback events published), and that
a marked one is in work or through, for a consumer that drops a marked message relies on another one being at it. The same is kept of
each rollback event up to its handler.

`PoolInv`. `ApartInv`: the pool, `initChannelPool`, the hand of a goroutine and the channel it consumes on are apart; a goroutine
holds a channel exactly where its place says so (`HandInv`). `LostInv`: every open channel is in one of those places or was abandoned.
`ConnInv` counts connections against losses and faults and says that the news `autoReconnect` waits for are of the
connection there is; `LoopInv` what each of its stages relies on. `OlderInv`, for `ReconnectsSoundly`: `autoReconnect` dials while the
connection before is still open only after a fault. A pool is a sequence: the lemmas `PoolTail` and the like say what
`Tail` and `Append` do to the set of its channels.

`SeckillInv`. `BatchInv` says where a request is before Kafka has it, `DeliveryInv` where it is after the consumer fetched it,
and `PlaceInv` that it stands in its own channel once, or is being served, and not both; otherwise `Execute` could
try it a second time without a redelivery.

`PaymentInv`. `CacheInv`: an entry is of the payment or order it is filed under, a reader about to cache what it read either read what the row
still says or is recorded as late, and whoever has seen `paid` has seen it of a payment whose row once said so.
`RefundInv`: a refund between its sum and its insert still fits beside the rows there are, unless its payment is `overlapped`.

The parts of `MCRecords`. Each of the five invariants says what a call in the middle of its work
may rely on although others write meanwhile. `StatusInv`: every status read or cached lies on the trail, and as transitions lead to
greater numbers and a cancellation to 0, the trail has no status twice, so that steps, log entries and calls about to log can be
counted. `CartInv`: a copy differs from its row only if somebody wrote `since`. `AddressInv`: versions never seen are not
cached, and a row, its entry and the lists differ only where a call on its way or a recorded fault accounts for it. `RequestInv`
with `HolderInv`: until the placeholder expires, whoever is past it or has a saga holds it.
`PagesInv`: a product that was there before a reader began is older than its cursor, was shown or shares its second with one that was, or was passed by
a page of an incomplete set. A page ends at the smallest time on it, so that whatever is later and was not passed by is on it: hence `MinOfNaturals` and the
lemmas about what a page of `Ps` products holds.

Only model-checked: liveness (`SagaCompletes`, `RollbackEnds`, `EventsArrive`, `Reconnects`, and the violation
`EventuallyConsistent`), which is out of the prover's reach, since it needs ENABLED for the fairness. What a violation run refutes
(`EventuallyConsistent`, `DeletedNotServed`) is of course not a theorem. No recursive definition occurs in any module.

## 6. Where the code and its documents differ

Two are runs that must find their property violated.

* `last_piece` (`EventuallyConsistent`). `README.md` line 71 promises eventual
  consistency by the DTM saga. `DecrStock` takes the pieces out of the table, and `CreateOrderDTM`, the branch after it,
  compares the product row with the quantity once more (`createorderdtmlogic.go:110`). An order for all that is left finds too little there, unless
  the row was cached before. The answer is a plain error and not Aborted: DTM calls again, for ever, with nothing
  having failed; the stock stays taken and there is no order.
* `stale_address` (`DeletedNotServed`). The deletion of an address and the cancellation of an old
  default evict `user:address:id:<id>`; `FindOne` caches under `cache:userReceiveAddress:id:<id>`.
  The comment on the prefix says that it is the one go-zero generates. A deleted address is
  served until its entry expires, after a deletion that nothing disturbed.

Others were met on the way. The properties of the passing runs are stated so that they
name these cases instead of leaving them out:

* A short stock, or a product that is off sale (`status = 1` in the statement), makes the UPDATE of `TxUpdateStock` affect no row, which
  it reports as a plain error. `DecrStock` answers Aborted for another error only, so DTM retries until there is stock (`Short`).
  `DecrStockRevert` uses the same statement: while the product is off sale its pieces cannot be put back (`RollbackEnds`).
* After a failed transaction the undo loop writes the revert key of every item, and the retry of the branch gets code 4 from the
  pre-lock script until that key expires, after 24 hours; a refused call does not renew it (`Refused`). Then the retry pre-locks as if nothing had been.
* The hash is overwritten while pre-locks are held: whoever found it without the field `available` writes it later without looking again, with
  `pre_locked` 0. A confirm of such a pre-lock drives `pre_locked` below zero, a revert gives back pieces that the new hash never gave
  (`overwritten`, `overconfirmed`, `overreleased`).
* The undo loop (`createorderdtmlogic.go:245`) also reverts the item whose pre-lock was refused, and those of an order whose
  commit reported an error and happened. The revert script then offers pieces that are not
  there: the causes `phantom` and `undone` of `SharedStock`, the term `refunded` of `LedgerBalanced`.
* Two callers that find the hash missing both load it, and the second load wipes out the
  sale made after the first (cause `stale`; `kept` in `StockSync`).
* Two write-backs subtract the same increment from the table before either compares and sets
  `sync_used`; the comment at the failed compare says it was counted once. `SyncedLeftDb` is an inequality for this.
* `README.md:204` speaks of SETNX for the marks of the events. The delay, order and notification consumers use Exists and
  Setex, two calls; only the stock consumer uses SETNX.
* The product of a cart can be deleted once. The unique key counts deleted rows, so that the second
  deletion after a new addition is refused (`RefusedForCause`). `UpdateCart` with a quantity alone resets
  `selected`, which its comment says it keeps.
* "Concurrent change, please retry" of `UpdateOrderStatus` cannot succeed as long as the old row is
  cached, which nothing evicts; the safety of the status is not touched (`StatusFollowsTable`).
* A favourite that was deleted cannot be added again: the row is found and its column never reset
  (`addusercollectionlogic.go:64-72` says so).
* A malformed request has claimed its `request_id` before it is refused. The corrected request is
  turned away for a day, and a repetition is answered as accepted (`PlaceholderTruthful`, `orphaned`).
* The cursor of `ProductList` is counted in by the set and out by the table: products of one second are shown
  twice, or lost when a page ends among them (`MissingHasCause`).
* `NewRabbitMQ` that cannot fill its pool calls `Close`, which closes the closed pool again and
  panics; `autoReconnect` sends to the channel that it alone receives from (`rc = "stuck"`).

## 7. What is not modelled, and assumptions

Most of the repository's lines are generated (`*.pb.go`, `*_grpc.pb.go`, goctl's clients, servers, types and
handlers), or turn a request into one RPC or one statement. The map therefore covers a small share of all
lines, and nearly all of those in which several steps change shared state.

Not modelled, for the reason given (`PROJECT.json`, "components", has the list by part):

* Code without a caller, or which cannot run: the branches `CheckAndReserveStock` and `TryCreateOrder` that the
  flash sale's TCC names do not exist, and nothing starts its consumer: `apps/seckill/rmq` holds `etc/`, `internal/` and a `start.sh` for
  other binaries, no `main` calls `NewService`, `Dockerfile.seckill.rmq` and `Dockerfile.seckillRMQ` build packages that are not there, and
  `Consume(_ string, value string)` is not the handler that go-queue v1.2.2 takes. `Seckill` has the package as it would run, and promises no progress of it.
  `CreateOrderCheck` and `RollbackOrder` are unimplemented;
  `UpdateProductStock`, `RollbackProductStock` and `SnowflakeGenerator` have no caller. `ConfirmOrder`'s handler always
  fails, since the query it uses does not select `gid`, and no saga calls it: its script is part of
  `PreLock`, and no action of `OrderSaga`. The task `sync_stock_to_db` has no handler; it is counted
  (`tasks`) and does nothing.
* One statement or one transaction without a later step: the direct creation of an order (`createDirect`), collections.
* Reads: search, user info, `GetUserReceiveAddressInfo` (it is `FindOne` alone, which `Addresses` has), product details.
* The end mark `-1` of a product set changes no answer: a page that holds it is too short.
* `productlistlogic.go:57` passes the bounds of a range as (greatest, smallest); the method of go-zero v1.9.2 takes (start, stop) as smallest
  and greatest. The range of a page is therefore empty in the program, and every page comes from the table. `ProductPages` has both orders
  (`MaxFirst`): the theorem holds for either, and the runs take the one in which the set is used, as the code means it to be.
* Generated scaffolding, configuration, deployment files, metrics.

Assumptions of the modules that exist:

* DTM and MySQL are as the handlers use them: a transaction is atomic, the
  barrier row is unique, and its insertion waits for a transaction that inserted the
  same row. Redis loses nothing but what expires.
* No handler answers Aborted and no saga sets a timeout, so with the code as it is DTM
  never rolls a saga back by itself. `Slow` are the sagas that an operator or
  a later configuration rolls back: the compensations are checked for what they were
  written for. With `Slow = {}` the model is the code as deployed.
* A hash lives for 7 days (8 at most after a warm-up), a pre-lock for 30 minutes, a decision for 24 hours; the modules let each expire at any
  time, on its own. A hash that HINCRBY has made has no time to live in Redis; it may expire in the model, too.
* No caller in the repository writes the column `product.status`; `ChangeSale` is somebody outside who does.
* The undo loop runs outside the barrier, so one call can give back pre-locks that a
  concurrent call of the same branch has just taken and commits. The order is then live
  with its pre-locks reverted. The tables stay right (`OrdersBacked`); the Redis hash
  then offers these pieces again.
* A compensation that finds no action skips its business. The comment at
  `createorderdtmrevertlogic.go:67` expects otherwise; pre-locks of a crashed
  transaction whose action row was never committed stay until they expire.
* `SharedStock` keeps one delivery of an order's calls at a time and leaves out the confirm script;
  `OrderSaga` has concurrent deliveries, without direct sales.
* The set `:processed` lives for 7 days, a snapshot for 48 hours and the mark of a stock event
  for 24 hours; a request, an order and an event are taken not to be repeated later.
* Events: no publisher of the repository sends a malformed message, so the branches that drop or
  requeue those are left out. Publishing is without broker confirms; a published message may
  get lost in the broker, which the safety properties tolerate. The business of the order,
  stock and notification consumers is a log line (TODO in the code): `stock/main.go:312-319` does not call the product service, so that
  the program never puts the stock of a cancelled order back. `handled` counts how often a rollback event reaches that line. The delay consumer
  cancels whatever the status of the order is, and does not change it. `PublishDelayMessage` has no
  caller: the module offers cancellations from outside, without items, as it would send them.
* `UpdateOrderStatus` has no caller in the repository, and a payment never updates its order: `OrderStatus` offers calls from outside,
  and nothing joins it to `Payment`.
* A batch of the flash sale holds one message, for every request builds its own batcher.
* `OrderEvents` and `Payment` take a lost connection as a crash of its consumer; the client under
  it is `ChannelPool`.

## 8. Plan

1. The refinement of `Reservation` by `SharedStock`, with direct sales and orders as its sagas, for as long as nothing misleads the hash.
2. `SharedStock` with concurrent deliveries of one order's calls, and its theorems over again.
3. That every behaviour of `OrderSaga` with one call at a time is one of the sagas of `SharedStock`.
4. `OrderStatus` under `OrderEvents`, once the code lets a cancellation look at the status.
5. The queue depth monitors, which take a channel and never return it.
