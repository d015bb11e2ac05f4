---------------------------- MODULE OrderEvents ----------------------------
(***************************************************************************)
(* What happens to an order over RabbitMQ: the order consumer keeps a      *)
(* snapshot of its items, the delay consumer cancels it by publishing one  *)
(* stock rollback event per item and a notification, the stock and the     *)
(* notify consumer handle those.  Any number of consumers read each queue; *)
(* a message stays with the consumer until it is acknowledged or dropped,  *)
(* and goes back to its queue if the consumer dies before.  Each consumer  *)
(* keeps marks in Redis to recognise what was handled already.             *)
(*                                                                         *)
(* A queue is a bag: redelivery, prefetching and several consumers leave   *)
(* nothing of its order.  The delay queue, whose messages go to the queue  *)
(* order.dlq.queue after 30 minutes, is part of that queue: a message that *)
(* waits is one that is not delivered yet.                                 *)
(***************************************************************************)
EXTENDS Integers, FiniteSets

CONSTANTS
    Orders,          \* orders
    Products,        \* products
    ItemsOf,         \* ItemsOf[o]: the products of order o
    OrderConsumers,  \* processes that read order_create_queue,
    DelayConsumers,  \* order.dlq.queue,
    StockConsumers,  \* stock.change.queue and
    NotifyConsumers, \* order.notification.queue
    MaxAnnounced,    \* bound: order creation events
    MaxDelayed,      \* bound: cancellations and reminders
    MaxLapses,       \* bound: MaxLapses[k]: marks of kind k that expire
    MaxFaults        \* bound: failed Redis or RabbitMQ calls and crashes

Outside == {"created", "cancel", "remind"}
Lapsing == Outside \cup {"cancelled", "reminder"}

\* The delay consumer and the notify consumer are programs of their own.
ASSUME EventsAssumption ==
    /\ DelayConsumers \cap (StockConsumers \cup NotifyConsumers) = {}
    /\ ItemsOf \in [Orders -> SUBSET Products]
    /\ MaxAnnounced \in Nat /\ MaxDelayed \in Nat
    /\ MaxLapses \in [Lapsing -> Nat]
    /\ MaxFaults \in Nat

Consumers == OrderConsumers \cup DelayConsumers \cup StockConsumers \cup NotifyConsumers

Rollback(o, p)  == [kind |-> "rollback", order |-> o, product |-> p]
Cancelled(o, b) == [kind |-> "cancelled", order |-> o, stockOp |-> b]
Reminder(o)     == [kind |-> "reminder", order |-> o]

External == [kind : Outside, order : Orders]
Rollbacks == [kind : {"rollback"}, order : Orders, product : Products]
Notices == [kind : {"cancelled"}, order : Orders, stockOp : BOOLEAN]
             \cup [kind : {"reminder"}, order : Orders]
Messages == External \cup Rollbacks \cup Notices
NoMessage == [kind |-> "none"]

\* The kinds of message in the queue that consumer c reads.
Reads(c) ==
    (IF c \in OrderConsumers THEN {"created"} ELSE {})
      \cup (IF c \in DelayConsumers THEN {"cancel", "remind"} ELSE {})
      \cup (IF c \in StockConsumers THEN {"rollback"} ELSE {})
      \cup (IF c \in NotifyConsumers THEN {"cancelled", "reminder"} ELSE {})

\* The mark of a message: order_event:<order>, delay_event:<order>:<action>,
\* stock_event:<order and product>, notify_event:<type and order>.
Key(m) == IF m.kind = "cancelled" THEN [kind |-> "cancelled", order |-> m.order] ELSE m
Keys == {Key(m) : m \in Messages}

VARIABLES
    queue,     \* queue[m]: copies of m to be delivered
    consumer,  \* consumer[c]: the message c handles and how far it got
    marks,     \* keys set in Redis
    snapshots, \* orders with a key order:items_snapshot:<order>
    reconcile, \* orders with a key order:stock_reconcile:<order>
    published, \* history: messages ever published
    handled,   \* history: how often each rollback event reached its handler
    cutShort,  \* history: messages that a failure kept from being handled
               \* after they had been marked
    budget     \* what is left of the bounds

redisVars == <<marks, snapshots, reconcile>>
brokerVars == <<queue, published>>
vars == <<brokerVars, redisVars, consumer, handled, cutShort, budget>>

\* mark    found no mark, about to set it   record  no items: record the order
\* work    about to do the work             notify  publish the notification
\* publish items left to publish            ack     about to acknowledge
Stages == {"idle", "mark", "work", "publish", "record", "notify", "ack"}
Idle == [pc |-> "idle", msg |-> NoMessage, todo |-> {}, stockOp |-> FALSE]

QueuesTypeOK ==
    /\ queue \in [Messages -> Nat]
    /\ consumer \in [Consumers -> [pc : Stages, msg : Messages \cup {NoMessage},
                                   todo : SUBSET Products, stockOp : BOOLEAN]]
    /\ marks \in SUBSET Keys
    /\ snapshots \in SUBSET Orders
    /\ reconcile \in SUBSET Orders
    /\ published \in SUBSET Messages
    /\ handled \in [Orders -> [Products -> Nat]]
    /\ budget \in [announced : Nat, delayed : Nat, lapses : [Lapsing -> Nat],
                   faults : Nat]

EventsTypeOK == QueuesTypeOK /\ cutShort \in SUBSET Messages

Init ==
    /\ queue = [m \in Messages |-> 0]
    /\ consumer = [c \in Consumers |-> Idle]
    /\ marks = {} /\ snapshots = {} /\ reconcile = {}
    /\ published = {}
    /\ handled = [o \in Orders |-> [p \in Products |-> 0]]
    /\ cutShort = {}
    /\ budget = [announced |-> MaxAnnounced, delayed |-> MaxDelayed, lapses |-> MaxLapses,
                 faults |-> MaxFaults]

Fault == budget.faults > 0 /\ budget' = [budget EXCEPT !.faults = @ - 1]

Publish(m) ==
    /\ queue' = [queue EXCEPT ![m] = @ + 1]
    /\ published' = published \cup {m}

Msg(c) == consumer[c].msg
At(c, pc) == consumer[c].pc = pc
Go(c, pc) == consumer' = [consumer EXCEPT ![c].pc = pc]
Finish(c) == consumer' = [consumer EXCEPT ![c] = Idle]

-----------------------------------------------------------------------------
\* CreateOrderDTM announces an order, once per call of it.
Announce(o) ==
    /\ budget.announced > 0
    /\ budget' = [budget EXCEPT !.announced = @ - 1]
    /\ Publish([kind |-> "created", order |-> o])
    /\ UNCHANGED <<redisVars, consumer, handled, cutShort>>

\* PublishDelayMessage, for a cancellation or a reminder.
PublishDelayMessage(o, action) ==
    /\ budget.delayed > 0
    /\ budget' = [budget EXCEPT !.delayed = @ - 1]
    /\ Publish([kind |-> action, order |-> o])
    /\ UNCHANGED <<redisVars, consumer, handled, cutShort>>

\* Consumer c gets message m; what it did first is part of the same step.
Take(c, m, pc) ==
    /\ At(c, "idle") /\ m.kind \in Reads(c) /\ queue[m] > 0
    /\ queue' = [queue EXCEPT ![m] = @ - 1]
    /\ consumer' = [consumer EXCEPT ![c] =
                     [pc |-> pc, msg |-> m, todo |-> {}, stockOp |-> FALSE]]

\* The work for a message is under way, and its mark is set.
AtWork(c) == consumer[c].pc \in {"work", "publish", "record"} /\ Key(Msg(c)) \in marks
CutShort(c) == cutShort' = cutShort \cup {Msg(c)}

\* A consumer dies or loses its connection: the message is delivered again.
Crash(c) ==
    /\ ~At(c, "idle")
    /\ queue' = [queue EXCEPT ![Msg(c)] = @ + 1]
    /\ Finish(c)
    /\ Fault
    /\ IF AtWork(c) THEN CutShort(c) ELSE UNCHANGED cutShort
    /\ UNCHANGED <<published, redisVars, handled>>

Ack(c) ==
    /\ At(c, "ack")
    /\ Finish(c)
    /\ UNCHANGED <<brokerVars, redisVars, handled, cutShort, budget>>

-----------------------------------------------------------------------------
(* The order, delay and notify consumers look for the mark and then set    *)
(* it, before the work, and go on if Redis fails; the notify consumer does *)
(* not even try to set the mark if it could not look for it.  What it does *)
(* with a notification is to log it.                                       *)

Look(c, m) ==
    /\ c \notin StockConsumers
    /\ \/ Key(m) \in marks /\ Take(c, m, "ack") /\ UNCHANGED budget
       \/ Key(m) \notin marks /\ Take(c, m, "mark") /\ UNCHANGED budget
       \/ Take(c, m, IF c \in NotifyConsumers THEN "ack" ELSE "mark") /\ Fault
    /\ UNCHANGED <<published, redisVars, handled, cutShort>>

Mark(c) ==
    /\ At(c, "mark")
    /\ Go(c, IF c \in NotifyConsumers THEN "ack" ELSE "work")
    /\ \/ marks' = marks \cup {Key(Msg(c))} /\ UNCHANGED budget
       \/ Fault /\ UNCHANGED marks
    /\ UNCHANGED <<brokerVars, snapshots, reconcile, handled, cutShort>>

\* Mutant: the stock consumer looks for its mark as the others do.
ClaimLooks(c, m) ==
    /\ c \in StockConsumers
    /\ Take(c, m, IF Key(m) \in marks THEN "ack" ELSE "mark")
    /\ UNCHANGED <<published, redisVars, handled, cutShort, budget>>

\* The stock consumer sets its mark only if it is not set (SETNX).
Claim(c, m) ==
    /\ c \in StockConsumers
    /\ Take(c, m, IF Key(m) \in marks THEN "ack" ELSE "work")
    /\ marks' = marks \cup {Key(m)}
    /\ UNCHANGED <<published, snapshots, reconcile, handled, cutShort, budget>>

\* If that call fails, the error branch writes to msg.Headers, a nil map:
\* the process dies, and the message, whose mark may be set, stays.
ClaimFails(c, m) ==
    /\ c \in StockConsumers
    /\ At(c, "idle") /\ m.kind \in Reads(c) /\ queue[m] > 0
    /\ \/ Key(m) \notin marks /\ marks' = marks \cup {Key(m)} /\ cutShort' = cutShort \cup {m}
       \/ UNCHANGED <<marks, cutShort>>
    /\ Fault
    /\ UNCHANGED <<brokerVars, snapshots, reconcile, consumer, handled>>

-----------------------------------------------------------------------------
\* handleOrderCreatedEvent: the snapshot; the rest is only logged.
KeepSnapshot(c) ==
    /\ At(c, "work") /\ Msg(c).kind = "created"
    /\ Go(c, "ack")
    /\ \/ snapshots' = snapshots \cup {Msg(c).order} /\ UNCHANGED budget
       \/ Fault /\ UNCHANGED snapshots
    /\ UNCHANGED <<brokerVars, marks, reconcile, handled, cutShort>>

\* Mutant: a cancellation without a snapshot is only logged.
LoadSnapshotForgetful(c) ==
    /\ At(c, "work") /\ Msg(c).kind = "cancel"
    /\ IF Msg(c).order \in snapshots
         THEN consumer' = [consumer EXCEPT ![c].pc = "publish", ![c].stockOp = TRUE,
                                           ![c].todo = ItemsOf[Msg(c).order]]
         ELSE Go(c, "notify")
    /\ UNCHANGED <<brokerVars, redisVars, handled, cutShort, budget>>

\* Mutant: the items are taken from elsewhere when there is no snapshot.
LoadSnapshotOrGuess(c) ==
    /\ At(c, "work") /\ Msg(c).kind = "cancel"
    /\ consumer' = [consumer EXCEPT ![c].pc = "publish", ![c].stockOp = TRUE,
                                    ![c].todo = ItemsOf[Msg(c).order]]
    /\ UNCHANGED <<brokerVars, redisVars, handled, cutShort, budget>>

\* handleOrderCancellation: the status of the order is neither read nor
\* written; the items come from the snapshot, for PublishDelayMessage sends
\* none.
LoadSnapshot(c) ==
    /\ At(c, "work") /\ Msg(c).kind = "cancel"
    /\ \/ /\ Msg(c).order \in snapshots /\ ItemsOf[Msg(c).order] # {}
          /\ consumer' = [consumer EXCEPT ![c].pc = "publish", ![c].stockOp = TRUE,
                                          ![c].todo = ItemsOf[Msg(c).order]]
          /\ UNCHANGED budget
       \/ /\ Msg(c).order \notin snapshots \/ ItemsOf[Msg(c).order] = {}
          /\ Go(c, "record") /\ UNCHANGED budget
       \/ Go(c, "record") /\ Fault
    /\ UNCHANGED <<brokerVars, redisVars, handled, cutShort>>

\* Mutant: an item that could not be published is skipped.
PublishRollbackSkipping(c) ==
    /\ At(c, "publish")
    /\ \E p \in consumer[c].todo :
         /\ consumer' = [consumer EXCEPT ![c].todo = @ \ {p},
                ![c].pc = IF consumer[c].todo = {p} THEN "notify" ELSE "publish"]
         /\ \/ Publish(Rollback(Msg(c).order, p)) /\ UNCHANGED budget
            \/ Fault /\ UNCHANGED brokerVars
    /\ UNCHANGED <<redisVars, handled, cutShort>>

\* publishStockRollbackEvents; the message is dropped when a publish fails,
\* for its queue has no dead letter exchange.
PublishRollback(c) ==
    /\ At(c, "publish")
    /\ \/ \E p \in consumer[c].todo :
            /\ consumer' = [consumer EXCEPT ![c].todo = @ \ {p},
                   ![c].pc = IF consumer[c].todo = {p} THEN "notify" ELSE "publish"]
            /\ Publish(Rollback(Msg(c).order, p))
            /\ UNCHANGED <<cutShort, budget>>
       \/ Finish(c) /\ Fault /\ CutShort(c) /\ UNCHANGED brokerVars
    /\ UNCHANGED <<redisVars, handled>>

RecordMissing(c) ==
    /\ At(c, "record")
    /\ Go(c, "notify")
    /\ \/ reconcile' = reconcile \cup {Msg(c).order} /\ UNCHANGED <<cutShort, budget>>
       \/ Fault /\ CutShort(c) /\ UNCHANGED reconcile
    /\ UNCHANGED <<brokerVars, marks, snapshots, handled>>

\* handlePaymentReminder has nothing to do but to notify.
StartReminder(c) ==
    /\ At(c, "work") /\ Msg(c).kind = "remind"
    /\ Go(c, "notify")
    /\ UNCHANGED <<brokerVars, redisVars, handled, cutShort, budget>>

PublishNotice(c) ==
    /\ At(c, "notify")
    /\ \/ /\ Publish(IF Msg(c).kind = "cancel"
                       THEN Cancelled(Msg(c).order, consumer[c].stockOp)
                       ELSE Reminder(Msg(c).order))
          /\ Go(c, "ack") /\ UNCHANGED budget
       \/ Finish(c) /\ Fault /\ UNCHANGED brokerVars
    /\ UNCHANGED <<redisVars, handled, cutShort>>

\* handleOrderStockIncrease, which logs the event; that it calls the product
\* service is a TODO in it.
HandleRollback(c) ==
    /\ At(c, "work") /\ Msg(c).kind = "rollback"
    /\ handled' = [handled EXCEPT ![Msg(c).order][Msg(c).product] = @ + 1]
    /\ Go(c, "ack")
    /\ UNCHANGED <<brokerVars, redisVars, cutShort, budget>>

\* The marks of the delay consumer last an hour, those of the order and the
\* notify consumer a day.  The mark of a rollback event, which lasts a day,
\* is taken to outlive the copies of its event.
LapseMark(k) ==
    /\ k \in marks /\ k.kind \in Lapsing /\ budget.lapses[k.kind] > 0
    /\ marks' = marks \ {k}
    /\ budget' = [budget EXCEPT !.lapses[k.kind] = @ - 1]
    /\ UNCHANGED <<brokerVars, snapshots, reconcile, consumer, handled, cutShort>>

-----------------------------------------------------------------------------
Handle(c) ==
    \/ Mark(c)
    \/ KeepSnapshot(c) \/ HandleRollback(c)
    \/ LoadSnapshot(c) \/ PublishRollback(c) \/ RecordMissing(c)
    \/ StartReminder(c) \/ PublishNotice(c)
    \/ Ack(c)

Receive(c, m) == Look(c, m) \/ Claim(c, m) \/ ClaimFails(c, m)

Next ==
    \/ \E o \in Orders : Announce(o) \/ PublishDelayMessage(o, "cancel")
                          \/ PublishDelayMessage(o, "remind")
    \/ \E c \in Consumers : Handle(c) \/ Crash(c)
    \/ \E c \in Consumers, m \in Messages : Receive(c, m)
    \/ \E k \in Keys : LapseMark(k)

Spec == Init /\ [][Next]_vars

-----------------------------------------------------------------------------
(* Properties.                                                             *)

\* A rollback event reaches its handler, where the stock is to be put back,
\* at most once, however often the order is cancelled, by however many delay
\* consumers, and however often the event is published and delivered
\* (checkDuplicate of the stock consumer).
HandledOnce == \A o \in Orders, p \in Products : handled[o][p] <= 1

\* Who is told that the stock of a cancelled order was handled is told the
\* truth: every item has its rollback event, although a consumer may die or
\* RabbitMQ refuse between any two of them (handleOrderCancellation).
NoticeTruthful ==
    \A o \in Orders : Cancelled(o, TRUE) \in published =>
        \A p \in ItemsOf[o] : Rollback(o, p) \in published

\* Only items of an order that was announced and cancelled have a rollback
\* event that reaches its handler.
RollbackJustified ==
    \A o \in Orders, p \in Products : handled[o][p] > 0 =>
        /\ p \in ItemsOf[o]
        /\ [kind |-> "created", order |-> o] \in published
        /\ [kind |-> "cancel", order |-> o] \in published

\* Nothing of a cancellation is left under way.
Settled(o) ==
    \A m \in Messages : m.order = o /\ m.kind \in {"cancel", "rollback"} =>
        queue[m] = 0 /\ \A c \in Consumers : Msg(c) # m

\* A cancellation that is through handed the rollback event of every item to
\* its handler, or left a record of what it did not roll back, with several
\* consumers, repeated messages, marks that expire, a snapshot that comes
\* late or never, failed calls and crashes.  The one thing that loses an item
\* is a failure between the mark of a message and the end of its work
\* (handleDelayMessage and handleStockChange set the mark first).
CancelSettles ==
    \A o \in Orders :
        LET cancel == [kind |-> "cancel", order |-> o] IN
        cancel \in published /\ Settled(o) =>
            \/ o \in reconcile \/ cancel \in cutShort
            \/ \A p \in ItemsOf[o] :
                  handled[o][p] > 0 \/ Rollback(o, p) \in cutShort
=============================================================================
