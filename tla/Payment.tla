------------------------------ MODULE Payment ------------------------------
(***************************************************************************)
(* Payments and refunds (apps/pay).  A payment is created for an order, its *)
(* status is overwritten by reports of the payment provider, which arrive  *)
(* as callbacks (PaymentCallback) or over RabbitMQ (rmq/consumer), and     *)
(* Refund pays parts of it back.  All of them find the payment through a   *)
(* cache, by payment or by order, that several processes fill and evict.   *)
(***************************************************************************)
EXTENDS Integers, Sequences, FiniteSets

CONSTANTS
    Payments, Orders, OrderOf, \* OrderOf[p]: the order p was created for
    Amount,     \* Amount[p]: what was to be paid
    Unknown,    \* payments that reports name but nobody creates
    Callbacks, Events,         \* reports by HTTP and over RabbitMQ
    About, Status,  \* About[m], Status[m]: payment and status of a report
    Refunds, RefundOf, RefundAmount, \* requests to Refund
    Shoppers, OrderAsked,      \* callers of GetPaymentByOrderId
    Prefetch,   \* unacknowledged messages the consumer may hold
    MaxPaymentFaults   \* bound: failed database, Redis calls and crashes

Reports == Callbacks \cup Events
Keys == Payments \cup Orders
Tasks == Reports \cup Refunds \cup Shoppers
PaymentStatuses == {"pending", "paid", "failed", "cancelled"}

ASSUME PaymentAssumption ==
    /\ OrderOf \in [Payments -> Orders] /\ Payments \cap Orders = {}
    /\ Amount \in [Payments -> Nat] /\ Unknown \subseteq Payments
    /\ About \in [Reports -> Payments] /\ Status \in [Reports -> PaymentStatuses]
    /\ RefundOf \in [Refunds -> Payments]
    /\ RefundAmount \in [Refunds -> Nat \ {0}]
    /\ OrderAsked \in [Shoppers -> Orders]
    /\ Callbacks \cap Events = {}
    /\ Reports \cap Refunds = {} /\ Tasks \cap Keys = {}
    /\ Shoppers \cap (Reports \cup Refunds) = {}
    /\ Prefetch \in Nat \ {0} /\ MaxPaymentFaults \in Nat
    /\ IsFiniteSet(Refunds)

VARIABLES
    latest,   \* latest[o]: the payment of o with the greatest create_time
    row,      \* row[p]: column payment.status
    refund,   \* refund[r]: status of the refund row, "absent" if none
    cache,    \* cache[k]: entry under cache:payment:paymentId / orderId
    pc, fetched, \* per task: where it is, and the entry it found
    queue, held, acked, \* RabbitMQ: waiting, delivered, acknowledged events
    everPaid,   \* history: payments whose row ever said paid
    overlapped, \* history: payments with two refunds between sum and insert
    late,       \* history: tasks about to cache a row changed since
    stale,      \* history: keys left with such a row, or not evicted
    faults

queueVars == <<queue, held, acked>>
historyVars == <<everPaid, overlapped, late, stale>>
vars == <<latest, row, refund, cache, pc, fetched, queueVars, historyVars, faults>>

None == [payment |-> "none", status |-> "none"]
Missing == [payment |-> "missing", status |-> "missing"] \* not-found mark
Entries == [payment : Payments, status : PaymentStatuses] \cup {Missing}

KeyOf(t) ==
    CASE t \in Reports -> About[t]
      [] t \in Refunds -> RefundOf[t]
      [] t \in Shoppers -> OrderAsked[t]

TaskPlaces == {"idle", "fill", "update", "evict", "ok", "failed",
           "sum", "insert", "done"}

PaymentTypeOK ==
    /\ latest \in [Orders -> Payments \cup {"none"}]
    /\ row \in [Payments -> PaymentStatuses \cup {"missing"}]
    /\ refund \in [Refunds -> {"absent", "pending", "success"}]
    /\ cache \in [Keys -> Entries \cup {None}]
    /\ pc \in [Tasks -> TaskPlaces]
    /\ fetched \in [Tasks -> Entries]
    /\ queue \in Seq(Events) /\ held \in Seq(Events)
    /\ acked \subseteq Events
    /\ everPaid \subseteq Payments /\ overlapped \subseteq Payments
    /\ late \subseteq Tasks /\ stale \subseteq Keys
    /\ faults \in 0 .. MaxPaymentFaults

Init ==
    /\ latest = [o \in Orders |-> "none"]
    /\ row = [p \in Payments |-> "missing"]
    /\ refund = [r \in Refunds |-> "absent"]
    /\ cache = [k \in Keys |-> None]
    /\ pc = [t \in Tasks |-> "idle"]
    /\ fetched = [t \in Tasks |-> Missing]
    /\ queue = <<>> /\ held = <<>> /\ acked = {}
    /\ everPaid = {} /\ overlapped = {} /\ late = {} /\ stale = {}
    /\ faults = 0

Fault == faults < MaxPaymentFaults /\ faults' = faults + 1
Goto(t, place) == pc' = [pc EXCEPT ![t] = place]

-----------------------------------------------------------------------------
(* Rows and their cache.                                                   *)

\* CreatePayment inserts under a fresh id; it evicts no cache entry.
CreatePayment(p) ==
    /\ p \notin Unknown
    /\ row[p] = "missing"
    /\ row' = [row EXCEPT ![p] = "pending"]
    /\ latest' = [latest EXCEPT ![OrderOf[p]] = p]
    /\ UNCHANGED <<refund, cache, pc, fetched, queueVars, historyVars, faults>>

RowOf(p) == IF row[p] = "missing" THEN Missing
                                  ELSE [payment |-> p, status |-> row[p]]

\* ORDER BY create_time DESC LIMIT 1
LatestOf(o) == IF latest[o] = "none" THEN Missing ELSE RowOf(latest[o])

Query(k) == IF k \in Orders THEN LatestOf(k) ELSE RowOf(k)

\* Where a task goes when it ends: an event still has to be answered to the
\* broker, a refund is over, anything else may be asked for again.
EndOf(t, outcome) ==
    IF t \in Events THEN outcome ELSE IF t \in Refunds THEN "done" ELSE "idle"

\* Mutant: Refund does not look at the status of the payment.
OnceFoundUnchecked(t, found) ==
    IF found # Missing /\ t \in Reports THEN "update"
    ELSE IF found # Missing /\ t \in Refunds THEN "sum"
    ELSE EndOf(t, IF found = Missing THEN "failed" ELSE "ok")

\* What a handler does with the payment it found.
OnceFound(t, found) ==
    IF found # Missing /\ t \in Reports THEN "update"
    ELSE IF /\ found # Missing /\ t \in Refunds
            /\ found.status = "paid" /\ RefundAmount[t] <= Amount[RefundOf[t]] THEN "sum"
    ELSE EndOf(t, IF found = Missing THEN "failed" ELSE "ok")

\* FindOneByPaymentId, FindOneByOrderId: the cached entry, be it a row or the
\* mark of a row that was not found, or else the row, which is cached next.
Find(t) ==
    LET k == KeyOf(t) IN
    /\ pc[t] = "idle"
    /\ IF cache[k] # None
         THEN Goto(t, OnceFound(t, cache[k])) /\ UNCHANGED fetched
         ELSE Goto(t, "fill") /\ fetched' = [fetched EXCEPT ![t] = Query(k)]
    /\ UNCHANGED <<latest, row, refund, cache, queueVars, historyVars, faults>>

Fill(t) ==
    /\ pc[t] = "fill"
    /\ cache' = [cache EXCEPT ![KeyOf(t)] = fetched[t]]
    /\ stale' = IF t \in late THEN stale \cup {KeyOf(t)} ELSE stale \ {KeyOf(t)}
    /\ late' = late \ {t}
    /\ Goto(t, OnceFound(t, fetched[t]))
    /\ fetched' = [fetched EXCEPT ![t] = Missing]
    /\ UNCHANGED <<latest, row, refund, queueVars, everPaid, overlapped, faults>>

\* A cache entry reaches its time to live, or go-zero repeats the deletion
\* that failed.
Expire(k) ==
    /\ cache[k] # None
    /\ cache' = [cache EXCEPT ![k] = None]
    /\ stale' = stale \ {k}
    /\ UNCHANGED <<latest, row, refund, pc, fetched, queueVars, everPaid,
                   overlapped, late, faults>>

-----------------------------------------------------------------------------
(* Reports: PaymentCallback and processMessage.                            *)

KeysOf(m) == {About[m], OrderOf[About[m]]}

\* The UPDATE of paymentModel.Update.  The status is overwritten whatever
\* it was.
UpdateRow(m) ==
    /\ pc[m] = "update"
    /\ \/ /\ row' = [row EXCEPT ![About[m]] = Status[m]]
          /\ everPaid' = IF Status[m] = "paid" THEN everPaid \cup {About[m]}
                                               ELSE everPaid
          /\ late' = late \cup {t \in Tasks : pc[t] = "fill" /\ KeyOf(t) \in KeysOf(m)}
          /\ Goto(m, "evict")
          /\ UNCHANGED faults
       \/ /\ Fault
          /\ Goto(m, EndOf(m, "failed"))
          /\ UNCHANGED <<row, everPaid, late>>
    /\ UNCHANGED <<latest, refund, cache, fetched, queueVars, overlapped, stale>>

\* Mutant: only the entry under the payment id is evicted.
EvictIdOnly(m) == [cache EXCEPT ![About[m]] = None]

\* DelCacheCtx of both keys.
Evict(m) == [k \in Keys |-> IF k \in KeysOf(m) THEN None ELSE cache[k]]

\* go-zero reports a failed deletion to nobody; it repeats it later (Expire).
EvictRow(m) ==
    /\ pc[m] = "evict"
    /\ \/ cache' = Evict(m) /\ stale' = stale \ KeysOf(m) /\ UNCHANGED faults
       \/ Fault /\ stale' = stale \cup KeysOf(m) /\ UNCHANGED cache
    /\ Goto(m, EndOf(m, "ok"))
    /\ UNCHANGED <<latest, row, refund, fetched, queueVars, everPaid, overlapped, late>>

\* The publisher, a command-line tool, sends an event once.
Publish(m) ==
    /\ \A i \in 1 .. Len(queue) : queue[i] # m
    /\ \A i \in 1 .. Len(held) : held[i] # m
    /\ m \notin acked
    /\ queue' = Append(queue, m)
    /\ UNCHANGED <<latest, row, refund, cache, pc, fetched, held, acked, historyVars,
                   faults>>

\* The broker delivers as many messages as Qos allows.
Deliver ==
    /\ queue # <<>>
    /\ Len(held) < Prefetch
    /\ held' = Append(held, Head(queue))
    /\ queue' = Tail(queue)
    /\ UNCHANGED <<latest, row, refund, cache, pc, fetched, acked, historyVars, faults>>

\* The consumer handles one delivery at a time, in the order received.
Consume ==
    /\ held # <<>>
    /\ Find(Head(held))

\* Mutant: the failed message is not put back.
RequeuedNot == queue

\* Where the broker puts a message that was not acknowledged.
Requeued == <<Head(held)>> \o queue

AckOrNack ==
    /\ held # <<>>
    /\ LET m == Head(held) IN
          /\ \/ /\ pc[m] = "ok"
                /\ acked' = acked \cup {m}
                /\ UNCHANGED queue
             \/ /\ pc[m] = "failed"
                /\ queue' = Requeued
                /\ UNCHANGED acked
          /\ Goto(m, "idle")
    /\ held' = Tail(held)
    /\ UNCHANGED <<latest, row, refund, cache, fetched, historyVars, faults>>

\* The keys that m leaves behind if it dies now.
Unevicted(m) == IF pc[m] = "evict" THEN KeysOf(m) ELSE {}

\* The consumer or its connection dies: what it held is delivered again.
ConsumerCrash ==
    /\ held # <<>>
    /\ Fault
    /\ queue' = held \o queue
    /\ held' = <<>>
    /\ pc' = [t \in Tasks |-> IF t \in Events THEN "idle" ELSE pc[t]]
    /\ fetched' = [t \in Tasks |-> IF t \in Events THEN Missing ELSE fetched[t]]
    /\ late' = late \ Events
    /\ stale' = stale \cup UNION {Unevicted(m) : m \in Events}
    /\ UNCHANGED <<latest, row, refund, cache, acked, everPaid, overlapped>>

-----------------------------------------------------------------------------
(* Refund, after it found the payment.                                     *)

RefundsOf(p) == {r \in Refunds : RefundOf[r] = p}

\* What the refunds in R amount to: pairs of a refund and a unit of it.
Total(R) == Cardinality(UNION {{r} \X (1 .. RefundAmount[r]) : r \in R})

\* Mutant: SumRefundAmountByPaymentId leaves out what is still pending.
CountedSuccess(p) == {r \in RefundsOf(p) : refund[r] = "success"}

\* The rows SumRefundAmountByPaymentId adds up: status pending or success.
Counted(p) == {r \in RefundsOf(p) : refund[r] # "absent"}

CheckSum(r) ==
    LET p == RefundOf[r] IN
    /\ pc[r] = "sum"
    /\ IF Total(Counted(p)) + RefundAmount[r] <= Amount[p]
         THEN Goto(r, "insert") ELSE Goto(r, "done")
    /\ overlapped' = IF \E other \in RefundsOf(p) : pc[other] = "insert"
                       THEN overlapped \cup {p} ELSE overlapped
    /\ UNCHANGED <<latest, row, refund, cache, fetched, queueVars, everPaid, late,
                   stale, faults>>

\* The row is inserted (or not: two calls may generate the same refund id),
\* read back and set to success.  If it cannot be read the answer is success
\* all the same; if it cannot be updated the answer is failure.  Either way
\* it stays pending and counted, and nothing takes it up again.
InsertRefund(r) ==
    /\ pc[r] = "insert"
    /\ \/ refund' = [refund EXCEPT ![r] = "success"] /\ UNCHANGED faults
       \/ Fault /\ refund' = [refund EXCEPT ![r] = "pending"]
       \/ Fault /\ UNCHANGED refund
    /\ Goto(r, "done")
    /\ UNCHANGED <<latest, row, cache, fetched, queueVars, historyVars>>

\* A handler of the pay service dies.
HandlerCrash(t) ==
    /\ t \notin Events
    /\ pc[t] \notin {"idle", "done"}
    /\ Fault
    /\ Goto(t, EndOf(t, "failed"))
    /\ fetched' = [fetched EXCEPT ![t] = Missing]
    /\ late' = late \ {t}
    /\ stale' = stale \cup (IF t \in Reports THEN Unevicted(t) ELSE {})
    /\ UNCHANGED <<latest, row, refund, cache, queueVars, everPaid, overlapped>>

-----------------------------------------------------------------------------

TaskStep(t) ==
    \/ Fill(t)
    \/ t \in Reports /\ (UpdateRow(t) \/ EvictRow(t))
    \/ t \in Refunds /\ (CheckSum(t) \/ InsertRefund(t))

Next ==
    \/ \E p \in Payments : CreatePayment(p)
    \/ \E t \in Tasks \ Events : Find(t) \/ HandlerCrash(t)
    \/ \E t \in Tasks : TaskStep(t)
    \/ \E k \in Keys : Expire(k)
    \/ \E m \in Events : Publish(m)
    \/ Deliver \/ Consume \/ AckOrNack \/ ConsumerCrash

Spec == Init /\ [][Next]_vars

\* The consumer's loop goes on; the broker uses the room it has before the
\* consumer empties it again, at least from time to time; and an entry that
\* says "not found" expires: go-zero gives it a minute.
Fairness ==
    /\ \A m \in Events : WF_vars(TaskStep(m)) /\ SF_vars(Deliver /\ Head(queue) = m)
    /\ WF_vars(Consume) /\ WF_vars(AckOrNack)
    /\ \A p \in Payments : SF_vars(cache[p] = Missing /\ Expire(p))

FairSpec == Spec /\ Fairness

-----------------------------------------------------------------------------
(* Properties.                                                             *)

\* Unless two refunds of a payment ran between each other's sum and insert,
\* what its refund rows amount to never exceeds the payment, however many
\* refunds were cut short, left pending or asked for again.
RefundsWithinPayment ==
    \A p \in Payments \ overlapped :
        Total({r \in RefundsOf(p) : refund[r] # "absent"}) <= Amount[p]

\* Money only goes back on a payment that was reported as paid at some time,
\* although Refund decides on a cached status.
RefundsOnlyPaid == \A r \in Refunds : refund[r] # "absent" => RefundOf[r] \in everPaid

\* A cached status that is not that of the row has one of three causes: the
\* update is still to evict it; it could not, or died before it did; or a
\* reader cached late what it had read before the update.
StaleHasCause ==
    \A k \in Keys :
        cache[k] \in [payment : Payments, status : PaymentStatuses] =>
            \/ cache[k].status = row[cache[k].payment]
            \/ k \in stale
            \/ \E m \in Reports : pc[m] = "evict" /\ k \in KeysOf(m)

\* The event of a payment that exists is acknowledged in the end, although
\* events of unknown payments are requeued for ever, as long as these are
\* fewer than the messages the consumer may hold.
EventsArrive ==
    Cardinality({m \in Events : About[m] \in Unknown}) < Prefetch =>
        \A m \in Events :
            (m \in {queue[i] : i \in 1 .. Len(queue)} /\ row[About[m]] # "missing")
                ~> m \in acked
=============================================================================
