--------------------------- MODULE RabbitMQProofs ---------------------------
(***************************************************************************)
(* What goes over RabbitMQ, for any number of orders, items, consumers,    *)
(* messages, expiries, faults and crashes, and the client that carries it, *)
(* for any number of goroutines, channels, lost connections and faults.    *)
(*                                                                         *)
(* Order events: the inductive invariant says what a consumer in the       *)
(* middle of a message relies on, that nothing is handled that was not     *)
(* published, that the mark of a rollback event goes with the one consumer *)
(* that carries the event out, and where a cancellation is that no failure *)
(* has met.                                                                *)
(*                                                                         *)
(* Channel pool: the inductive invariant says that the places where an     *)
(* AMQP channel can be are apart and that every open channel is in one of  *)
(* them, how many connections there can have been, and what each stage of  *)
(* autoReconnect relies on.                                                *)
(***************************************************************************)
EXTENDS OrderEvents, ChannelPool, FiniteSetTheorems, SequenceTheorems, TLAPS


Created(o) == [kind |-> "created", order |-> o]
Cancel(o)  == [kind |-> "cancel", order |-> o]

Justified(o, p) ==
    p \in ItemsOf[o] /\ Created(o) \in published /\ Cancel(o) \in published

\* What a consumer knows of the message it handles.
HeldInv(x) ==
    /\ x.pc # "idle" => x.msg \in published
    /\ x.pc \in {"idle", "mark", "work", "record"} => ~x.stockOp /\ x.todo = {}
    /\ x.pc = "publish" => x.stockOp
    /\ x.pc = "notify" => x.todo = {}
    /\ x.pc = "notify" /\ x.stockOp => x.msg.kind = "cancel"
    /\ x.pc = "publish" => x.msg.kind = "cancel" /\ Created(x.msg.order) \in published
    /\ x.pc = "publish" => x.todo \in SUBSET ItemsOf[x.msg.order]
    /\ x.pc \in {"publish", "notify"} /\ x.stockOp =>
         \A p \in ItemsOf[x.msg.order] : p \in x.todo \/ Rollback(x.msg.order, p) \in published
    /\ x.pc # "idle" /\ x.msg.kind = "rollback" => x.pc \in {"work", "ack"}

\* Consumer c is about to carry out the rollback of p for o.
Carries(c, o, p) == consumer[c].pc = "work" /\ consumer[c].msg = Rollback(o, p)

\* A rollback event has its mark when it is, or was, carried out.
MarkInv ==
    \A o \in Orders, p \in Products :
        /\ handled[o][p] <= 1
        /\ handled[o][p] > 0 => Rollback(o, p) \in marks
        /\ \A c \in Consumers : Carries(c, o, p) =>
             handled[o][p] = 0 /\ Rollback(o, p) \in marks
        /\ \A c, d \in Consumers : Carries(c, o, p) /\ Carries(d, o, p) => c = d

TraceInv ==
    /\ \A m \in Messages : queue[m] > 0 => m \in published
    /\ \A o \in snapshots : Created(o) \in published
    /\ \A o \in Orders, p \in Products :
         /\ Rollback(o, p) \in published => Justified(o, p)
         /\ handled[o][p] > 0 => Rollback(o, p) \in published

EventsInv ==
    /\ QueuesTypeOK
    /\ \A c \in Consumers : HeldInv(consumer[c])
    /\ TraceInv
    /\ MarkInv
    /\ NoticeTruthful

\* Consumer c has the cancellation of o and is about to set its mark, or has
\* set it and is at work.
Marking(c, o) == consumer[c].msg = Cancel(o) /\ consumer[c].pc = "mark"
Working(c, o) ==
    consumer[c].msg = Cancel(o) /\ consumer[c].pc \in {"work", "publish", "record"}

\* What a cancellation leaves behind.
Through(o) == o \in reconcile \/ \A p \in ItemsOf[o] : Rollback(o, p) \in published

\* Unless it was cut short, a published cancellation is in its queue, in work
\* or through, and a marked one is not in its queue only; the same holds of a
\* rollback event.
QuietCancel(o) ==
    /\ Cancel(o) \in published =>
         \/ queue[Cancel(o)] > 0 \/ Through(o)
         \/ \E c \in Consumers : Marking(c, o) \/ Working(c, o)
    /\ Cancel(o) \in marks => Through(o) \/ \E c \in Consumers : Working(c, o)
QuietRollback(o, p) ==
    /\ Rollback(o, p) \in published =>
         \/ queue[Rollback(o, p)] > 0 \/ handled[o][p] > 0
         \/ \E c \in Consumers : Carries(c, o, p)
    /\ Rollback(o, p) \in marks =>
         handled[o][p] > 0 \/ \E c \in Consumers : Carries(c, o, p)

QuietInv ==
    /\ \A c \in Consumers, o \in Orders : Marking(c, o) => c \notin NotifyConsumers
    /\ \A o \in Orders :
         /\ Cancel(o) \in cutShort \/ QuietCancel(o)
         /\ \A p \in Products : Rollback(o, p) \in cutShort \/ QuietRollback(o, p)

ConsumerType == [pc : Stages, msg : Messages \cup {NoMessage},
                 todo : SUBSET Products, stockOp : BOOLEAN]
BudgetType == [announced : Nat, delayed : Nat, lapses : [Lapsing -> Nat], faults : Nat]

\* Consumer c moves and no other one.
Moves(c) ==
    /\ consumer' \in [Consumers -> ConsumerType]
    /\ \A d \in Consumers \ {c} : consumer'[d] = consumer[d]

-----------------------------------------------------------------------------
\* What messages look like.
LEMMA MessageShape ==
  ASSUME NEW m \in Messages
  PROVE  /\ m.order \in Orders
         /\ m.kind = "created" => m = Created(m.order)
         /\ m.kind = "cancel" => m = Cancel(m.order)
         /\ m.kind = "rollback" =>
              m.product \in Products /\ m = Rollback(m.order, m.product)
         /\ m # NoMessage
<1>1. CASE m \in External
  BY <1>1 DEF External, Outside, Created, Cancel, NoMessage
<1>2. CASE m \in Rollbacks
  BY <1>2 DEF Rollbacks, Rollback, NoMessage
<1>3. CASE m \in [kind : {"cancelled"}, order : Orders, stockOp : BOOLEAN]
  BY <1>3 DEF NoMessage
<1>4. CASE m \in [kind : {"reminder"}, order : Orders]
  BY <1>4 DEF NoMessage
<1> QED BY <1>1, <1>2, <1>3, <1>4 DEF Messages, Notices

LEMMA MessageKinds ==
  ASSUME NEW o \in Orders, NEW p \in Products, NEW b \in BOOLEAN
  PROVE  /\ Created(o) \in Messages /\ Cancel(o) \in Messages
         /\ [kind |-> "remind", order |-> o] \in Messages
         /\ Rollback(o, p) \in Messages /\ Cancelled(o, b) \in Messages
         /\ Reminder(o) \in Messages
BY DEF Created, Cancel, Rollback, Cancelled, Reminder, Messages, External, Outside,
       Rollbacks, Notices

\* A rollback event is its own mark.
LEMMA RollbackKey ==
  ASSUME NEW o \in Orders, NEW p \in Products
  PROVE  Key(Rollback(o, p)) = Rollback(o, p) /\ Rollback(o, p) \in Keys
<1>1. Key(Rollback(o, p)) = Rollback(o, p)
  BY DEF Key, Rollback
<1> QED BY <1>1, MessageKinds DEF Keys

LEMMA PublishKeeps ==
  ASSUME QueuesTypeOK, TraceInv, NEW m \in Messages, Publish(m)
  PROVE  /\ queue' \in [Messages -> Nat]
         /\ published' \in SUBSET Messages /\ published \subseteq published'
         /\ published' = published \cup {m}
         /\ \A n \in Messages : queue'[n] > 0 => n \in published'
BY DEF QueuesTypeOK, TraceInv, Publish

LEMMA GoMoves ==
  ASSUME QueuesTypeOK, NEW c \in Consumers, NEW stage \in Stages, Go(c, stage)
  PROVE  /\ Moves(c)
         /\ consumer'[c].pc = stage /\ consumer'[c].msg = consumer[c].msg
         /\ consumer'[c].todo = consumer[c].todo
         /\ consumer'[c].stockOp = consumer[c].stockOp
BY DEF QueuesTypeOK, ConsumerType, Go, Moves

LEMMA FinishMoves ==
  ASSUME QueuesTypeOK, NEW c \in Consumers, Finish(c)
  PROVE  /\ Moves(c)
         /\ consumer'[c] = Idle /\ consumer'[c].pc = "idle"
         /\ ~consumer'[c].stockOp /\ consumer'[c].todo = {}
<1>1. Idle \in ConsumerType
  BY DEF Idle, ConsumerType, Stages
<1> QED BY <1>1 DEF QueuesTypeOK, ConsumerType, Finish, Moves, Idle

LEMMA TakeMoves ==
  ASSUME QueuesTypeOK, NEW c \in Consumers, NEW m \in Messages, NEW stage \in Stages,
         Take(c, m, stage)
  PROVE  /\ Moves(c)
         /\ consumer'[c].pc = stage /\ consumer'[c].msg = m
         /\ ~consumer'[c].stockOp /\ consumer'[c].todo = {}
<1>1. [pc |-> stage, msg |-> m, todo |-> {}, stockOp |-> FALSE] \in ConsumerType
  BY DEF ConsumerType
<1> QED BY <1>1 DEF QueuesTypeOK, ConsumerType, Moves, Take

LEMMA FaultBudget ==
  ASSUME QueuesTypeOK, Fault
  PROVE  budget' \in BudgetType
BY DEF QueuesTypeOK, BudgetType, Fault

-----------------------------------------------------------------------------
\* A step of one consumer that carries nothing out.
LEMMA MoveStep ==
  ASSUME EventsInv, NEW c \in Consumers, Moves(c), HeldInv(consumer[c])',
         queue' \in [Messages -> Nat], published' \in SUBSET Messages,
         published \subseteq published',
         \A m \in Messages : queue'[m] > 0 => m \in published',
         \A o \in Orders, p \in Products :
             Rollback(o, p) \in published' => Rollback(o, p) \in published \/ Justified(o, p)',
         snapshots' \in SUBSET Orders, \A o \in snapshots' : Created(o) \in published',
         reconcile' \in SUBSET Orders,
         marks' \in SUBSET Keys,
         \A o \in Orders, p \in Products : Rollback(o, p) \in marks => Rollback(o, p) \in marks',
         \A o \in Orders, p \in Products : Carries(c, o, p)' =>
             Rollback(o, p) \notin marks /\ Rollback(o, p) \in marks',
         handled' = handled, budget' \in BudgetType, NoticeTruthful'
  PROVE  EventsInv'
<1>1. QueuesTypeOK'
  BY DEF EventsInv, QueuesTypeOK, Moves, ConsumerType, BudgetType
<1>2. ASSUME NEW d \in Consumers PROVE HeldInv(consumer[d])'
  <2>1. CASE d # c
    <3>1. consumer'[d] = consumer[d] /\ HeldInv(consumer[d])
      BY <2>1 DEF Moves, EventsInv
    <3> QED BY <3>1 DEF HeldInv
  <2> QED BY <2>1
<1>3. TraceInv'
  BY DEF EventsInv, TraceInv, Justified
<1>4. MarkInv'
  <2> SUFFICES ASSUME NEW o \in Orders, NEW p \in Products
               PROVE  /\ handled[o][p] <= 1
                      /\ handled[o][p] > 0 => Rollback(o, p) \in marks'
                      /\ \A d \in Consumers : Carries(d, o, p)' =>
                           handled[o][p] = 0 /\ Rollback(o, p) \in marks'
                      /\ \A d, e \in Consumers :
                           Carries(d, o, p)' /\ Carries(e, o, p)' => d = e
    BY DEF MarkInv
  <2>1. /\ handled[o][p] <= 1 /\ handled[o][p] \in Nat
        /\ handled[o][p] > 0 => Rollback(o, p) \in marks
        /\ \A d \in Consumers : Carries(d, o, p) =>
             handled[o][p] = 0 /\ Rollback(o, p) \in marks
        /\ \A d, e \in Consumers : Carries(d, o, p) /\ Carries(e, o, p) => d = e
    BY DEF EventsInv, MarkInv, QueuesTypeOK
  <2>2. \A d \in Consumers \ {c} : Carries(d, o, p)' <=> Carries(d, o, p)
    BY DEF Moves, Carries
  <2>3. Rollback(o, p) \in marks => Rollback(o, p) \in marks'
    OBVIOUS
  <2>4. Carries(c, o, p)' => Rollback(o, p) \notin marks /\ Rollback(o, p) \in marks'
    OBVIOUS
  <2> QED BY <2>1, <2>2, <2>3, <2>4
<1> QED BY <1>1, <1>2, <1>3, <1>4 DEF EventsInv

-----------------------------------------------------------------------------
\* A step of one consumer that publishes and receives nothing.
LEMMA LocalStep ==
  ASSUME EventsInv, NEW c \in Consumers, Moves(c), HeldInv(consumer[c])',
         UNCHANGED <<queue, published, handled>>,
         snapshots' \in SUBSET Orders, \A o \in snapshots' : Created(o) \in published,
         reconcile' \in SUBSET Orders,
         marks' \in SUBSET Keys, marks \subseteq marks',
         \A o \in Orders, p \in Products : ~Carries(c, o, p)',
         budget' \in BudgetType
  PROVE  EventsInv'
<1>1. /\ queue' \in [Messages -> Nat] /\ published' \in SUBSET Messages
      /\ published \subseteq published'
      /\ \A m \in Messages : queue'[m] > 0 => m \in published'
      /\ \A o \in snapshots' : Created(o) \in published'
  BY DEF EventsInv, QueuesTypeOK, TraceInv
<1>2. NoticeTruthful'
  BY DEF EventsInv, NoticeTruthful
<1>3. \A o \in Orders, p \in Products :
        Rollback(o, p) \in published' => Rollback(o, p) \in published \/ Justified(o, p)'
  OBVIOUS
<1> QED BY <1>1, <1>2, <1>3, MoveStep

LEMMA BudgetKept ==
  ASSUME EventsInv, UNCHANGED budget \/ Fault
  PROVE  budget' \in BudgetType
BY FaultBudget DEF EventsInv, QueuesTypeOK, BudgetType

LEMMA RedisKept ==
  ASSUME EventsInv, UNCHANGED redisVars
  PROVE  /\ snapshots' \in SUBSET Orders /\ \A o \in snapshots' : Created(o) \in published
         /\ reconcile' \in SUBSET Orders
         /\ marks' \in SUBSET Keys /\ marks \subseteq marks'
BY DEF EventsInv, QueuesTypeOK, TraceInv, redisVars

LEMMA AckStep ==
  ASSUME EventsInv, NEW c \in Consumers, Ack(c)
  PROVE  EventsInv'
<1>1. Moves(c) /\ consumer'[c] = Idle
  BY FinishMoves DEF EventsInv, Ack
<1>2. HeldInv(consumer[c])'
  BY <1>1 DEF HeldInv, Idle
<1>3. \A o \in Orders, p \in Products : ~Carries(c, o, p)'
  BY <1>1 DEF Carries, Idle
<1> QED BY <1>1, <1>2, <1>3, LocalStep, BudgetKept, RedisKept DEF Ack, brokerVars

LEMMA MarkStep ==
  ASSUME EventsInv, NEW c \in Consumers, Mark(c)
  PROVE  EventsInv'
<1> DEFINE stage == IF c \in NotifyConsumers THEN "ack" ELSE "work"
<1>1. Moves(c) /\ consumer'[c].pc = stage /\ consumer'[c].msg = consumer[c].msg
      /\ consumer'[c].todo = consumer[c].todo
      /\ consumer'[c].stockOp = consumer[c].stockOp
  <2>1. stage \in Stages /\ Go(c, stage)
    BY DEF Stages, Mark
  <2> QED BY <2>1, GoMoves DEF EventsInv
<1>2. /\ consumer[c].pc = "mark" /\ HeldInv(consumer[c])
      /\ consumer[c].msg \in Messages
  <2>1. consumer[c].pc = "mark" /\ HeldInv(consumer[c])
    BY DEF Mark, At, EventsInv
  <2> QED BY <2>1 DEF HeldInv, EventsInv, QueuesTypeOK
<1>3. consumer[c].msg.kind # "rollback"
  BY <1>2 DEF HeldInv
<1>4. HeldInv(consumer[c])'
  BY <1>1, <1>2, <1>3 DEF HeldInv, Mark, brokerVars
<1>5. \A o \in Orders, p \in Products : ~Carries(c, o, p)'
  BY <1>1, <1>3 DEF Carries, Rollback
<1>6. Key(Msg(c)) \in Keys
  BY <1>2 DEF Keys, Msg
<1>7. marks' \in SUBSET Keys /\ marks \subseteq marks'
  BY <1>6 DEF Mark, EventsInv, QueuesTypeOK
<1>8. /\ snapshots' \in SUBSET Orders /\ \A o \in snapshots' : Created(o) \in published
      /\ reconcile' \in SUBSET Orders
  BY DEF EventsInv, QueuesTypeOK, TraceInv, Mark
<1> HIDE DEF stage
<1> QED BY <1>1, <1>4, <1>5, <1>7, <1>8, LocalStep, BudgetKept DEF Mark, brokerVars

LEMMA KeepSnapshotStep ==
  ASSUME EventsInv, NEW c \in Consumers, KeepSnapshot(c)
  PROVE  EventsInv'
<1>1. Moves(c) /\ consumer'[c].pc = "ack" /\ consumer'[c].msg = consumer[c].msg
      /\ consumer'[c].todo = consumer[c].todo
      /\ consumer'[c].stockOp = consumer[c].stockOp
  BY GoMoves DEF EventsInv, KeepSnapshot, Stages
<1>2. /\ consumer[c].pc = "work" /\ HeldInv(consumer[c])
      /\ consumer[c].msg.kind = "created"
  BY DEF KeepSnapshot, At, Msg, EventsInv
<1>3. consumer[c].msg \in published /\ consumer[c].msg \in Messages
  BY <1>2 DEF HeldInv, EventsInv, QueuesTypeOK
<1>4. HeldInv(consumer[c])'
  BY <1>1, <1>2 DEF HeldInv, KeepSnapshot, brokerVars
<1>5. \A o \in Orders, p \in Products : ~Carries(c, o, p)'
  BY <1>1 DEF Carries
<1>6. Msg(c).order \in Orders /\ Created(Msg(c).order) \in published
  BY <1>2, <1>3, MessageShape DEF Msg
<1>7. snapshots' \in SUBSET Orders /\ \A o \in snapshots' : Created(o) \in published
  BY <1>6 DEF EventsInv, QueuesTypeOK, TraceInv, KeepSnapshot
<1>8. /\ reconcile' \in SUBSET Orders /\ marks' \in SUBSET Keys /\ marks \subseteq marks'
  BY DEF EventsInv, QueuesTypeOK, KeepSnapshot
<1> QED BY <1>1, <1>4, <1>5, <1>7, <1>8, LocalStep, BudgetKept DEF KeepSnapshot, brokerVars

LEMMA LoadSnapshotStep ==
  ASSUME EventsInv, NEW c \in Consumers, LoadSnapshot(c)
  PROVE  EventsInv'
<1>1. /\ consumer[c].pc = "work" /\ HeldInv(consumer[c])
      /\ consumer[c].msg.kind = "cancel" /\ consumer[c].msg \in Messages
      /\ consumer[c].msg \in published
  <2>1. /\ consumer[c].pc = "work" /\ HeldInv(consumer[c])
        /\ consumer[c].msg.kind = "cancel"
    BY DEF LoadSnapshot, At, Msg, EventsInv
  <2> QED BY <2>1 DEF HeldInv, EventsInv, QueuesTypeOK
<1>2. /\ UNCHANGED <<queue, published, handled>> /\ UNCHANGED redisVars
      /\ UNCHANGED budget \/ Fault
  BY DEF LoadSnapshot, brokerVars
<1>3. CASE Go(c, "record")
  <2>1. Moves(c) /\ consumer'[c].pc = "record" /\ consumer'[c].msg = consumer[c].msg
        /\ consumer'[c].todo = consumer[c].todo
        /\ consumer'[c].stockOp = consumer[c].stockOp
    BY <1>3, GoMoves DEF EventsInv, Stages
  <2>2. HeldInv(consumer[c])'
    BY <1>1, <1>2, <2>1 DEF HeldInv
  <2>3. \A o \in Orders, p \in Products : ~Carries(c, o, p)'
    BY <2>1 DEF Carries
  <2> QED BY <1>2, <2>1, <2>2, <2>3, LocalStep, BudgetKept, RedisKept
<1>4. CASE /\ Msg(c).order \in snapshots
           /\ consumer' = [consumer EXCEPT ![c].pc = "publish", ![c].stockOp = TRUE,
                                           ![c].todo = ItemsOf[Msg(c).order]]
  <2>1. /\ consumer[c].msg.order \in Orders
        /\ ItemsOf[consumer[c].msg.order] \in SUBSET Products
        /\ Created(consumer[c].msg.order) \in published
    BY <1>1, <1>4, MessageShape, EventsAssumption DEF EventsInv, TraceInv, Msg
  <2>2. Moves(c) /\ consumer'[c].pc = "publish" /\ consumer'[c].msg = consumer[c].msg
        /\ consumer'[c].todo = ItemsOf[consumer[c].msg.order]
        /\ consumer'[c].stockOp
    BY <1>4, <2>1 DEF Msg, EventsInv, QueuesTypeOK, ConsumerType, Moves, Stages
  <2>3. HeldInv(consumer[c])'
    BY <1>1, <1>2, <2>1, <2>2 DEF HeldInv
  <2>4. \A o \in Orders, p \in Products : ~Carries(c, o, p)'
    BY <2>2 DEF Carries
  <2> QED BY <1>2, <2>2, <2>3, <2>4, LocalStep, BudgetKept, RedisKept
<1> QED BY <1>3, <1>4 DEF LoadSnapshot

LEMMA StartReminderStep ==
  ASSUME EventsInv, NEW c \in Consumers, StartReminder(c)
  PROVE  EventsInv'
<1>1. Moves(c) /\ consumer'[c].pc = "notify" /\ consumer'[c].msg = consumer[c].msg
      /\ consumer'[c].todo = consumer[c].todo
      /\ consumer'[c].stockOp = consumer[c].stockOp
  BY GoMoves DEF EventsInv, StartReminder, Stages
<1>2. /\ consumer[c].pc = "work" /\ HeldInv(consumer[c])
      /\ consumer[c].msg.kind = "remind"
  BY DEF StartReminder, At, Msg, EventsInv
<1>3. HeldInv(consumer[c])'
  BY <1>1, <1>2 DEF HeldInv, StartReminder, brokerVars
<1>4. \A o \in Orders, p \in Products : ~Carries(c, o, p)'
  BY <1>1 DEF Carries
<1> QED BY <1>1, <1>3, <1>4, LocalStep, BudgetKept, RedisKept DEF StartReminder, brokerVars

LEMMA RecordMissingStep ==
  ASSUME EventsInv, NEW c \in Consumers, RecordMissing(c)
  PROVE  EventsInv'
<1>1. Moves(c) /\ consumer'[c].pc = "notify" /\ consumer'[c].msg = consumer[c].msg
      /\ consumer'[c].todo = consumer[c].todo
      /\ consumer'[c].stockOp = consumer[c].stockOp
  BY GoMoves DEF EventsInv, RecordMissing, Stages
<1>2. /\ consumer[c].pc = "record" /\ HeldInv(consumer[c])
      /\ consumer[c].msg \in Messages /\ consumer[c].msg.kind # "rollback"
  <2>1. consumer[c].pc = "record" /\ HeldInv(consumer[c])
    BY DEF RecordMissing, At, EventsInv
  <2> QED BY <2>1 DEF HeldInv, EventsInv, QueuesTypeOK
<1>3. HeldInv(consumer[c])'
  BY <1>1, <1>2 DEF HeldInv, RecordMissing, brokerVars
<1>4. \A o \in Orders, p \in Products : ~Carries(c, o, p)'
  BY <1>1 DEF Carries
<1>5. Msg(c).order \in Orders
  BY <1>2, MessageShape DEF Msg
<1>6. /\ snapshots' \in SUBSET Orders /\ \A o \in snapshots' : Created(o) \in published
      /\ reconcile' \in SUBSET Orders /\ marks' \in SUBSET Keys /\ marks \subseteq marks'
  BY <1>5 DEF EventsInv, QueuesTypeOK, TraceInv, RecordMissing
<1> QED BY <1>1, <1>3, <1>4, <1>6, LocalStep, BudgetKept DEF RecordMissing, brokerVars

\* Whatever ends the handling of a message, or has it delivered again.
LEMMA FinishStep ==
  ASSUME EventsInv, NEW c \in Consumers, Finish(c), UNCHANGED <<published, handled>>,
         UNCHANGED redisVars, UNCHANGED budget \/ Fault,
         queue' \in [Messages -> Nat],
         \A m \in Messages : queue'[m] > 0 => m \in published
  PROVE  EventsInv'
<1>1. Moves(c) /\ consumer'[c] = Idle
  BY FinishMoves DEF EventsInv
<1>2. HeldInv(consumer[c])'
  BY <1>1 DEF HeldInv, Idle
<1>3. \A o \in Orders, p \in Products : ~Carries(c, o, p)'
  BY <1>1 DEF Carries, Idle
<1>4. NoticeTruthful'
  BY DEF EventsInv, NoticeTruthful
<1>5. /\ published' \in SUBSET Messages /\ published \subseteq published'
      /\ \A o \in Orders, p \in Products :
           Rollback(o, p) \in published' => Rollback(o, p) \in published \/ Justified(o, p)'
  BY DEF EventsInv, QueuesTypeOK
<1> QED BY <1>1, <1>2, <1>3, <1>4, <1>5, BudgetKept, RedisKept, MoveStep

LEMMA CrashStep ==
  ASSUME EventsInv, NEW c \in Consumers, Crash(c)
  PROVE  EventsInv'
<1>1. consumer[c].msg \in published /\ consumer[c].msg \in Messages
  <2>1. consumer[c].pc # "idle" /\ HeldInv(consumer[c])
    BY DEF Crash, At, EventsInv
  <2> QED BY <2>1 DEF HeldInv, EventsInv, QueuesTypeOK
<1>2. /\ queue' \in [Messages -> Nat]
      /\ \A m \in Messages : queue'[m] > 0 => m \in published
  BY <1>1 DEF Crash, Msg, EventsInv, QueuesTypeOK, TraceInv
<1> QED BY <1>2, FinishStep DEF Crash

-----------------------------------------------------------------------------
\* A step of one consumer that publishes message m.
LEMMA PublishStep ==
  ASSUME EventsInv, NEW c \in Consumers, Moves(c), HeldInv(consumer[c])',
         NEW m \in Messages, Publish(m), UNCHANGED <<handled, budget>>,
         UNCHANGED redisVars,
         \A o \in Orders, p \in Products : m = Rollback(o, p) => Justified(o, p),
         \A o \in Orders : m = Cancelled(o, TRUE) =>
             \A p \in ItemsOf[o] : Rollback(o, p) \in published,
         \A o \in Orders, p \in Products : ~Carries(c, o, p)'
  PROVE  EventsInv'
<1>1. /\ queue' \in [Messages -> Nat]
      /\ published' \in SUBSET Messages /\ published \subseteq published'
      /\ published' = published \cup {m}
      /\ \A n \in Messages : queue'[n] > 0 => n \in published'
  BY PublishKeeps DEF EventsInv
<1>2. NoticeTruthful'
  BY <1>1 DEF EventsInv, NoticeTruthful
<1>3. \A o \in Orders, p \in Products :
        Rollback(o, p) \in published' => Rollback(o, p) \in published \/ Justified(o, p)'
  BY <1>1 DEF Justified
<1>4. /\ snapshots' \in SUBSET Orders /\ \A o \in snapshots' : Created(o) \in published'
      /\ reconcile' \in SUBSET Orders
      /\ marks' \in SUBSET Keys /\ marks \subseteq marks'
  BY <1>1, RedisKept
<1>5. budget' \in BudgetType
  BY BudgetKept
<1> QED BY <1>1, <1>2, <1>3, <1>4, <1>5, MoveStep

LEMMA PublishRollbackStep ==
  ASSUME EventsInv, NEW c \in Consumers, PublishRollback(c)
  PROVE  EventsInv'
<1> DEFINE o == consumer[c].msg.order
<1>1. consumer[c].pc = "publish" /\ HeldInv(consumer[c])
  BY DEF PublishRollback, At, EventsInv
<1>2. /\ consumer[c].msg \in Messages /\ consumer[c].msg \in published
      /\ consumer[c].msg.kind = "cancel" /\ consumer[c].stockOp
      /\ Created(o) \in published
      /\ consumer[c].todo \in SUBSET ItemsOf[o]
      /\ \A p \in ItemsOf[o] : p \in consumer[c].todo \/ Rollback(o, p) \in published
  BY <1>1 DEF HeldInv, EventsInv, QueuesTypeOK
<1>3. /\ o \in Orders /\ Cancel(o) \in published /\ ItemsOf[o] \in SUBSET Products
  BY <1>2, MessageShape, EventsAssumption
<1>4. CASE Finish(c) /\ Fault /\ UNCHANGED brokerVars
  <2>1. /\ queue' \in [Messages -> Nat]
        /\ \A m \in Messages : queue'[m] > 0 => m \in published
    BY <1>4 DEF brokerVars, EventsInv, QueuesTypeOK, TraceInv
  <2> QED BY <1>4, <2>1, FinishStep DEF PublishRollback, brokerVars
<1>5. ASSUME NEW p \in consumer[c].todo,
             consumer' = [consumer EXCEPT ![c].todo = @ \ {p},
                 ![c].pc = IF consumer[c].todo = {p} THEN "notify" ELSE "publish"],
             Publish(Rollback(Msg(c).order, p)), UNCHANGED budget
      PROVE  EventsInv'
  <2>1. /\ p \in Products /\ Rollback(o, p) \in Messages /\ Publish(Rollback(o, p))
        /\ Justified(o, p)
    BY <1>2, <1>3, <1>5, MessageKinds DEF Justified, Msg
  <2>2. /\ Moves(c) /\ consumer'[c].msg = consumer[c].msg
        /\ consumer'[c].todo = consumer[c].todo \ {p}
        /\ consumer'[c].pc = (IF consumer[c].todo = {p} THEN "notify" ELSE "publish")
        /\ consumer'[c].stockOp
    BY <1>2, <1>3, <1>5 DEF EventsInv, QueuesTypeOK, ConsumerType, Moves, Stages
  <2>3. published' = published \cup {Rollback(o, p)}
    BY <2>1 DEF Publish
  <2>4. HeldInv(consumer[c])'
    <3>1. consumer'[c].todo \in SUBSET ItemsOf[o]
      BY <1>2, <2>2
    <3>2. \A q \in ItemsOf[o] : q \in consumer'[c].todo \/ Rollback(o, q) \in published'
      BY <1>2, <2>2, <2>3
    <3>3. consumer'[c].pc = "notify" => consumer'[c].todo = {}
      BY <2>2
    <3> HIDE DEF o
    <3> QED BY <1>2, <2>2, <2>3, <3>1, <3>2, <3>3 DEF HeldInv, o
  <2>5. \A r \in Orders, q \in Products : ~Carries(c, r, q)'
    BY <2>2 DEF Carries
  <2>6. \A r \in Orders, q \in Products :
          Rollback(o, p) = Rollback(r, q) => Justified(r, q)
    <3>1. ASSUME NEW r \in Orders, NEW q \in Products, Rollback(o, p) = Rollback(r, q)
          PROVE  r = o /\ q = p
      BY <3>1 DEF Rollback
    <3> QED BY <2>1, <3>1
  <2>7. \A r \in Orders : Rollback(o, p) # Cancelled(r, TRUE)
    BY DEF Rollback, Cancelled
  <2> HIDE DEF o
  <2> QED BY <1>5, <2>1, <2>2, <2>4, <2>5, <2>6, <2>7, PublishStep DEF PublishRollback
<1> QED BY <1>4, <1>5 DEF PublishRollback

LEMMA PublishNoticeStep ==
  ASSUME EventsInv, NEW c \in Consumers, PublishNotice(c)
  PROVE  EventsInv'
<1> DEFINE o == consumer[c].msg.order
           m == IF consumer[c].msg.kind = "cancel"
                  THEN Cancelled(o, consumer[c].stockOp) ELSE Reminder(o)
<1>1. consumer[c].pc = "notify" /\ HeldInv(consumer[c])
  BY DEF PublishNotice, At, EventsInv
<1>2. /\ consumer[c].msg \in Messages /\ consumer[c].msg \in published
      /\ consumer[c].msg.kind # "rollback" /\ consumer[c].todo = {}
      /\ consumer[c].stockOp \in BOOLEAN
      /\ consumer[c].stockOp => \A p \in ItemsOf[o] : Rollback(o, p) \in published
  BY <1>1 DEF HeldInv, EventsInv, QueuesTypeOK
<1>3. o \in Orders
  BY <1>2, MessageShape
<1>4. CASE Finish(c) /\ Fault /\ UNCHANGED brokerVars
  <2>1. /\ queue' \in [Messages -> Nat]
        /\ \A n \in Messages : queue'[n] > 0 => n \in published
    BY <1>4 DEF brokerVars, EventsInv, QueuesTypeOK, TraceInv
  <2> QED BY <1>4, <2>1, FinishStep DEF PublishNotice, brokerVars
<1>5. CASE Publish(m) /\ Go(c, "ack") /\ UNCHANGED budget
  <2>1. m \in Messages
    BY <1>2, <1>3 DEF Cancelled, Reminder, Messages, Notices
  <2>2. /\ Moves(c) /\ consumer'[c].pc = "ack" /\ consumer'[c].msg = consumer[c].msg
        /\ consumer'[c].todo = consumer[c].todo
        /\ consumer'[c].stockOp = consumer[c].stockOp
    BY <1>5, GoMoves DEF EventsInv, Stages
  <2>3. published \subseteq published'
    BY <1>5 DEF Publish
  <2>4. HeldInv(consumer[c])'
    BY <1>2, <2>2, <2>3 DEF HeldInv
  <2>5. \A r \in Orders, q \in Products : ~Carries(c, r, q)'
    BY <2>2 DEF Carries
  <2>6. \A r \in Orders, q \in Products : m = Rollback(r, q) => Justified(r, q)
    BY DEF Rollback, Cancelled, Reminder
  <2>7. ASSUME NEW r \in Orders, m = Cancelled(r, TRUE)
        PROVE  \A q \in ItemsOf[r] : Rollback(r, q) \in published
    <3>1. r = o /\ consumer[c].stockOp
      BY <2>7, <1>2 DEF Cancelled, Reminder
    <3> QED BY <3>1, <1>2
  <2>8. UNCHANGED <<handled, budget>> /\ UNCHANGED redisVars
    BY <1>5 DEF PublishNotice
  <2> HIDE DEF m
  <2> QED BY <1>5, <2>1, <2>2, <2>4, <2>5, <2>6, <2>7, <2>8, PublishStep
<1> QED BY <1>4, <1>5 DEF PublishNotice, Msg

-----------------------------------------------------------------------------
\* Consumer c takes message m and will not carry a rollback out for it, or
\* is the one that has just set its mark.
LEMMA TakeStep ==
  ASSUME EventsInv, NEW c \in Consumers, NEW m \in Messages, NEW stage \in Stages,
         Take(c, m, stage), stage \in {"mark", "work", "ack"},
         m.kind = "rollback" => stage \in {"work", "ack"},
         UNCHANGED <<published, snapshots, reconcile, handled>>,
         marks' \in SUBSET Keys, marks \subseteq marks',
         UNCHANGED budget \/ Fault,
         \A o \in Orders, p \in Products : m = Rollback(o, p) /\ stage = "work" =>
             Rollback(o, p) \notin marks /\ Rollback(o, p) \in marks'
  PROVE  EventsInv'
<1>1. /\ Moves(c) /\ consumer'[c].pc = stage /\ consumer'[c].msg = m
      /\ ~consumer'[c].stockOp /\ consumer'[c].todo = {}
  BY TakeMoves DEF EventsInv
<1>2. /\ queue' \in [Messages -> Nat]
      /\ \A n \in Messages : queue'[n] > 0 => n \in published'
      /\ m \in published
  BY DEF Take, EventsInv, QueuesTypeOK, TraceInv
<1>3. HeldInv(consumer[c])'
  BY <1>1, <1>2 DEF HeldInv
<1>4. NoticeTruthful'
  BY DEF EventsInv, NoticeTruthful
<1>5. /\ published' \in SUBSET Messages /\ published \subseteq published'
      /\ \A o \in Orders, p \in Products :
           Rollback(o, p) \in published' => Rollback(o, p) \in published \/ Justified(o, p)'
      /\ snapshots' \in SUBSET Orders /\ \A o \in snapshots' : Created(o) \in published'
      /\ reconcile' \in SUBSET Orders
  BY DEF EventsInv, QueuesTypeOK, TraceInv
<1>6. \A o \in Orders, p \in Products : Carries(c, o, p)' =>
        Rollback(o, p) \notin marks /\ Rollback(o, p) \in marks'
  BY <1>1 DEF Carries
<1>7. \A o \in Orders, p \in Products : Rollback(o, p) \in marks => Rollback(o, p) \in marks'
  OBVIOUS
<1>8. budget' \in BudgetType
  BY BudgetKept
<1> QED BY <1>1, <1>2, <1>3, <1>4, <1>5, <1>6, <1>7, <1>8, MoveStep

LEMMA LookStep ==
  ASSUME EventsInv, NEW c \in Consumers, NEW m \in Messages, Look(c, m)
  PROVE  EventsInv'
<1>1. PICK stage \in {"mark", "ack"} : Take(c, m, stage) /\ (UNCHANGED budget \/ Fault)
  BY DEF Look
<1>2. m.kind # "rollback"
  BY <1>1 DEF Take, Reads, Look
<1>3. \A o \in Orders, p \in Products : m # Rollback(o, p)
  BY <1>2 DEF Rollback
<1>4. /\ UNCHANGED <<published, snapshots, reconcile, handled>>
      /\ marks' \in SUBSET Keys /\ marks \subseteq marks'
  BY DEF Look, redisVars, EventsInv, QueuesTypeOK
<1>5. stage \in Stages
  BY DEF Stages
<1> QED BY <1>1, <1>2, <1>3, <1>4, <1>5, TakeStep

LEMMA ClaimStep ==
  ASSUME EventsInv, NEW c \in Consumers, NEW m \in Messages, Claim(c, m)
  PROVE  EventsInv'
<1> DEFINE stage == IF Key(m) \in marks THEN "ack" ELSE "work"
<1>1. /\ Take(c, m, stage) /\ stage \in {"work", "ack"} /\ stage \in Stages
      /\ UNCHANGED <<published, snapshots, reconcile, handled, budget>>
      /\ marks' = marks \cup {Key(m)}
  BY DEF Claim, Stages
<1>2. marks' \in SUBSET Keys /\ marks \subseteq marks' /\ Key(m) \in marks'
  BY <1>1 DEF Keys, EventsInv, QueuesTypeOK
<1>3. ASSUME NEW o \in Orders, NEW p \in Products, m = Rollback(o, p), stage = "work"
      PROVE  Rollback(o, p) \notin marks /\ Rollback(o, p) \in marks'
  BY <1>2, <1>3, RollbackKey
<1> HIDE DEF stage
<1> QED BY <1>1, <1>2, <1>3, TakeStep

-----------------------------------------------------------------------------
\* A step that moves no consumer and leaves the marks of rollback events.
LEMMA StillStep ==
  ASSUME EventsInv, UNCHANGED <<consumer, handled, snapshots, reconcile>>,
         queue' \in [Messages -> Nat], published' \in SUBSET Messages,
         published \subseteq published',
         \A m \in Messages : queue'[m] > 0 => m \in published',
         \A o \in Orders, p \in Products :
             Rollback(o, p) \in published' => Rollback(o, p) \in published,
         marks' \in SUBSET Keys,
         \A o \in Orders, p \in Products : Rollback(o, p) \in marks => Rollback(o, p) \in marks',
         budget' \in BudgetType, NoticeTruthful'
  PROVE  EventsInv'
<1>1. QueuesTypeOK'
  BY DEF EventsInv, QueuesTypeOK, BudgetType
<1>2. ASSUME NEW d \in Consumers PROVE HeldInv(consumer[d])'
  <2>1. consumer'[d] = consumer[d] /\ HeldInv(consumer[d])
    BY DEF EventsInv
  <2> QED BY <2>1 DEF HeldInv
<1>3. TraceInv'
  BY DEF EventsInv, TraceInv, Justified
<1>4. MarkInv'
  BY DEF EventsInv, MarkInv, Carries
<1> QED BY <1>1, <1>2, <1>3, <1>4 DEF EventsInv

\* An event from outside the consumers.
LEMMA OutsideStep ==
  ASSUME EventsInv, NEW m \in External, Publish(m), UNCHANGED <<consumer, handled>>,
         UNCHANGED redisVars, budget' \in BudgetType
  PROVE  EventsInv'
<1>1. m \in Messages /\ m.kind \in Outside
  BY DEF Messages, External
<1>2. /\ queue' \in [Messages -> Nat]
      /\ published' \in SUBSET Messages /\ published \subseteq published'
      /\ published' = published \cup {m}
      /\ \A n \in Messages : queue'[n] > 0 => n \in published'
  BY <1>1, PublishKeeps DEF EventsInv
<1>3. \A o \in Orders : m # Cancelled(o, TRUE) /\ \A p \in Products : m # Rollback(o, p)
  BY <1>1 DEF Outside, Cancelled, Rollback
<1>4. NoticeTruthful'
  BY <1>2, <1>3 DEF EventsInv, NoticeTruthful
<1>5. marks' \in SUBSET Keys /\ marks \subseteq marks'
  BY RedisKept
<1> QED BY <1>2, <1>3, <1>4, <1>5, StillStep DEF redisVars

LEMMA AnnounceStep ==
  ASSUME EventsInv, NEW o \in Orders,
         \/ Announce(o)
         \/ PublishDelayMessage(o, "cancel")
         \/ PublishDelayMessage(o, "remind")
  PROVE  EventsInv'
<1>1. budget' \in BudgetType
  <2>1. budget \in BudgetType
    BY DEF EventsInv, QueuesTypeOK, BudgetType
  <2>2. CASE Announce(o)
    BY <2>1, <2>2 DEF BudgetType, Announce
  <2>3. CASE PublishDelayMessage(o, "cancel") \/ PublishDelayMessage(o, "remind")
    <3>1. budget.delayed > 0 /\ budget' = [budget EXCEPT !.delayed = @ - 1]
      BY <2>3 DEF PublishDelayMessage
    <3> QED BY <2>1, <3>1 DEF BudgetType
  <2> QED BY <2>2, <2>3
<1>2. PICK kind \in Outside : Publish([kind |-> kind, order |-> o])
  BY DEF Outside, Announce, PublishDelayMessage
<1>3. [kind |-> kind, order |-> o] \in External
  BY DEF External
<1> QED BY <1>1, <1>2, <1>3, OutsideStep DEF Announce, PublishDelayMessage

\* The first thing the failed call of ClaimFails may have done is to set the
\* mark: the rollback is then carried out by nobody.
LEMMA ClaimFailsStep ==
  ASSUME EventsInv, NEW c \in Consumers, NEW m \in Messages, ClaimFails(c, m)
  PROVE  EventsInv'
<1>1. /\ UNCHANGED <<consumer, handled, snapshots, reconcile>>
      /\ UNCHANGED <<queue, published>>
  BY DEF ClaimFails, brokerVars
<1>2. marks' \in SUBSET Keys /\ marks \subseteq marks'
  BY DEF ClaimFails, Keys, EventsInv, QueuesTypeOK
<1>3. NoticeTruthful' /\ budget' \in BudgetType
  BY <1>1, BudgetKept DEF EventsInv, NoticeTruthful, ClaimFails
<1>4. /\ queue' \in [Messages -> Nat] /\ published' \in SUBSET Messages
      /\ \A n \in Messages : queue'[n] > 0 => n \in published'
  BY <1>1 DEF EventsInv, QueuesTypeOK, TraceInv
<1> QED BY <1>1, <1>2, <1>3, <1>4, StillStep

LEMMA LapseStep ==
  ASSUME EventsInv, NEW k \in Keys, LapseMark(k)
  PROVE  EventsInv'
<1>1. /\ UNCHANGED <<consumer, handled, snapshots, reconcile>>
      /\ UNCHANGED <<queue, published>>
  BY DEF LapseMark, brokerVars
<1>2. /\ marks' \in SUBSET Keys
      /\ \A o \in Orders, p \in Products : Rollback(o, p) \in marks => Rollback(o, p) \in marks'
  <2>1. k.kind # "rollback" /\ marks' = marks \ {k}
    BY DEF LapseMark, Lapsing, Outside
  <2> QED BY <2>1 DEF EventsInv, QueuesTypeOK, Rollback
<1>3. NoticeTruthful'
  BY <1>1 DEF EventsInv, NoticeTruthful
<1>4. /\ queue' \in [Messages -> Nat] /\ published' \in SUBSET Messages
      /\ \A n \in Messages : queue'[n] > 0 => n \in published'
  BY <1>1 DEF EventsInv, QueuesTypeOK, TraceInv
<1>5. budget' \in BudgetType
  BY DEF EventsInv, QueuesTypeOK, BudgetType, LapseMark
<1> QED BY <1>1, <1>2, <1>3, <1>4, <1>5, StillStep

-----------------------------------------------------------------------------
\* The rollback of an item: the one consumer that could carry it out has.
LEMMA HandleRollbackStep ==
  ASSUME EventsInv, NEW c \in Consumers, HandleRollback(c)
  PROVE  EventsInv'
<1> DEFINE o == consumer[c].msg.order
           p == consumer[c].msg.product
<1>1. /\ consumer[c].pc = "work" /\ HeldInv(consumer[c])
      /\ consumer[c].msg.kind = "rollback"
      /\ UNCHANGED <<queue, published, marks, snapshots, reconcile, budget>>
      /\ handled' = [handled EXCEPT ![o][p] = @ + 1]
      /\ Go(c, "ack")
  BY DEF HandleRollback, At, Msg, EventsInv, brokerVars, redisVars
<1>2. consumer[c].msg \in Messages /\ consumer[c].msg \in published
  BY <1>1 DEF HeldInv, EventsInv, QueuesTypeOK
<1>3. o \in Orders /\ p \in Products /\ consumer[c].msg = Rollback(o, p)
  BY <1>1, <1>2, MessageShape
<1>4. /\ Moves(c) /\ consumer'[c].pc = "ack" /\ consumer'[c].msg = consumer[c].msg
      /\ consumer'[c].todo = consumer[c].todo
      /\ consumer'[c].stockOp = consumer[c].stockOp
  BY <1>1, GoMoves DEF EventsInv, Stages
<1>5. Carries(c, o, p) /\ handled \in [Orders -> [Products -> Nat]]
  BY <1>1, <1>3 DEF Carries, EventsInv, QueuesTypeOK
<1> HIDE DEF o, p
<1>6. handled[o][p] = 0 /\ Rollback(o, p) \in marks
      /\ \A d \in Consumers : Carries(d, o, p) => d = c
  BY <1>3, <1>5 DEF EventsInv, MarkInv
<1>7. /\ handled' \in [Orders -> [Products -> Nat]]
      /\ handled'[o][p] = 1
      /\ \A r \in Orders, q \in Products : r # o \/ q # p => handled'[r][q] = handled[r][q]
  BY <1>1, <1>3, <1>5, <1>6
<1>8. QueuesTypeOK'
  BY <1>1, <1>4, <1>7 DEF EventsInv, QueuesTypeOK, Moves, ConsumerType
<1>9. ASSUME NEW d \in Consumers PROVE HeldInv(consumer[d])'
  <2>1. CASE d = c
    BY <1>1, <1>4, <2>1 DEF HeldInv
  <2>2. CASE d # c
    <3>1. consumer'[d] = consumer[d] /\ HeldInv(consumer[d])
      BY <1>4, <2>2 DEF Moves, EventsInv
    <3> QED BY <1>1, <3>1 DEF HeldInv
  <2> QED BY <2>1, <2>2
<1>10. TraceInv'
  <2>1. \A r \in Orders, q \in Products :
          /\ Rollback(r, q) \in published => Justified(r, q)
          /\ handled'[r][q] > 0 => Rollback(r, q) \in published
    BY <1>2, <1>3, <1>7 DEF EventsInv, TraceInv
  <2> QED BY <1>1, <2>1 DEF EventsInv, TraceInv, Justified
<1>11. \A d \in Consumers, r \in Orders, q \in Products :
         Carries(d, r, q)' => d # c /\ Carries(d, r, q)
  BY <1>4 DEF Carries, Moves
<1>12. MarkInv'
  <2> SUFFICES ASSUME NEW r \in Orders, NEW q \in Products
               PROVE  /\ handled'[r][q] <= 1
                      /\ handled'[r][q] > 0 => Rollback(r, q) \in marks
                      /\ \A d \in Consumers : Carries(d, r, q)' =>
                           handled'[r][q] = 0 /\ Rollback(r, q) \in marks
                      /\ \A d, e \in Consumers :
                           Carries(d, r, q)' /\ Carries(e, r, q)' => d = e
    BY <1>1 DEF MarkInv
  <2>1. /\ handled[r][q] <= 1
        /\ handled[r][q] > 0 => Rollback(r, q) \in marks
        /\ \A d \in Consumers : Carries(d, r, q) =>
             handled[r][q] = 0 /\ Rollback(r, q) \in marks
        /\ \A d, e \in Consumers : Carries(d, r, q) /\ Carries(e, r, q) => d = e
    BY DEF EventsInv, MarkInv
  <2>2. CASE r = o /\ q = p
    BY <1>6, <1>7, <1>11, <2>1, <2>2
  <2>3. CASE r # o \/ q # p
    BY <1>7, <1>11, <2>1, <2>3
  <2> QED BY <2>2, <2>3
<1>13. NoticeTruthful'
  BY <1>1 DEF EventsInv, NoticeTruthful
<1> QED BY <1>8, <1>9, <1>10, <1>12, <1>13 DEF EventsInv

-----------------------------------------------------------------------------
LEMMA InitHolds ==
  ASSUME Init
  PROVE  EventsInv
<1>1. Idle \in ConsumerType
  BY DEF Idle, ConsumerType, Stages
<1>2. QueuesTypeOK
  BY <1>1, EventsAssumption DEF Init, QueuesTypeOK, ConsumerType
<1>3. \A c \in Consumers : HeldInv(consumer[c])
  BY DEF Init, HeldInv, Idle
<1>4. TraceInv
  BY DEF Init, TraceInv
<1>5. MarkInv
  BY DEF Init, MarkInv, Carries, Idle
<1>6. NoticeTruthful
  BY DEF Init, NoticeTruthful
<1> QED BY <1>2, <1>3, <1>4, <1>5, <1>6 DEF EventsInv

LEMMA StutterHolds ==
  ASSUME EventsInv, UNCHANGED vars
  PROVE  EventsInv'
<1>1. UNCHANGED <<consumer, handled, snapshots, reconcile, queue, published, marks, budget>>
  BY DEF vars, brokerVars, redisVars
<1>2. NoticeTruthful' /\ budget' \in BudgetType
  BY <1>1, BudgetKept DEF EventsInv, NoticeTruthful
<1>3. /\ queue' \in [Messages -> Nat] /\ published' \in SUBSET Messages
      /\ marks' \in SUBSET Keys
      /\ \A m \in Messages : queue'[m] > 0 => m \in published'
  BY <1>1 DEF EventsInv, QueuesTypeOK, TraceInv
<1> QED BY <1>1, <1>2, <1>3, StillStep

LEMMA NextHolds ==
  ASSUME EventsInv, Next
  PROVE  EventsInv'
<1>1. CASE \E o \in Orders : Announce(o) \/ PublishDelayMessage(o, "cancel")
                              \/ PublishDelayMessage(o, "remind")
  BY <1>1, AnnounceStep
<1>2. CASE \E c \in Consumers : Handle(c) \/ Crash(c)
  BY <1>2, MarkStep, KeepSnapshotStep, HandleRollbackStep, LoadSnapshotStep,
     PublishRollbackStep, RecordMissingStep, StartReminderStep, PublishNoticeStep,
     AckStep, CrashStep DEF Handle
<1>3. CASE \E c \in Consumers, m \in Messages : Receive(c, m)
  BY <1>3, LookStep, ClaimStep, ClaimFailsStep DEF Receive
<1>4. CASE \E k \in Keys : LapseMark(k)
  BY <1>4, LapseStep
<1> QED BY <1>1, <1>2, <1>3, <1>4 DEF Next

\* The inductive invariant of the order events: a consumer in the middle of
\* a cancellation knows which rollback events it has published, and the mark
\* of a rollback event belongs to one consumer.
THEOREM EventsInvariant == Spec => []EventsInv
<1>1. Init => EventsInv
  BY InitHolds
<1>2. EventsInv /\ [Next]_vars => EventsInv'
  BY NextHolds, StutterHolds
<1> QED BY <1>1, <1>2, PTL DEF Spec

CutShortTypeOK == cutShort \in SUBSET Messages

\* What is cut short is a message that a consumer holds or gets.
LEMMA CutShortType ==
  ASSUME EventsInv, CutShortTypeOK, [Next]_vars
  PROVE  CutShortTypeOK'
<1>0. cutShort \in SUBSET Messages
  BY DEF CutShortTypeOK
<1>1. ASSUME NEW c \in Consumers, consumer[c].pc # "idle", CutShort(c)
      PROVE  cutShort' \in SUBSET Messages
  <2>1. consumer[c].msg \in Messages
    BY <1>1 DEF EventsInv, QueuesTypeOK, HeldInv
  <2> QED BY <1>0, <1>1, <2>1 DEF CutShort, Msg
<1>2. ASSUME NEW c \in Consumers, Handle(c) PROVE cutShort' \in SUBSET Messages
  <2>1. consumer[c].pc # "idle"
    BY <1>2 DEF Handle, Mark, KeepSnapshot, HandleRollback, LoadSnapshot, PublishRollback,
                RecordMissing, StartReminder, PublishNotice, Ack, At
  <2>2. UNCHANGED cutShort \/ CutShort(c)
    BY <1>2 DEF Handle, Mark, KeepSnapshot, HandleRollback, LoadSnapshot, PublishRollback,
                RecordMissing, StartReminder, PublishNotice, Ack
  <2> QED BY <1>0, <1>1, <2>1, <2>2
<1>3. ASSUME NEW c \in Consumers, Crash(c) PROVE cutShort' \in SUBSET Messages
  BY <1>0, <1>1, <1>3 DEF Crash, At
<1>4. ASSUME NEW c \in Consumers, NEW m \in Messages, Receive(c, m)
      PROVE  cutShort' \in SUBSET Messages
  BY <1>0, <1>4 DEF Receive, Look, Claim, ClaimFails
<1>5. ASSUME NEW o \in Orders, \/ Announce(o) \/ PublishDelayMessage(o, "cancel")
                               \/ PublishDelayMessage(o, "remind")
      PROVE  cutShort' = cutShort
  BY <1>5 DEF Announce, PublishDelayMessage
<1>6. ASSUME NEW k \in Keys, LapseMark(k) PROVE cutShort' = cutShort
  BY <1>6 DEF LapseMark
<1>7. ASSUME UNCHANGED vars PROVE cutShort' = cutShort
  BY <1>7 DEF vars
<1> QED BY <1>0, <1>2, <1>3, <1>4, <1>5, <1>6, <1>7 DEF Next, CutShortTypeOK

\* Queues, consumers and Redis keys keep their types.
THEOREM EventsTypeCorrect == Spec => []EventsTypeOK
<1>1. Init => CutShortTypeOK
  BY DEF Init, CutShortTypeOK
<1>2. EventsInv /\ CutShortTypeOK /\ [Next]_vars => CutShortTypeOK'
  BY CutShortType
<1>3. EventsInv /\ CutShortTypeOK => EventsTypeOK
  BY DEF EventsInv, CutShortTypeOK, EventsTypeOK
<1> QED BY <1>1, <1>2, <1>3, EventsInvariant, PTL DEF Spec

\* However often an order is cancelled and its events are published and
\* delivered, each rollback event reaches its handler at most once
\* (checkDuplicate).
THEOREM RollbackHandledOnce == Spec => []HandledOnce
<1>1. EventsInv => HandledOnce
  BY DEF EventsInv, MarkInv, HandledOnce
<1> QED BY <1>1, EventsInvariant, PTL

\* A notification that the stock was handled is published only after all its
\* rollback events (handleOrderCancellation).
THEOREM NoticeAlwaysTruthful == Spec => []NoticeTruthful
<1>1. EventsInv => NoticeTruthful
  BY DEF EventsInv
<1> QED BY <1>1, EventsInvariant, PTL

\* Rollback events that reach their handler are of items of an announced and
\* cancelled order.
THEOREM RollbackAlwaysJustified == Spec => []RollbackJustified
<1>1. EventsInv => RollbackJustified
  BY DEF EventsInv, TraceInv, RollbackJustified, Justified, Created, Cancel
<1> QED BY <1>1, EventsInvariant, PTL

-----------------------------------------------------------------------------
(* Cancellations that no failure cuts short.                               *)

LEMMA QuietStep ==
  ASSUME EventsInv, QuietInv,
         published \subseteq published', reconcile \subseteq reconcile',
         cutShort \subseteq cutShort',
         \A o \in Orders, p \in Products : handled[o][p] > 0 => handled'[o][p] > 0,
         \A m \in Messages : m \in published' => m \in published \/ queue'[m] > 0,
         \A c \in Consumers, o \in Orders : Marking(c, o)' => c \notin NotifyConsumers,
         \A o \in Orders : queue[Cancel(o)] > 0 =>
             \/ queue'[Cancel(o)] > 0 \/ Cancel(o) \in marks
             \/ \E c \in Consumers : Marking(c, o)' \/ Working(c, o)',
         \A c \in Consumers, o \in Orders : Marking(c, o) =>
             Marking(c, o)' \/ Working(c, o)' \/ queue'[Cancel(o)] > 0,
         \A c \in Consumers, o \in Orders : Working(c, o) =>
             \/ Working(c, o)' \/ Through(o)' \/ Cancel(o) \in cutShort'
             \/ queue'[Cancel(o)] > 0 /\ Cancel(o) \notin marks',
         \A o \in Orders : Cancel(o) \in marks' =>
             Cancel(o) \in marks \/ \E c \in Consumers : Working(c, o)',
         \A o \in Orders, p \in Products : queue[Rollback(o, p)] > 0 =>
             \/ queue'[Rollback(o, p)] > 0 \/ Rollback(o, p) \in marks
             \/ \E c \in Consumers : Carries(c, o, p)',
         \A c \in Consumers, o \in Orders, p \in Products : Carries(c, o, p) =>
             Carries(c, o, p)' \/ handled'[o][p] > 0 \/ Rollback(o, p) \in cutShort',
         \A o \in Orders, p \in Products : Rollback(o, p) \in marks' =>
             \/ Rollback(o, p) \in marks \/ Rollback(o, p) \in cutShort'
             \/ \E c \in Consumers : Carries(c, o, p)'
  PROVE  QuietInv'
<1>1. ASSUME NEW o \in Orders, Cancel(o) \notin cutShort' PROVE QuietCancel(o)'
  <2>1. QuietCancel(o)
    BY <1>1 DEF QuietInv
  <2>2. Through(o) => Through(o)'
    BY DEF Through
  <2>3. Cancel(o) \in published' => Cancel(o) \in published \/ queue'[Cancel(o)] > 0
    BY MessageKinds DEF Cancel, Messages, External, Outside
  <2> QED BY <1>1, <2>1, <2>2, <2>3 DEF QuietCancel
<1>2. ASSUME NEW o \in Orders, NEW p \in Products, Rollback(o, p) \notin cutShort'
      PROVE  QuietRollback(o, p)'
  <2>1. QuietRollback(o, p)
    BY <1>2 DEF QuietInv
  <2>2. Rollback(o, p) \in published' => Rollback(o, p) \in published \/ queue'[Rollback(o, p)] > 0
    BY DEF Rollback, Messages, Rollbacks
  <2> QED BY <1>2, <2>1, <2>2 DEF QuietRollback
<1> QED BY <1>1, <1>2 DEF QuietInv

\* A step of one consumer.
LEMMA QuietMove ==
  ASSUME EventsInv, QuietInv, NEW c \in Consumers, Moves(c),
         published \subseteq published', reconcile \subseteq reconcile',
         cutShort \subseteq cutShort',
         \A o \in Orders, p \in Products : handled[o][p] > 0 => handled'[o][p] > 0,
         \A m \in Messages : m \in published' => m \in published \/ queue'[m] > 0,
         \A o \in Orders :
             /\ Marking(c, o)' => c \notin NotifyConsumers
             /\ queue[Cancel(o)] > 0 =>
                  queue'[Cancel(o)] > 0 \/ Marking(c, o)' \/ Cancel(o) \in marks
             /\ Marking(c, o) => Working(c, o)' \/ queue'[Cancel(o)] > 0
             /\ Working(c, o) =>
                  \/ Working(c, o)' \/ Through(o)' \/ Cancel(o) \in cutShort'
                  \/ queue'[Cancel(o)] > 0 /\ Cancel(o) \notin marks'
             /\ Cancel(o) \in marks' => Cancel(o) \in marks \/ Working(c, o)',
         \A o \in Orders, p \in Products :
             /\ queue[Rollback(o, p)] > 0 =>
                  \/ queue'[Rollback(o, p)] > 0 \/ Rollback(o, p) \in marks
                  \/ Carries(c, o, p)'
             /\ Carries(c, o, p) => handled'[o][p] > 0 \/ Rollback(o, p) \in cutShort'
             /\ Rollback(o, p) \in marks' => Rollback(o, p) \in marks \/ Carries(c, o, p)'
  PROVE  QuietInv'
<1>1. \A d \in Consumers \ {c}, o \in Orders :
        /\ Marking(d, o)' <=> Marking(d, o)
        /\ Working(d, o)' <=> Working(d, o)
  BY DEF Moves, Marking, Working
<1>2. \A d \in Consumers \ {c}, o \in Orders, p \in Products :
        Carries(d, o, p)' <=> Carries(d, o, p)
  BY DEF Moves, Carries
<1>3. \A d \in Consumers, o \in Orders : Marking(d, o)' => d \notin NotifyConsumers
  BY <1>1 DEF QuietInv
<1>4. \A d \in Consumers, o \in Orders : Marking(d, o) =>
        Marking(d, o)' \/ Working(d, o)' \/ queue'[Cancel(o)] > 0
  BY <1>1
<1>5. \A d \in Consumers, o \in Orders : Working(d, o) =>
        \/ Working(d, o)' \/ Through(o)' \/ Cancel(o) \in cutShort'
        \/ queue'[Cancel(o)] > 0 /\ Cancel(o) \notin marks'
  BY <1>1
<1>6. \A d \in Consumers, o \in Orders, p \in Products : Carries(d, o, p) =>
        Carries(d, o, p)' \/ handled'[o][p] > 0 \/ Rollback(o, p) \in cutShort'
  BY <1>2
<1>7. \A o \in Orders : queue[Cancel(o)] > 0 =>
        \/ queue'[Cancel(o)] > 0 \/ Cancel(o) \in marks
        \/ \E d \in Consumers : Marking(d, o)' \/ Working(d, o)'
  OBVIOUS
<1>8. \A o \in Orders : Cancel(o) \in marks' =>
        Cancel(o) \in marks \/ \E d \in Consumers : Working(d, o)'
  OBVIOUS
<1>9. \A o \in Orders, p \in Products : queue[Rollback(o, p)] > 0 =>
        \/ queue'[Rollback(o, p)] > 0 \/ Rollback(o, p) \in marks
        \/ \E d \in Consumers : Carries(d, o, p)'
  OBVIOUS
<1>10. \A o \in Orders, p \in Products : Rollback(o, p) \in marks' =>
         \/ Rollback(o, p) \in marks \/ Rollback(o, p) \in cutShort'
         \/ \E d \in Consumers : Carries(d, o, p)'
  OBVIOUS
<1> QED BY <1>3, <1>4, <1>5, <1>6, <1>7, <1>8, <1>9, <1>10, QuietStep

\* A step of one consumer that ends or has nothing to do with the marks.
LEMMA AsideMove ==
  ASSUME EventsInv, QuietInv, NEW c \in Consumers, Moves(c), cutShort \subseteq cutShort',
         \A o \in Orders :
             /\ ~Marking(c, o) /\ ~Marking(c, o)'
             /\ Working(c, o) => Working(c, o)' \/ Through(o)' \/ Cancel(o) \in cutShort',
         \A o \in Orders, p \in Products : ~Carries(c, o, p),
         UNCHANGED <<handled, marks>>, reconcile \subseteq reconcile',
         UNCHANGED <<queue, published>> \/ \E m \in Messages : Publish(m)
  PROVE  QuietInv'
<1>1. /\ published \subseteq published'
      /\ \A m \in Messages : m \in published' => m \in published \/ queue'[m] > 0
      /\ \A m \in Messages : queue[m] > 0 => queue'[m] > 0
  <2>1. CASE UNCHANGED <<queue, published>>
    BY <2>1
  <2>2. ASSUME NEW m \in Messages, Publish(m) PROVE <1>1!:
    BY <2>2 DEF Publish, EventsInv, QueuesTypeOK
  <2> QED BY <2>1, <2>2
<1>2. \A o \in Orders : Cancel(o) \in Messages
  BY DEF Cancel, Messages, External, Outside
<1>3. \A o \in Orders, p \in Products : Rollback(o, p) \in Messages
  BY DEF Rollback, Messages, Rollbacks
<1>4. \A o \in Orders :
        /\ Marking(c, o)' => c \notin NotifyConsumers
        /\ queue[Cancel(o)] > 0 =>
             queue'[Cancel(o)] > 0 \/ Marking(c, o)' \/ Cancel(o) \in marks
        /\ Marking(c, o) => Working(c, o)' \/ queue'[Cancel(o)] > 0
        /\ Working(c, o) =>
             \/ Working(c, o)' \/ Through(o)' \/ Cancel(o) \in cutShort'
             \/ queue'[Cancel(o)] > 0 /\ Cancel(o) \notin marks'
        /\ Cancel(o) \in marks' => Cancel(o) \in marks \/ Working(c, o)'
  BY <1>1, <1>2
<1>5. \A o \in Orders, p \in Products :
        /\ queue[Rollback(o, p)] > 0 =>
             \/ queue'[Rollback(o, p)] > 0 \/ Rollback(o, p) \in marks
             \/ Carries(c, o, p)'
        /\ Carries(c, o, p) => handled'[o][p] > 0 \/ Rollback(o, p) \in cutShort'
        /\ Rollback(o, p) \in marks' => Rollback(o, p) \in marks \/ Carries(c, o, p)'
  BY <1>1, <1>3
<1> QED BY <1>1, <1>4, <1>5, QuietMove

LEMMA QuietAck ==
  ASSUME EventsInv, QuietInv, NEW c \in Consumers, Ack(c)
  PROVE  QuietInv'
<1>1. Moves(c) /\ consumer'[c].pc = "idle" /\ consumer[c].pc = "ack"
  BY FinishMoves DEF EventsInv, Ack, At
<1> QED BY <1>1, AsideMove DEF Ack, brokerVars, redisVars, Marking, Working, Carries

LEMMA QuietKeepSnapshot ==
  ASSUME EventsInv, QuietInv, NEW c \in Consumers, KeepSnapshot(c)
  PROVE  QuietInv'
<1>1. /\ Moves(c) /\ consumer'[c].pc = "ack"
      /\ consumer[c].pc = "work" /\ consumer[c].msg.kind = "created"
  BY GoMoves DEF EventsInv, KeepSnapshot, At, Msg, Stages
<1>2. \A o \in Orders : ~Working(c, o) /\ ~Marking(c, o) /\ ~Marking(c, o)'
  BY <1>1 DEF Working, Marking, Cancel
<1>3. \A o \in Orders, p \in Products : ~Carries(c, o, p)
  BY <1>1 DEF Carries, Rollback
<1>4. UNCHANGED <<handled, marks, reconcile, queue, published, cutShort>>
  BY DEF KeepSnapshot, brokerVars
<1> QED BY <1>1, <1>2, <1>3, <1>4, AsideMove

LEMMA QuietStartReminder ==
  ASSUME EventsInv, QuietInv, NEW c \in Consumers, StartReminder(c)
  PROVE  QuietInv'
<1>1. /\ Moves(c) /\ consumer'[c].pc = "notify"
      /\ consumer[c].pc = "work" /\ consumer[c].msg.kind = "remind"
  BY GoMoves DEF EventsInv, StartReminder, At, Msg, Stages
<1>2. \A o \in Orders : ~Working(c, o) /\ ~Marking(c, o) /\ ~Marking(c, o)'
  BY <1>1 DEF Working, Marking, Cancel
<1>3. \A o \in Orders, p \in Products : ~Carries(c, o, p)
  BY <1>1 DEF Carries, Rollback
<1>4. UNCHANGED <<handled, marks, reconcile, queue, published, cutShort>>
  BY DEF StartReminder, brokerVars, redisVars
<1> QED BY <1>1, <1>2, <1>3, <1>4, AsideMove

LEMMA QuietLoadSnapshot ==
  ASSUME EventsInv, QuietInv, NEW c \in Consumers, LoadSnapshot(c)
  PROVE  QuietInv'
<1>1. /\ consumer[c].pc = "work" /\ consumer[c].msg.kind = "cancel"
      /\ HeldInv(consumer[c])
  BY DEF LoadSnapshot, At, Msg, EventsInv
<1>2. consumer[c].msg \in Messages
  BY <1>1 DEF HeldInv, EventsInv, QueuesTypeOK
<1>3. /\ Moves(c) /\ consumer'[c].pc \in {"publish", "record"}
      /\ consumer'[c].msg = consumer[c].msg
  <2>1. CASE Go(c, "record")
    BY <2>1, GoMoves DEF EventsInv, Stages
  <2>2. CASE consumer' = [consumer EXCEPT ![c].pc = "publish", ![c].stockOp = TRUE,
                                          ![c].todo = ItemsOf[Msg(c).order]]
    <3>1. ItemsOf[consumer[c].msg.order] \in SUBSET Products
      BY <1>1, <1>2, MessageShape, EventsAssumption
    <3>2. /\ Moves(c) /\ consumer'[c].pc = "publish" /\ consumer'[c].msg = consumer[c].msg
          /\ consumer'[c].todo = ItemsOf[consumer[c].msg.order]
          /\ consumer'[c].stockOp
      BY <2>2, <3>1 DEF Msg, EventsInv, QueuesTypeOK, ConsumerType, Moves, Stages
    <3> QED BY <3>2
  <2> QED BY <2>1, <2>2 DEF LoadSnapshot
<1>4. \A o \in Orders :
        ~Marking(c, o) /\ ~Marking(c, o)' /\ (Working(c, o) => Working(c, o)')
  BY <1>1, <1>3 DEF Working, Marking
<1>5. \A o \in Orders, p \in Products : ~Carries(c, o, p)
  BY <1>1 DEF Carries, Rollback
<1>6. UNCHANGED <<handled, marks, reconcile, queue, published, cutShort>>
  BY DEF LoadSnapshot, brokerVars, redisVars
<1> QED BY <1>3, <1>4, <1>5, <1>6, AsideMove

LEMMA QuietRecordMissing ==
  ASSUME EventsInv, QuietInv, NEW c \in Consumers, RecordMissing(c)
  PROVE  QuietInv'
<1>1. /\ Moves(c) /\ consumer'[c].pc = "notify" /\ consumer[c].pc = "record"
  BY GoMoves DEF EventsInv, RecordMissing, At, Stages
<1>2. \A o \in Orders, p \in Products : ~Carries(c, o, p)
  BY <1>1 DEF Carries
<1>3. \A o \in Orders : ~Marking(c, o) /\ ~Marking(c, o)'
  BY <1>1 DEF Marking
<1>4. UNCHANGED <<handled, marks, queue, published>>
  BY DEF RecordMissing, brokerVars
<1>5. CASE Fault /\ CutShort(c) /\ UNCHANGED reconcile
  <2>1. cutShort' = cutShort \cup {consumer[c].msg}
    BY <1>5 DEF CutShort, Msg
  <2>2. \A o \in Orders : Working(c, o) => Cancel(o) \in cutShort'
    BY <2>1 DEF Working
  <2> QED BY <1>1, <1>2, <1>3, <1>4, <1>5, <2>1, <2>2, AsideMove
<1>6. CASE reconcile' = reconcile \cup {Msg(c).order} /\ UNCHANGED <<cutShort, budget>>
  <2>1. \A o \in Orders : Working(c, o) => Through(o)'
    BY <1>6 DEF Working, Msg, Cancel, Through
  <2> QED BY <1>1, <1>2, <1>3, <1>4, <1>6, <2>1, AsideMove
<1> QED BY <1>5, <1>6 DEF RecordMissing

LEMMA QuietPublishRollback ==
  ASSUME EventsInv, QuietInv, NEW c \in Consumers, PublishRollback(c)
  PROVE  QuietInv'
<1>1. /\ consumer[c].pc = "publish" /\ HeldInv(consumer[c])
  BY DEF PublishRollback, At, EventsInv
<1>2. /\ consumer[c].msg \in Messages /\ consumer[c].msg.kind = "cancel"
      /\ consumer[c].stockOp /\ consumer[c].todo \in SUBSET ItemsOf[consumer[c].msg.order]
      /\ \A p \in ItemsOf[consumer[c].msg.order] :
           p \in consumer[c].todo \/ Rollback(consumer[c].msg.order, p) \in published
  BY <1>1 DEF HeldInv, EventsInv, QueuesTypeOK
<1>3. /\ consumer[c].msg.order \in Orders
      /\ ItemsOf[consumer[c].msg.order] \in SUBSET Products
  BY <1>2, MessageShape, EventsAssumption
<1>4. CASE Finish(c) /\ Fault /\ CutShort(c) /\ UNCHANGED brokerVars
  <2>1. Moves(c) /\ consumer'[c].pc = "idle"
    BY <1>4, FinishMoves DEF EventsInv
  <2>2. cutShort' = cutShort \cup {consumer[c].msg}
    BY <1>4 DEF CutShort, Msg
  <2>3. \A o \in Orders :
          ~Marking(c, o) /\ ~Marking(c, o)' /\ (Working(c, o) => Cancel(o) \in cutShort')
    BY <1>1, <2>1, <2>2 DEF Marking, Working
  <2>4. \A o \in Orders, q \in Products : ~Carries(c, o, q)
    BY <1>1 DEF Carries
  <2>5. UNCHANGED <<handled, marks, reconcile, queue, published>>
    BY <1>4 DEF PublishRollback, redisVars, brokerVars
  <2> QED BY <2>1, <2>2, <2>3, <2>4, <2>5, AsideMove
<1>5. ASSUME NEW p \in consumer[c].todo,
             consumer' = [consumer EXCEPT ![c].todo = @ \ {p},
                 ![c].pc = IF consumer[c].todo = {p} THEN "notify" ELSE "publish"],
             Publish(Rollback(Msg(c).order, p)), UNCHANGED <<cutShort, budget>>
      PROVE  QuietInv'
  <2>1. /\ Moves(c) /\ consumer'[c].msg = consumer[c].msg
        /\ consumer'[c].todo = consumer[c].todo \ {p} /\ consumer'[c].stockOp
        /\ consumer'[c].pc = (IF consumer[c].todo = {p} THEN "notify" ELSE "publish")
    BY <1>2, <1>3, <1>5 DEF EventsInv, QueuesTypeOK, ConsumerType, Moves, Stages
  <2>2. Rollback(Msg(c).order, p) \in Messages
    BY <1>2, <1>3 DEF Msg, Rollback, Messages, Rollbacks
  <2>3. ASSUME NEW o \in Orders, Working(c, o) PROVE Working(c, o)' \/ Through(o)'
    <3>1. CASE consumer[c].todo = {p}
      <4>1. consumer[c].msg.order = o
        BY <2>3 DEF Working, Cancel
      <4>2. published' = published \cup {Rollback(o, p)}
        BY <1>5, <4>1 DEF Publish, Msg
      <4> QED BY <1>2, <3>1, <4>1, <4>2 DEF Through
    <3>2. CASE consumer[c].todo # {p}
      BY <2>1, <2>3, <3>2 DEF Working
    <3> QED BY <3>1, <3>2
  <2>4. \A o \in Orders : ~Marking(c, o) /\ ~Marking(c, o)'
    BY <1>1, <2>1 DEF Marking
  <2>5. \A o \in Orders, q \in Products : ~Carries(c, o, q)
    BY <1>1 DEF Carries
  <2>6. UNCHANGED <<handled, marks, reconcile>>
    BY DEF PublishRollback, redisVars
  <2> QED BY <1>5, <2>1, <2>2, <2>3, <2>4, <2>5, <2>6, AsideMove
<1> QED BY <1>4, <1>5 DEF PublishRollback

LEMMA QuietPublishNotice ==
  ASSUME EventsInv, QuietInv, NEW c \in Consumers, PublishNotice(c)
  PROVE  QuietInv'
<1> DEFINE m == IF Msg(c).kind = "cancel"
                  THEN Cancelled(Msg(c).order, consumer[c].stockOp)
                  ELSE Reminder(Msg(c).order)
<1>1. consumer[c].pc = "notify" /\ HeldInv(consumer[c])
  BY DEF PublishNotice, At, EventsInv
<1>2. consumer[c].msg \in Messages /\ consumer[c].stockOp \in BOOLEAN
  BY <1>1 DEF HeldInv, EventsInv, QueuesTypeOK
<1>3. Moves(c) /\ consumer'[c].pc \in {"idle", "ack"}
  BY GoMoves, FinishMoves DEF PublishNotice, EventsInv, Stages
<1>4. m \in Messages
  BY <1>2, MessageShape DEF Msg, Cancelled, Reminder, Messages, Notices
<1>5. \A o \in Orders : ~Working(c, o) /\ ~Marking(c, o) /\ ~Marking(c, o)'
  BY <1>1, <1>3 DEF Working, Marking
<1>6. \A o \in Orders, p \in Products : ~Carries(c, o, p)
  BY <1>1 DEF Carries
<1>7. UNCHANGED <<handled, marks, reconcile, cutShort>>
  BY DEF PublishNotice, redisVars
<1>8. Publish(m) \/ UNCHANGED <<queue, published>>
  BY DEF PublishNotice, brokerVars
<1> HIDE DEF m
<1> QED BY <1>3, <1>4, <1>5, <1>6, <1>7, <1>8, AsideMove

\* A consumer that dies gives its message back; it is cut short if its mark is
\* set and its work is not done.
LEMMA QuietCrash ==
  ASSUME EventsInv, QuietInv, NEW c \in Consumers, Crash(c)
  PROVE  QuietInv'
<1> DEFINE m == consumer[c].msg
<1>1. Moves(c) /\ consumer'[c].pc = "idle" /\ consumer[c].pc # "idle" /\ HeldInv(consumer[c])
  BY FinishMoves DEF EventsInv, Crash, At
<1>2. m \in Messages /\ queue \in [Messages -> Nat]
  BY <1>1 DEF HeldInv, EventsInv, QueuesTypeOK
<1>3. queue' = [queue EXCEPT ![m] = @ + 1]
  BY DEF Crash, Msg
<1>4. /\ UNCHANGED <<published, marks, reconcile, handled>>
      /\ cutShort \subseteq cutShort'
      /\ AtWork(c) => m \in cutShort'
  BY DEF Crash, redisVars, CutShort, Msg
<1> HIDE DEF m
<1>5. queue'[m] > 0 /\ \A n \in Messages : queue[n] > 0 => queue'[n] > 0
  BY <1>2, <1>3
<1>6. ASSUME NEW o \in Orders
      PROVE  /\ ~Marking(c, o)' /\ (queue[Cancel(o)] > 0 => queue'[Cancel(o)] > 0)
             /\ Marking(c, o) => queue'[Cancel(o)] > 0
             /\ Working(c, o) =>
                  \/ Cancel(o) \in cutShort'
                  \/ queue'[Cancel(o)] > 0 /\ Cancel(o) \notin marks
  <2>1. Cancel(o) \in Messages /\ Key(Cancel(o)) = Cancel(o)
    BY DEF Cancel, Messages, External, Outside, Key
  <2>2. ~Marking(c, o)' /\ (Marking(c, o) => m = Cancel(o))
    BY <1>1 DEF Marking, m
  <2>3. Working(c, o) => m = Cancel(o) /\ (Cancel(o) \in marks => AtWork(c))
    BY <2>1 DEF Working, AtWork, Msg, m
  <2> QED BY <1>4, <1>5, <2>1, <2>2, <2>3
<1>7. ASSUME NEW o \in Orders, NEW p \in Products
      PROVE  /\ queue[Rollback(o, p)] > 0 => queue'[Rollback(o, p)] > 0
             /\ Carries(c, o, p) => Rollback(o, p) \in cutShort'
  <2>1. Rollback(o, p) \in Messages /\ Key(Rollback(o, p)) = Rollback(o, p)
    BY RollbackKey DEF Rollback, Messages, Rollbacks
  <2>2. Carries(c, o, p) => Rollback(o, p) \in marks
    BY DEF EventsInv, MarkInv
  <2>3. Carries(c, o, p) => m = Rollback(o, p) /\ AtWork(c)
    BY <2>1, <2>2 DEF Carries, AtWork, Msg, m
  <2> QED BY <1>4, <1>5, <2>1, <2>3
<1> QED BY <1>1, <1>4, <1>6, <1>7, QuietMove

\* The mark is set before the work, so a marked cancellation is in work.
LEMMA QuietMark ==
  ASSUME EventsInv, QuietInv, NEW c \in Consumers, Mark(c)
  PROVE  QuietInv'
<1> DEFINE stage == IF c \in NotifyConsumers THEN "ack" ELSE "work"
<1>1. stage \in Stages /\ Go(c, stage)
  BY DEF Stages, Mark
<1>2. Moves(c) /\ consumer'[c].pc = stage /\ consumer'[c].msg = consumer[c].msg
  BY <1>1, GoMoves DEF EventsInv
<1>3. consumer[c].pc = "mark" /\ HeldInv(consumer[c])
  BY DEF Mark, At, EventsInv
<1>4. consumer[c].msg \in Messages /\ consumer[c].msg.kind # "rollback"
  BY <1>3 DEF HeldInv, EventsInv, QueuesTypeOK
<1>5. marks' = marks \/ marks' = marks \cup {Key(Msg(c))}
  BY DEF Mark
<1>6. UNCHANGED <<queue, published, reconcile, handled, cutShort>>
  BY DEF Mark, brokerVars
<1>7. ASSUME NEW o \in Orders
      PROVE  /\ ~Marking(c, o)' /\ ~Working(c, o)
             /\ Marking(c, o) => Working(c, o)'
             /\ Cancel(o) \in marks' => Cancel(o) \in marks \/ Working(c, o)'
  <2>1. ~Marking(c, o)' /\ ~Working(c, o)
    BY <1>2, <1>3 DEF Marking, Working
  <2>2. consumer[c].msg = Cancel(o) => Working(c, o)'
    <3>1. Marking(c, o) => c \notin NotifyConsumers
      BY DEF QuietInv
    <3> QED BY <1>2, <1>3, <3>1 DEF Marking, Working
  <2>3. Key(Msg(c)) = Cancel(o) => Msg(c) = Cancel(o)
    BY DEF Key, Cancel
  <2> QED BY <1>5, <2>1, <2>2, <2>3 DEF Marking, Msg
<1>8. ASSUME NEW o \in Orders, NEW p \in Products
      PROVE  /\ ~Carries(c, o, p)
             /\ Rollback(o, p) \in marks' => Rollback(o, p) \in marks
  <2>1. Key(Msg(c)) # Rollback(o, p)
    BY <1>4 DEF Key, Msg, Rollback
  <2> QED BY <1>3, <1>5, <2>1 DEF Carries
<1> HIDE DEF stage
<1> QED BY <1>2, <1>6, <1>7, <1>8, QuietMove

LEMMA QuietHandleRollback ==
  ASSUME EventsInv, QuietInv, NEW c \in Consumers, HandleRollback(c)
  PROVE  QuietInv'
<1>1. /\ consumer[c].pc = "work" /\ consumer[c].msg.kind = "rollback"
      /\ HeldInv(consumer[c])
      /\ UNCHANGED <<queue, published, marks, reconcile, cutShort>>
      /\ handled' = [handled EXCEPT ![consumer[c].msg.order][consumer[c].msg.product] = @ + 1]
  BY DEF HandleRollback, At, Msg, EventsInv, brokerVars, redisVars
<1>2. consumer[c].msg \in Messages
  BY <1>1 DEF HeldInv, EventsInv, QueuesTypeOK
<1>3. Moves(c) /\ consumer'[c].pc = "ack"
  BY GoMoves DEF EventsInv, HandleRollback, Stages
<1>4. \A o \in Orders : ~Working(c, o) /\ ~Marking(c, o) /\ ~Marking(c, o)'
  BY <1>1, <1>3 DEF Working, Marking, Cancel
<1>5. ASSUME NEW o \in Orders, NEW p \in Products
      PROVE  /\ handled[o][p] > 0 => handled'[o][p] > 0
             /\ Carries(c, o, p) => handled'[o][p] > 0
  <2>1. handled \in [Orders -> [Products -> Nat]]
    BY DEF EventsInv, QueuesTypeOK
  <2>2. consumer[c].msg = Rollback(o, p) => handled'[o][p] = handled[o][p] + 1
    BY <1>1, <2>1 DEF Rollback
  <2>3. handled'[o][p] \in {handled[o][p], handled[o][p] + 1}
    BY <1>1, <1>2, <2>1, MessageShape
  <2> QED BY <2>1, <2>2, <2>3 DEF Carries
<1> QED BY <1>1, <1>3, <1>4, <1>5, QuietMove

\* A message that is taken is marked already, or its consumer goes to work.
LEMMA QuietLook ==
  ASSUME EventsInv, QuietInv, NEW c \in Consumers, NEW m \in Messages, Look(c, m)
  PROVE  QuietInv'
<1>1. PICK stage \in {"mark", "ack"} :
         Take(c, m, stage) /\ (stage = "ack" => Key(m) \in marks \/ c \in NotifyConsumers)
  BY DEF Look
<1>2. Moves(c) /\ consumer'[c].pc = stage /\ consumer'[c].msg = m
  BY <1>1, TakeMoves DEF EventsInv, Stages
<1>3. /\ consumer[c].pc = "idle" /\ m.kind \in Reads(c) /\ c \notin StockConsumers
      /\ queue' = [queue EXCEPT ![m] = @ - 1]
  BY <1>1 DEF Take, At, Look
<1>4. m.kind # "rollback" /\ (m.kind = "cancel" => c \notin NotifyConsumers)
  BY <1>3, EventsAssumption DEF Reads
<1>5. \A o \in Orders : Marking(c, o)' => c \notin NotifyConsumers
  BY <1>2, <1>4 DEF Marking, Cancel
<1>6. UNCHANGED <<published, marks, reconcile, handled, cutShort>>
  BY DEF Look, redisVars
<1>7. \A n \in Messages : n # m => queue'[n] = queue[n]
  BY <1>3 DEF EventsInv, QueuesTypeOK
<1>8. ASSUME NEW o \in Orders
      PROVE  /\ ~Marking(c, o) /\ ~Working(c, o)
             /\ queue[Cancel(o)] > 0 =>
                  queue'[Cancel(o)] > 0 \/ Marking(c, o)' \/ Cancel(o) \in marks
  <2>1. Cancel(o) \in Messages /\ Key(Cancel(o)) = Cancel(o) /\ Cancel(o).kind = "cancel"
    BY DEF Cancel, Messages, External, Outside, Key
  <2>2. m = Cancel(o) => Marking(c, o)' \/ Cancel(o) \in marks
    BY <1>1, <1>2, <1>4, <2>1 DEF Marking
  <2> QED BY <1>3, <1>7, <2>1, <2>2 DEF Marking, Working
<1>9. ASSUME NEW o \in Orders, NEW p \in Products
      PROVE  ~Carries(c, o, p) /\ (queue[Rollback(o, p)] > 0 => queue'[Rollback(o, p)] > 0)
  <2>1. Rollback(o, p) \in Messages /\ Rollback(o, p) # m
    BY <1>4 DEF Rollback, Messages, Rollbacks
  <2> QED BY <1>3, <1>7, <2>1 DEF Carries
<1> QED BY <1>2, <1>5, <1>6, <1>8, <1>9, QuietMove

LEMMA QuietClaim ==
  ASSUME EventsInv, QuietInv, NEW c \in Consumers, NEW m \in Messages, Claim(c, m)
  PROVE  QuietInv'
<1> DEFINE stage == IF Key(m) \in marks THEN "ack" ELSE "work"
<1>1. /\ Take(c, m, stage) /\ stage \in Stages /\ c \in StockConsumers
      /\ UNCHANGED <<published, reconcile, handled, cutShort>>
      /\ marks' = marks \cup {Key(m)}
  BY DEF Claim, Stages
<1>2. Moves(c) /\ consumer'[c].pc = stage /\ consumer'[c].msg = m
  BY <1>1, TakeMoves DEF EventsInv
<1>3. /\ consumer[c].pc = "idle" /\ m.kind \in Reads(c)
      /\ queue' = [queue EXCEPT ![m] = @ - 1]
  BY <1>1 DEF Take, At
<1>4. m.kind # "cancel"
  BY <1>1, <1>3, EventsAssumption DEF Reads
<1>5. \A n \in Messages : n # m => queue'[n] = queue[n]
  BY <1>3 DEF EventsInv, QueuesTypeOK
<1>6. ASSUME NEW o \in Orders
      PROVE  /\ ~Marking(c, o) /\ ~Working(c, o) /\ ~Marking(c, o)'
             /\ queue[Cancel(o)] > 0 => queue'[Cancel(o)] > 0
             /\ Cancel(o) \in marks' => Cancel(o) \in marks
  <2>1. Cancel(o) \in Messages /\ Cancel(o) # m
    BY <1>4 DEF Cancel, Messages, External, Outside
  <2>2. Key(m) # Cancel(o)
    BY <1>4 DEF Key, Cancel
  <2> QED BY <1>1, <1>2, <1>3, <1>5, <2>1, <2>2 DEF Marking, Working
<1>7. ASSUME NEW o \in Orders, NEW p \in Products
      PROVE  /\ ~Carries(c, o, p)
             /\ queue[Rollback(o, p)] > 0 =>
                  \/ queue'[Rollback(o, p)] > 0 \/ Rollback(o, p) \in marks
                  \/ Carries(c, o, p)'
             /\ Rollback(o, p) \in marks' => Rollback(o, p) \in marks \/ Carries(c, o, p)'
  <2>1. Rollback(o, p) \in Messages /\ Key(Rollback(o, p)) = Rollback(o, p)
    BY RollbackKey DEF Rollback, Messages, Rollbacks
  <2>2. Key(m) = Rollback(o, p) => m = Rollback(o, p)
    BY DEF Key, Rollback
  <2>3. m = Rollback(o, p) => Rollback(o, p) \in marks \/ Carries(c, o, p)'
    BY <1>2, <2>1 DEF Carries
  <2> QED BY <1>1, <1>3, <1>5, <2>1, <2>2, <2>3 DEF Carries
<1> HIDE DEF stage
<1> QED BY <1>1, <1>2, <1>6, <1>7, QuietMove

-----------------------------------------------------------------------------
\* The steps that are not a consumer's.
LEMMA QuietElse ==
  ASSUME EventsInv, QuietInv, UNCHANGED <<consumer, handled, reconcile>>,
         cutShort \subseteq cutShort',
         \A o \in Orders : Cancel(o) \in marks' => Cancel(o) \in marks,
         \A o \in Orders, p \in Products :
             Rollback(o, p) \in marks' => Rollback(o, p) \in marks \cup cutShort',
         UNCHANGED <<queue, published>> \/ \E m \in Messages : Publish(m)
  PROVE  QuietInv'
<1>1. /\ published \subseteq published'
      /\ \A m \in Messages : m \in published' => m \in published \/ queue'[m] > 0
      /\ \A m \in Messages : queue[m] > 0 => queue'[m] > 0
  <2>1. CASE UNCHANGED <<queue, published>>
    BY <2>1
  <2>2. ASSUME NEW m \in Messages, Publish(m) PROVE <1>1!:
    BY <2>2 DEF Publish, EventsInv, QueuesTypeOK
  <2> QED BY <2>1, <2>2
<1>2. \A o \in Orders : queue[Cancel(o)] > 0 => queue'[Cancel(o)] > 0
  BY <1>1 DEF Cancel, Messages, External, Outside
<1>3. \A o \in Orders, p \in Products : queue[Rollback(o, p)] > 0 => queue'[Rollback(o, p)] > 0
  BY <1>1 DEF Rollback, Messages, Rollbacks
<1>4. \A c \in Consumers, o \in Orders :
        /\ Marking(c, o)' <=> Marking(c, o)
        /\ Working(c, o)' <=> Working(c, o)
        /\ Marking(c, o)' => c \notin NotifyConsumers
  BY DEF Marking, Working, QuietInv
<1>5. \A c \in Consumers, o \in Orders, p \in Products : Carries(c, o, p)' <=> Carries(c, o, p)
  BY DEF Carries
<1> QED BY <1>1, <1>2, <1>3, <1>4, <1>5, QuietStep

LEMMA QuietAnnounce ==
  ASSUME EventsInv, QuietInv, NEW o \in Orders,
         \/ Announce(o)
         \/ PublishDelayMessage(o, "cancel")
         \/ PublishDelayMessage(o, "remind")
  PROVE  QuietInv'
<1>1. PICK kind \in Outside : Publish([kind |-> kind, order |-> o])
  BY DEF Outside, Announce, PublishDelayMessage
<1>2. [kind |-> kind, order |-> o] \in Messages
  BY DEF Messages, External
<1>3. UNCHANGED <<consumer, handled, reconcile, marks, cutShort>>
  BY DEF Announce, PublishDelayMessage, redisVars
<1> QED BY <1>1, <1>2, <1>3, QuietElse

LEMMA QuietLapse ==
  ASSUME EventsInv, QuietInv, NEW k \in Keys, LapseMark(k)
  PROVE  QuietInv'
BY QuietElse DEF LapseMark, brokerVars

LEMMA QuietClaimFails ==
  ASSUME EventsInv, QuietInv, NEW c \in Consumers, NEW m \in Messages, ClaimFails(c, m)
  PROVE  QuietInv'
<1>1. m.kind # "cancel"
  BY EventsAssumption DEF ClaimFails, Reads
<1>2. \A o \in Orders : Key(m) # Cancel(o)
  BY <1>1 DEF Key, Cancel
<1>3. \A o \in Orders, p \in Products : Key(m) = Rollback(o, p) => m = Rollback(o, p)
  BY DEF Key, Rollback
<1>4. UNCHANGED <<consumer, handled, reconcile, queue, published>>
  BY DEF ClaimFails, brokerVars
<1>5. CASE marks' = marks \cup {Key(m)} /\ cutShort' = cutShort \cup {m}
  BY <1>2, <1>3, <1>4, <1>5, QuietElse
<1>6. CASE UNCHANGED <<marks, cutShort>>
  BY <1>4, <1>6, QuietElse
<1> QED BY <1>5, <1>6 DEF ClaimFails

\* A cancellation that is through handed every item to the stock consumer's
\* handler or left a record of what it did not, whatever was repeated,
\* expired, came late or failed, unless a failure fell between the mark of a
\* message and the end of its work (handleOrderCancellation).
THEOREM CancelsSettle == Spec => []CancelSettles
<1>1. Init => QuietInv
  <2> SUFFICES ASSUME Init PROVE QuietInv
    OBVIOUS
  <2>1. \A o \in Orders : QuietCancel(o) /\ \A p \in Products : QuietRollback(o, p)
    BY DEF Init, QuietCancel, QuietRollback
  <2>2. \A c \in Consumers, o \in Orders : ~Marking(c, o)
    BY DEF Init, Marking, Idle
  <2> QED BY <2>1, <2>2 DEF QuietInv
<1>2. ASSUME EventsInv, QuietInv, [Next]_vars PROVE QuietInv'
  <2>1. CASE \E o \in Orders : Announce(o) \/ PublishDelayMessage(o, "cancel")
                                \/ PublishDelayMessage(o, "remind")
    BY <1>2, <2>1, QuietAnnounce
  <2>2. CASE \E c \in Consumers : Handle(c) \/ Crash(c)
    BY <1>2, <2>2, QuietMark, QuietKeepSnapshot, QuietHandleRollback, QuietLoadSnapshot,
       QuietPublishRollback, QuietRecordMissing, QuietStartReminder, QuietPublishNotice,
       QuietAck, QuietCrash DEF Handle
  <2>3. CASE \E c \in Consumers, m \in Messages : Receive(c, m)
    BY <1>2, <2>3, QuietLook, QuietClaim, QuietClaimFails DEF Receive
  <2>4. CASE \E k \in Keys : LapseMark(k)
    BY <1>2, <2>4, QuietLapse
  <2>5. CASE UNCHANGED vars
    BY <1>2, <2>5, QuietElse DEF vars, brokerVars, redisVars
  <2> QED BY <1>2, <2>1, <2>2, <2>3, <2>4, <2>5 DEF Next
<1>3. EventsInv /\ QuietInv => CancelSettles
  <2> SUFFICES ASSUME EventsInv, QuietInv, NEW o \in Orders, Cancel(o) \in published,
                      Settled(o), o \notin reconcile, Cancel(o) \notin cutShort,
                      NEW p \in ItemsOf[o], Rollback(o, p) \notin cutShort
               PROVE  handled[o][p] > 0
    BY DEF CancelSettles, Cancel
  <2>1. p \in Products
    BY EventsAssumption
  <2>2. QuietCancel(o) /\ QuietRollback(o, p)
    BY <2>1 DEF QuietInv
  <2>3. /\ queue[Cancel(o)] = 0 /\ \A c \in Consumers : consumer[c].msg # Cancel(o)
        /\ queue[Rollback(o, p)] = 0 /\ \A c \in Consumers : consumer[c].msg # Rollback(o, p)
    <3>1. /\ Cancel(o) \in Messages /\ Cancel(o).order = o /\ Cancel(o).kind = "cancel"
          /\ Rollback(o, p) \in Messages /\ Rollback(o, p).order = o
          /\ Rollback(o, p).kind = "rollback"
      BY <2>1 DEF Cancel, Rollback, Messages, External, Outside, Rollbacks
    <3> QED BY <3>1 DEF Settled, Msg
  <2>4. Rollback(o, p) \in published
    BY <2>2, <2>3 DEF QuietCancel, Through, Marking, Working
  <2> QED BY <2>2, <2>3, <2>4 DEF QuietRollback, Carries
<1> QED BY <1>1, <1>2, <1>3, EventsInvariant, PTL DEF Spec
-----------------------------------------------------------------------------
(* The client.                                                             *)

\* What the stages of autoReconnect and initChannelPool rely on.
LoopInv ==
    /\ rc = "push" <=> opened # NoChannel
    /\ rc = "push" => filled < PoolSize
    /\ rc # "gone" => count < MaxReconnect
    /\ count <= failures

\* Every connection but the last ended through a loss, or was given up with
\* a fault; and the news that autoReconnect waits for is of the last one.
ConnInv ==
    /\ conn <= 1 + losses + faults
    /\ ~isClosed /\ (conn \notin up \/ rc \in {"drain", "dial"}) => conn <= losses + faults
    /\ ~isClosed /\ rc = "listen" => heard = conn /\ (note # "none" => conn \notin up)

\* A goroutine has a channel in its hand exactly while it uses or returns it,
\* and one of its own only if it subscribes.
HandInv ==
    \A u \in Users :
        /\ hand[u] # NoChannel <=> pc[u] \in {"using", "returning"}
        /\ u \notin Subscribers \/ pc[u] = "idle" => own[u] = NoChannel

\* A pool as the set of what it holds, each channel once.
Held(s) == {s[i] : i \in 1 .. Len(s)}
Distinct(s) == \A i, j \in 1 .. Len(s) : s[i] = s[j] => i = j

\* The places where a channel can be are apart.
ApartInv ==
    /\ \A u, v \in Users :
          /\ hand[u] # NoChannel /\ hand[u] = hand[v] => u = v
          /\ own[u] # NoChannel /\ own[u] = own[v] => u = v
          /\ hand[u] # NoChannel => hand[u] # own[v]
    /\ \A u \in Users :
          /\ hand[u] # NoChannel => hand[u] # opened /\ hand[u] \notin Held(pool)
          /\ own[u] # NoChannel => own[u] # opened /\ own[u] \notin Held(pool)
    /\ Distinct(pool)
    /\ opened \notin Held(pool)

\* NoOpenChannelLost in those terms.
LostInv ==
    \A c \in Channels : on[c] # 0 =>
        \/ c \in Held(pool) \/ c = opened \/ c \in abandoned
        \/ \E u \in Users : c = hand[u] \/ c = own[u]

LoopSound == ClosedForGood /\ PoolOpenWhenListening /\ GivesUpOnlyExhausted

PoolInv ==
    /\ ChannelPoolTypeOK /\ LoopInv /\ ConnInv /\ HandInv /\ ApartInv
    /\ LostInv /\ LoopSound

-----------------------------------------------------------------------------
(* Pools as sets.                                                          *)

LEMMA PoolAppend ==
  ASSUME NEW S, NEW s \in Seq(S), NEW x \in S
  PROVE  /\ Append(s, x) \in Seq(S) /\ Len(Append(s, x)) = Len(s) + 1 /\ Len(s) \in Nat
         /\ Held(Append(s, x)) = Held(s) \cup {x}
         /\ Distinct(s) /\ x \notin Held(s) => Distinct(Append(s, x))
<1> DEFINE t == Append(s, x)
<1>1. /\ t \in Seq(S) /\ Len(s) \in Nat /\ Len(t) = Len(s) + 1 /\ t[Len(s) + 1] = x
      /\ \A k \in 1 .. Len(s) : t[k] = s[k]
  OBVIOUS
<1> HIDE DEF t
<1>2. \A k \in 1 .. Len(t) : k \in 1 .. Len(s) \/ k = Len(s) + 1
  BY <1>1
<1>3. ASSUME NEW y \in Held(t) PROVE y \in Held(s) \cup {x}
  BY <1>1, <1>3 DEF Held
<1>4. ASSUME NEW y \in Held(s) PROVE y \in Held(t)
  BY <1>1, <1>4 DEF Held
<1>5. x \in Held(t)
  BY <1>1 DEF Held
<1>6. ASSUME Distinct(s), x \notin Held(s) PROVE Distinct(t)
  <2>1. \A k \in 1 .. Len(s) : s[k] # x
    BY <1>6 DEF Held
  <2> QED BY <1>1, <1>2, <1>6, <2>1 DEF Distinct
<1> QED BY <1>1, <1>3, <1>4, <1>5, <1>6 DEF t

LEMMA PoolTail ==
  ASSUME NEW S, NEW s \in Seq(S), s # <<>>
  PROVE  /\ Head(s) \in S /\ Tail(s) \in Seq(S) /\ Len(Tail(s)) = Len(s) - 1
         /\ Len(s) \in Nat /\ Held(s) = {Head(s)} \cup Held(Tail(s))
         /\ Distinct(s) => Head(s) \notin Held(Tail(s)) /\ Distinct(Tail(s))
<1> DEFINE t == Tail(s)
<1>1. /\ Head(s) = s[1] /\ Head(s) \in S /\ 1 \in 1 .. Len(s) /\ Len(s) \in Nat
      /\ t \in Seq(S) /\ Len(t) = Len(s) - 1
      /\ \A k \in 1 .. Len(t) : t[k] = s[k + 1] /\ k + 1 \in 1 .. Len(s)
  <2>1. Len(s) \in Nat \ {0} /\ Head(s) = s[1]
    BY EmptySeq
  <2> QED BY <2>1, HeadTailProperties
<1> HIDE DEF t
<1>2. ASSUME NEW y \in Held(s) PROVE y \in {Head(s)} \cup Held(t)
  <2>1. PICK k \in 1 .. Len(s) : y = s[k]
    BY DEF Held
  <2>2. CASE k = 1
    BY <1>1, <2>1, <2>2
  <2>3. CASE k # 1
    <3>1. k - 1 \in 1 .. Len(t) /\ t[k - 1] = s[(k - 1) + 1] /\ (k - 1) + 1 = k
      BY <1>1, <2>3
    <3> QED BY <2>1, <3>1 DEF Held
  <2> QED BY <2>2, <2>3
<1>3. ASSUME NEW y \in Held(t) PROVE y \in Held(s)
  BY <1>1 DEF Held
<1>4. Head(s) \in Held(s)
  BY <1>1 DEF Held
<1>5. ASSUME Distinct(s), Head(s) \in Held(t) PROVE FALSE
  <2>1. PICK k \in 1 .. Len(t) : Head(s) = t[k]
    BY <1>5 DEF Held
  <2>2. s[1] = s[k + 1] /\ 1 \in 1 .. Len(s) /\ k + 1 \in 1 .. Len(s) /\ k + 1 # 1
    BY <1>1, <2>1
  <2> QED BY <1>5, <2>2 DEF Distinct
<1>6. ASSUME Distinct(s), NEW k \in 1 .. Len(t), NEW l \in 1 .. Len(t), t[k] = t[l]
      PROVE  k = l
  <2>1. s[k + 1] = s[l + 1] /\ k + 1 \in 1 .. Len(s) /\ l + 1 \in 1 .. Len(s)
    BY <1>1, <1>6
  <2>2. k + 1 = l + 1
    BY <1>6, <2>1 DEF Distinct
  <2> QED BY <2>2
<1>7. Distinct(s) => Distinct(t)
  BY <1>6 DEF Distinct
<1> QED BY <1>1, <1>2, <1>3, <1>4, <1>5, <1>7 DEF t

LEMMA PoolEmpty == Held(<<>>) = {} /\ Distinct(<<>>) /\ Len(<<>>) = 0
BY DEF Held, Distinct

LEMMA PoolView == (\A c : InPool(c) <=> c \in Held(pool)) /\ (NoOpenChannelLost <=> LostInv)
<1>1. \A c : InPool(c) <=> c \in Held(pool)
  BY DEF InPool, Held
<1>2. \A c \in Channels : IsOpen(c) <=> on[c] # 0
  BY DEF IsOpen
<1> QED BY <1>1, <1>2 DEF NoOpenChannelLost, Referenced, LostInv

\* createChannel takes a channel that nobody has.
LEMMA FreshChannel ==
  ASSUME Opens
  PROVE  /\ Fresh \in Channels /\ on[Fresh] = 0
         /\ Fresh \notin Held(pool) /\ Fresh # opened
         /\ \A u \in Users : Fresh # hand[u] /\ Fresh # own[u]
         /\ conn \in up /\ ~isClosed /\ UNCHANGED faults
         /\ on' = [on EXCEPT ![Fresh] = conn]
<1>1. Fresh \in Unused
  BY DEF Fresh, Opens
<1> QED BY <1>1, PoolView DEF Unused, Referenced, IsOpen, Opens, IsConnected

-----------------------------------------------------------------------------
(* The goroutines that use the pool.                                       *)

PoolPlaces == {"idle", "own", "select", "create", "using", "returning", "listening",
               "ended", "panicked"}

\* A fault more leaves room for the connections there are.
LEMMA MoreFaults ==
  ASSUME PoolInv, UNCHANGED <<conn, up, isClosed, heard, note, rc, losses>>,
         faults' = faults \/ faults' = faults + 1
  PROVE  ConnInv'
<1>1. conn \in Int /\ losses \in Nat /\ faults \in Nat
  <2>1. conn \in Conns \cup {0} /\ losses \in 0 .. MaxLosses /\ faults \in 0 .. MaxPoolFaults
    BY DEF PoolInv, ChannelPoolTypeOK
  <2> QED BY <2>1, ChannelPoolAssumption DEF Conns
<1>2. /\ conn <= losses + faults => conn <= losses + (faults + 1)
      /\ conn <= 1 + losses + faults => conn <= 1 + losses + (faults + 1)
  BY <1>1
<1> QED BY <1>1, <1>2 DEF PoolInv, ConnInv

\* What they do leaves the connection and autoReconnect alone.
LEMMA UserFrame ==
  ASSUME PoolInv,
         UNCHANGED <<conn, up, poolClosed, isClosed, newsVars, rcVars, ready, dead, losses>>,
         faults' = faults \/ faults' = faults + 1, faults' <= MaxPoolFaults,
         on' \in [Channels -> up \cup {0}], pool' \in Seq(Channels), Len(pool') <= PoolSize,
         pc' \in [Users -> PoolPlaces],
         hand' \in [Users -> Channels \cup {NoChannel}],
         own' \in [Users -> Channels \cup {NoChannel}],
         abandoned' \subseteq Channels,
         HandInv', ApartInv', LostInv'
  PROVE  PoolInv'
<1> USE ChannelPoolAssumption
<1>1. ChannelPoolTypeOK'
  BY DEF PoolInv, ChannelPoolTypeOK, newsVars, rcVars, PoolPlaces
<1>2. LoopInv'
  BY DEF PoolInv, LoopInv, rcVars
<1>3. ConnInv'
  <2>1. UNCHANGED <<conn, up, isClosed, heard, note, rc, losses>>
    BY DEF rcVars, newsVars
  <2> QED BY <2>1, MoreFaults
<1>4. LoopSound'
  BY DEF PoolInv, LoopSound, ClosedForGood, PoolOpenWhenListening,
         GivesUpOnlyExhausted, rcVars
<1> QED BY <1>1, <1>2, <1>3, <1>4 DEF PoolInv

\* An operation that fails: a subscriber closes the channel of its own.
LEMMA FailsEffect ==
  ASSUME PoolInv, NEW u \in Users, Fails(u)
  PROVE  /\ on' \in [Channels -> up \cup {0}]
         /\ \A c \in Channels : on'[c] = IF c = own[u] THEN 0 ELSE on[c]
         /\ own' = [own EXCEPT ![u] = NoChannel]
         /\ own' \in [Users -> Channels \cup {NoChannel}]
         /\ pc' = [pc EXCEPT ![u] = IF u \in Subscribers THEN "ended" ELSE "idle"]
         /\ pc' \in [Users -> PoolPlaces]
BY DEF Fails, Goto, Shut, PoolInv, ChannelPoolTypeOK, PoolPlaces

\* ... with nothing in hand, or with a channel that is closed.
LEMMA FailsKeeps ==
  ASSUME PoolInv, NEW u \in Users, Fails(u),
         \/ pc[u] \in {"idle", "own", "create", "listening"} /\ hand' = hand
         \/ hand' = [hand EXCEPT ![u] = NoChannel] /\ on[hand[u]] = 0,
         pool' = pool, opened' = opened, abandoned' = abandoned
  PROVE  HandInv' /\ ApartInv' /\ LostInv'
<1>1. /\ hand \in [Users -> Channels \cup {NoChannel}]
      /\ own \in [Users -> Channels \cup {NoChannel}]
      /\ pc \in [Users -> PoolPlaces]
  BY DEF PoolInv, ChannelPoolTypeOK, PoolPlaces
<1>2. /\ own'[u] = NoChannel /\ hand'[u] = NoChannel
      /\ pc'[u] \in {"ended", "idle"} /\ (pc'[u] = "idle" => u \notin Subscribers)
      /\ \A v \in Users \ {u} : own'[v] = own[v] /\ hand'[v] = hand[v] /\ pc'[v] = pc[v]
  BY <1>1, FailsEffect DEF PoolInv, HandInv
<1>3. HandInv'
  BY <1>2 DEF PoolInv, HandInv
<1>4. ApartInv'
  BY <1>2 DEF PoolInv, ApartInv
<1>5. LostInv'
  <2> SUFFICES ASSUME NEW c \in Channels, on'[c] # 0
               PROVE  \/ c \in Held(pool) \/ c = opened \/ c \in abandoned
                      \/ \E v \in Users : c = hand'[v] \/ c = own'[v]
    BY DEF LostInv
  <2>1. on[c] # 0 /\ c # own[u]
    BY FailsEffect
  <2>2. CASE c \in Held(pool) \/ c = opened \/ c \in abandoned
    BY <2>2
  <2>3. CASE \E v \in Users : c = hand[v] \/ c = own[v]
    <3>1. PICK v \in Users : c = hand[v] \/ c = own[v]
      BY <2>3
    <3>2. CASE v = u
      <4>1. c = hand[u] /\ c # NoChannel
        BY <2>1, <3>1, <3>2, ChannelPoolAssumption
      <4>2. hand' = hand
        BY <2>1, <4>1
      <4> QED BY <4>1, <4>2
    <3> QED BY <1>2, <3>1, <3>2
  <2> QED BY <2>1, <2>2, <2>3 DEF PoolInv, LostInv
<1> QED BY <1>3, <1>4, <1>5

\* createChannel without success.
LEMMA OpensNotBudget ==
  ASSUME PoolInv, OpensNot \/ PoolFault \/ UNCHANGED faults
  PROVE  (faults' = faults \/ faults' = faults + 1) /\ faults' <= MaxPoolFaults
         /\ faults' \in 0 .. MaxPoolFaults
BY ChannelPoolAssumption DEF OpensNot, PoolFault, PoolInv, ChannelPoolTypeOK

LEMMA PoolTypes ==
  ASSUME PoolInv
  PROVE  /\ on \in [Channels -> up \cup {0}] /\ pool \in Seq(Channels)
         /\ Len(pool) <= PoolSize /\ pc \in [Users -> PoolPlaces]
         /\ hand \in [Users -> Channels \cup {NoChannel}]
         /\ own \in [Users -> Channels \cup {NoChannel}]
         /\ abandoned \subseteq Channels /\ opened \in Channels \cup {NoChannel}
         /\ HandInv /\ ApartInv /\ LostInv /\ NoChannel \notin Channels
BY ChannelPoolAssumption DEF PoolInv, ChannelPoolTypeOK, PoolPlaces

LEMMA KeepsConsume ==
  ASSUME PoolInv, NEW u \in Users, Consume(u)
  PROVE  PoolInv'
<1> USE PoolTypes
<1>1. /\ UNCHANGED <<conn, up, poolClosed, isClosed, newsVars, rcVars, ready, dead, losses>>
      /\ UNCHANGED <<pool, hand, abandoned, opened>>
      /\ pc[u] = "idle" /\ u \in Subscribers
  BY DEF Consume, poolVars, rcVars
<1>2. CASE OpensNot /\ Fails(u)
  <2>1. HandInv' /\ ApartInv' /\ LostInv'
    BY <1>1, <1>2, FailsKeeps
  <2> QED BY <1>1, <1>2, <2>1, FailsEffect, OpensNotBudget, UserFrame
<1>3. CASE Opens /\ own' = [own EXCEPT ![u] = Fresh] /\ Goto(u, "own")
  <2>1. /\ Fresh \in Channels /\ on[Fresh] = 0
        /\ Fresh \notin Held(pool) /\ Fresh # opened
        /\ \A v \in Users : Fresh # hand[v] /\ Fresh # own[v]
        /\ conn \in up /\ UNCHANGED faults
        /\ on' = [on EXCEPT ![Fresh] = conn]
    BY <1>3, FreshChannel
  <2>2. /\ pc' = [pc EXCEPT ![u] = "own"] /\ pc' \in [Users -> PoolPlaces]
        /\ own' \in [Users -> Channels \cup {NoChannel}] /\ own'[u] = Fresh
        /\ \A v \in Users \ {u} : own'[v] = own[v] /\ pc'[v] = pc[v]
        /\ on' \in [Channels -> up \cup {0}] /\ \A c \in Channels \ {Fresh} : on'[c] = on[c]
    BY <1>3, <2>1 DEF Goto, PoolPlaces
  <2>3. own[u] = NoChannel /\ hand[u] = NoChannel
    BY <1>1 DEF HandInv
  <2>4. HandInv'
    BY <1>1, <2>2, <2>3 DEF HandInv
  <2>5. ApartInv'
    BY <1>1, <2>1, <2>2 DEF ApartInv
  <2>6. LostInv'
    BY <1>1, <2>1, <2>2, <2>3 DEF LostInv
  <2> QED BY <1>1, <2>1, <2>2, <2>4, <2>5, <2>6, UserFrame, OpensNotBudget
<1> QED BY <1>2, <1>3 DEF Consume

LEMMA KeepsGetChannel ==
  ASSUME PoolInv, NEW u \in Users, GetChannel(u)
  PROVE  PoolInv'
<1> USE PoolTypes
<1>1. /\ UNCHANGED <<conn, up, poolClosed, isClosed, newsVars, rcVars, ready, dead, losses>>
      /\ UNCHANGED <<pool, hand, abandoned, opened, faults>>
      /\ pc[u] = IF u \in Subscribers THEN "own" ELSE "idle"
  BY DEF GetChannel, poolVars, rcVars, boundVars
<1>2. CASE Fails(u)
  <2>1. HandInv' /\ ApartInv' /\ LostInv'
    BY <1>1, <1>2, FailsKeeps
  <2> QED BY <1>1, <1>2, <2>1, FailsEffect, OpensNotBudget, UserFrame
<1>3. CASE Goto(u, "select") /\ UNCHANGED <<own, on>>
  <2>1. /\ pc' \in [Users -> PoolPlaces] /\ pc'[u] = "select"
        /\ \A v \in Users \ {u} : pc'[v] = pc[v]
    BY <1>3 DEF Goto, PoolPlaces
  <2>2. HandInv'
    BY <1>1, <1>3, <2>1 DEF HandInv
  <2>3. ApartInv' /\ LostInv'
    BY <1>1, <1>3 DEF ApartInv, LostInv
  <2> QED BY <1>1, <1>3, <2>1, <2>2, <2>3, UserFrame, OpensNotBudget
<1> QED BY <1>2, <1>3 DEF GetChannel

LEMMA KeepsSelect ==
  ASSUME PoolInv, NEW u \in Users, Select(u)
  PROVE  PoolInv'
<1> USE PoolTypes
<1>1. /\ UNCHANGED <<conn, up, poolClosed, isClosed, newsVars, rcVars, ready, dead, losses>>
      /\ UNCHANGED <<on, own, abandoned, opened, faults>>
      /\ pc[u] = "select"
  BY DEF Select, connVars, rcVars, boundVars
<1>2. hand[u] = NoChannel
  BY <1>1 DEF HandInv
<1>3. CASE /\ pool # <<>> /\ pool' = Tail(pool)
           /\ on[Head(pool)] # 0
           /\ hand' = [hand EXCEPT ![u] = Head(pool)] /\ Goto(u, "using")
  <2>1. /\ Head(pool) \in Channels /\ pool' \in Seq(Channels) /\ Len(pool') <= PoolSize
        /\ Held(pool) = {Head(pool)} \cup Held(pool')
        /\ Distinct(pool) => Head(pool) \notin Held(pool') /\ Distinct(pool')
    BY <1>3, PoolTail, ChannelPoolAssumption
  <2>2. /\ pc' \in [Users -> PoolPlaces] /\ pc'[u] = "using"
        /\ hand' \in [Users -> Channels \cup {NoChannel}] /\ hand'[u] = Head(pool)
        /\ \A v \in Users \ {u} : pc'[v] = pc[v] /\ hand'[v] = hand[v]
    BY <1>3, <2>1 DEF Goto, PoolPlaces
  <2>3. HandInv'
    BY <1>1, <2>1, <2>2 DEF HandInv
  <2>4. ApartInv'
    <3>1. Head(pool) \in Held(pool) /\ Head(pool) # NoChannel
      BY <2>1
    <3>2. ApartInv /\ Distinct(pool) /\ opened \notin Held(pool)
      BY DEF ApartInv
    <3>3. Distinct(pool') /\ Head(pool) # opened /\ opened \notin Held(pool')
      BY <2>1, <3>1, <3>2
    <3>4. \A v \in Users : Head(pool) # hand[v] /\ Head(pool) # own[v]
      BY <3>1, <3>2 DEF ApartInv
    <3>5. \A c \in Held(pool') : c \in Held(pool) /\ c # Head(pool)
      BY <2>1, <3>2
    <3>6. own' = own /\ opened' = opened
      BY <1>1
    <3>7. \A v \in Users : (v = u /\ hand'[v] = Head(pool)) \/ hand'[v] = hand[v]
      BY <2>2
    <3> QED BY <3>1, <3>2, <3>3, <3>4, <3>5, <3>6, <3>7 DEF ApartInv
  <2>5. LostInv'
    BY <1>1, <1>2, <2>1, <2>2 DEF LostInv
  <2> QED BY <1>1, <2>1, <2>2, <2>3, <2>4, <2>5, UserFrame, OpensNotBudget
<1>4. CASE /\ pool # <<>> /\ pool' = Tail(pool)
           /\ on[Head(pool)] = 0
           /\ Goto(u, "create") /\ UNCHANGED hand
  <2>1. /\ Head(pool) \in Channels /\ pool' \in Seq(Channels) /\ Len(pool') <= PoolSize
        /\ Held(pool) = {Head(pool)} \cup Held(pool')
        /\ Distinct(pool) => Distinct(pool')
    BY <1>4, PoolTail, ChannelPoolAssumption
  <2>2. /\ pc' \in [Users -> PoolPlaces] /\ pc'[u] = "create"
        /\ \A v \in Users \ {u} : pc'[v] = pc[v]
    BY <1>4 DEF Goto, PoolPlaces
  <2>3. HandInv'
    BY <1>1, <1>4, <2>2 DEF HandInv
  <2>4. ApartInv'
    BY <1>1, <1>4, <2>1 DEF ApartInv
  <2>5. LostInv'
    BY <1>1, <1>4, <2>1 DEF LostInv
  <2> QED BY <1>1, <1>4, <2>1, <2>2, <2>3, <2>4, <2>5, UserFrame, OpensNotBudget
<1>5. CASE /\ pool = <<>> /\ UNCHANGED <<pool, hand>>
           /\ Goto(u, IF poolClosed THEN "panicked" ELSE "create")
  <2>1. /\ pc' \in [Users -> PoolPlaces] /\ pc'[u] \in {"panicked", "create"}
        /\ \A v \in Users \ {u} : pc'[v] = pc[v]
    BY <1>5 DEF Goto, PoolPlaces
  <2>2. HandInv'
    BY <1>1, <1>5, <2>1 DEF HandInv
  <2>3. ApartInv' /\ LostInv'
    BY <1>1, <1>5 DEF ApartInv, LostInv
  <2> QED BY <1>1, <1>5, <2>1, <2>2, <2>3, UserFrame, OpensNotBudget
<1> QED BY <1>3, <1>4, <1>5 DEF Select, Taken, IsOpen

LEMMA KeepsCreateChannel ==
  ASSUME PoolInv, NEW u \in Users, CreateChannel(u)
  PROVE  PoolInv'
<1> USE PoolTypes
<1>1. /\ UNCHANGED <<conn, up, poolClosed, isClosed, newsVars, rcVars, ready, dead, losses>>
      /\ UNCHANGED <<pool, abandoned, opened>>
      /\ pc[u] = "create"
  BY DEF CreateChannel, poolVars, rcVars
<1>2. CASE OpensNot /\ Fails(u) /\ UNCHANGED hand
  <2>1. HandInv' /\ ApartInv' /\ LostInv'
    BY <1>1, <1>2, FailsKeeps
  <2> QED BY <1>1, <1>2, <2>1, FailsEffect, OpensNotBudget, UserFrame
<1>3. CASE Opens /\ hand' = [hand EXCEPT ![u] = Fresh] /\ Goto(u, "using") /\ UNCHANGED own
  <2>1. /\ Fresh \in Channels /\ on[Fresh] = 0
        /\ Fresh \notin Held(pool) /\ Fresh # opened
        /\ \A v \in Users : Fresh # hand[v] /\ Fresh # own[v]
        /\ conn \in up /\ UNCHANGED faults
        /\ on' = [on EXCEPT ![Fresh] = conn]
    BY <1>3, FreshChannel
  <2>2. /\ pc' \in [Users -> PoolPlaces] /\ pc'[u] = "using"
        /\ hand' \in [Users -> Channels \cup {NoChannel}] /\ hand'[u] = Fresh
        /\ \A v \in Users \ {u} : hand'[v] = hand[v] /\ pc'[v] = pc[v]
        /\ on' \in [Channels -> up \cup {0}] /\ \A c \in Channels \ {Fresh} : on'[c] = on[c]
    BY <1>3, <2>1 DEF Goto, PoolPlaces
  <2>3. hand[u] = NoChannel
    BY <1>1 DEF HandInv
  <2>4. HandInv'
    BY <1>1, <1>3, <2>1, <2>2, <2>3 DEF HandInv
  <2>5. ApartInv'
    BY <1>1, <1>3, <2>1, <2>2 DEF ApartInv
  <2>6. LostInv'
    BY <1>1, <1>3, <2>1, <2>2, <2>3 DEF LostInv
  <2> QED BY <1>1, <1>3, <2>1, <2>2, <2>4, <2>5, <2>6, UserFrame, OpensNotBudget
<1> QED BY <1>2, <1>3 DEF CreateChannel

LEMMA KeepsChannelDies ==
  ASSUME PoolInv, NEW u \in Users, ChannelDies(u)
  PROVE  PoolInv'
<1> USE PoolTypes
<1>1. /\ UNCHANGED <<conn, up, poolClosed, isClosed, newsVars, rcVars, ready, dead, losses>>
      /\ UNCHANGED <<pool, pc, hand, own, abandoned, opened>>
  BY DEF ChannelDies, poolVars, rcVars, userVars
<1>2. PoolFault /\ on' = Shut({hand[u]})
  BY DEF ChannelDies
<1>3. /\ on' \in [Channels -> up \cup {0}]
      /\ \A c \in Channels : on'[c] # 0 => on[c] # 0
  BY <1>2 DEF Shut
<1>4. HandInv'
  BY <1>1 DEF HandInv
<1>5. ApartInv'
  BY <1>1 DEF ApartInv
<1>6. LostInv'
  BY <1>1, <1>3 DEF LostInv
<1> QED BY <1>1, <1>2, <1>3, <1>4, <1>5, <1>6, OpensNotBudget, UserFrame

LEMMA KeepsReturnChannel ==
  ASSUME PoolInv, NEW u \in Users, ReturnChannel(u)
  PROVE  PoolInv'
<1> USE PoolTypes
<1>1. /\ UNCHANGED <<conn, up, poolClosed, isClosed, newsVars, rcVars, ready, dead, losses>>
      /\ UNCHANGED <<pool, abandoned, opened, faults>>
      /\ pc[u] = "using"
  BY DEF ReturnChannel, poolVars, rcVars, boundVars
<1>2. CASE Goto(u, "returning") /\ UNCHANGED <<on, hand, own>>
  <2>1. /\ pc' \in [Users -> PoolPlaces] /\ pc'[u] = "returning"
        /\ \A v \in Users \ {u} : pc'[v] = pc[v]
    BY <1>2 DEF Goto, PoolPlaces
  <2>2. HandInv'
    BY <1>1, <1>2, <2>1 DEF HandInv
  <2>3. ApartInv' /\ LostInv'
    BY <1>1, <1>2 DEF ApartInv, LostInv
  <2> QED BY <1>1, <1>2, <2>1, <2>2, <2>3, UserFrame, OpensNotBudget
<1>3. CASE on[hand[u]] = 0 /\ Fails(u) /\ hand' = [hand EXCEPT ![u] = NoChannel]
  <2>1. HandInv' /\ ApartInv' /\ LostInv'
    BY <1>1, <1>3, FailsKeeps
  <2>2. hand' \in [Users -> Channels \cup {NoChannel}]
    BY <1>3
  <2> QED BY <1>1, <1>3, <2>1, <2>2, FailsEffect, OpensNotBudget, UserFrame
<1> QED BY <1>2, <1>3 DEF ReturnChannel, IsOpen

LEMMA KeepsPutBack ==
  ASSUME PoolInv, NEW u \in Users, PutBack(u)
  PROVE  PoolInv'
<1> USE PoolTypes
<1>1. /\ UNCHANGED <<conn, up, poolClosed, isClosed, newsVars, rcVars, ready, dead, losses>>
      /\ UNCHANGED <<own, opened, faults>>
      /\ pc[u] = "returning" /\ hand' = [hand EXCEPT ![u] = NoChannel]
  BY DEF PutBack, rcVars, boundVars
<1>2. /\ hand[u] \in Channels /\ hand[u] # NoChannel
      /\ hand' \in [Users -> Channels \cup {NoChannel}] /\ hand'[u] = NoChannel
      /\ \A v \in Users \ {u} : hand'[v] = hand[v]
  BY <1>1 DEF HandInv
<1>3. /\ pc' \in [Users -> PoolPlaces]
      /\ pc'[u] \in {"listening", "idle", "panicked"} /\ (pc'[u] = "idle" => u \notin Subscribers)
      /\ \A v \in Users \ {u} : pc'[v] = pc[v]
  BY DEF PutBack, Succeeds, Goto, PoolPlaces
<1>4. HandInv'
  BY <1>1, <1>2, <1>3 DEF HandInv
<1>5. CASE on' = Shut({hand[u]}) /\ UNCHANGED <<pool, abandoned>>
  <2>1. /\ on' \in [Channels -> up \cup {0}]
        /\ \A c \in Channels : on'[c] # 0 => on[c] # 0 /\ c # hand[u]
    BY <1>5 DEF Shut
  <2>2. ApartInv'
    BY <1>1, <1>2, <1>5 DEF ApartInv
  <2>3. LostInv'
    <3>1. pool' = pool /\ own' = own /\ opened' = opened /\ abandoned' = abandoned
      BY <1>1, <1>5
    <3> SUFFICES ASSUME NEW c \in Channels, on'[c] # 0
                 PROVE  \/ c \in Held(pool) \/ c = opened \/ c \in abandoned
                        \/ \E v \in Users : c = hand'[v] \/ c = own[v]
      BY <3>1 DEF LostInv
    <3>2. on[c] # 0 /\ c # hand[u]
      BY <2>1
    <3> QED BY <1>2, <3>2 DEF LostInv
  <2> QED BY <1>1, <1>2, <1>3, <1>4, <1>5, <2>1, <2>2, <2>3, UserFrame, OpensNotBudget
<1>6. CASE abandoned' = abandoned \cup {hand[u]} /\ UNCHANGED <<pool, on>>
  <2>1. ApartInv'
    BY <1>1, <1>2, <1>6 DEF ApartInv
  <2>2. LostInv'
    BY <1>1, <1>2, <1>6 DEF LostInv
  <2>3. abandoned' \subseteq Channels
    BY <1>2, <1>6
  <2> QED BY <1>1, <1>2, <1>3, <1>4, <1>6, <2>1, <2>2, <2>3, UserFrame, OpensNotBudget
<1>7. CASE HasRoom /\ pool' = Append(pool, hand[u]) /\ UNCHANGED <<on, abandoned>>
  <2>1. /\ pool' \in Seq(Channels) /\ Len(pool') <= PoolSize
        /\ Held(pool') = Held(pool) \cup {hand[u]}
        /\ Distinct(pool) /\ hand[u] \notin Held(pool) => Distinct(pool')
    <3>1. Len(pool') = Len(pool) + 1 /\ Len(pool) \in Nat /\ Len(pool) < PoolSize
      BY <1>2, <1>7, PoolAppend DEF HasRoom
    <3>2. Len(pool') <= PoolSize
      BY <3>1, ChannelPoolAssumption
    <3> QED BY <1>2, <1>7, <3>2, PoolAppend
  <2>2. ApartInv'
    <3>1. hand[u] # opened /\ hand[u] \notin Held(pool) /\ Distinct(pool)
      BY <1>2 DEF ApartInv
    <3>2. Distinct(pool') /\ opened \notin Held(pool')
      BY <2>1, <3>1 DEF ApartInv
    <3>3. \A v \in Users : hand[u] # own[v] /\ (v # u => hand[u] # hand[v])
      BY <1>2 DEF ApartInv
    <3>4. \A c : c \in Held(pool') <=> c \in Held(pool) \/ c = hand[u]
      BY <2>1
    <3>5. own' = own /\ opened' = opened
      BY <1>1
    <3> QED BY <1>2, <3>2, <3>3, <3>4, <3>5 DEF ApartInv
  <2>3. LostInv'
    BY <1>1, <1>2, <1>7, <2>1 DEF LostInv
  <2> QED BY <1>1, <1>2, <1>3, <1>4, <1>7, <2>1, <2>2, <2>3, UserFrame, OpensNotBudget
<1> QED BY <1>5, <1>6, <1>7 DEF PutBack, Surplus

LEMMA KeepsDeliveriesEnd ==
  ASSUME PoolInv, NEW u \in Users, DeliveriesEnd(u)
  PROVE  PoolInv'
<1>1. /\ UNCHANGED <<conn, up, poolClosed, isClosed, newsVars, rcVars, ready, dead, losses>>
      /\ UNCHANGED <<pool, hand, abandoned, opened, faults>>
      /\ pc[u] = "listening" /\ Fails(u)
  BY DEF DeliveriesEnd, poolVars, rcVars, boundVars
<1>2. HandInv' /\ ApartInv' /\ LostInv'
  BY <1>1, FailsKeeps
<1> QED BY <1>1, <1>2, FailsEffect, OpensNotBudget, UserFrame, PoolTypes

LEMMA KeepsOperation ==
  ASSUME PoolInv, NEW u \in Users, Operation(u) \/ ChannelDies(u)
  PROVE  PoolInv'
BY KeepsConsume, KeepsGetChannel, KeepsSelect, KeepsCreateChannel, KeepsReturnChannel,
   KeepsPutBack, KeepsDeliveriesEnd, KeepsChannelDies DEF Operation

-----------------------------------------------------------------------------
(* autoReconnect, the end of a connection, and Close.                      *)

LEMMA LoopTypes ==
  ASSUME PoolInv
  PROVE  /\ conn \in Conns \cup {0} /\ conn \in Int /\ up \subseteq Conns
         /\ heard \in Conns \cup {0} /\ note \in {"none", "err", "closed"}
         /\ filled \in 0 .. PoolSize /\ count \in 0 .. MaxReconnect /\ failures \in Nat
         /\ losses \in 0 .. MaxLosses /\ faults \in 0 .. MaxPoolFaults
         /\ PoolSize \in Nat \ {0} /\ MaxReconnect \in Nat \ {0}
         /\ LoopInv /\ ConnInv /\ LoopSound
BY ChannelPoolAssumption DEF PoolInv, ChannelPoolTypeOK, Conns

\* What a step that only concerns autoReconnect has to establish.
LEMMA LoopFrame ==
  ASSUME PoolInv, UNCHANGED <<pool, on, userVars, abandoned, opened, poolClosed, isClosed>>,
         conn' \in Conns \cup {0}, up \subseteq up', up' \subseteq Conns,
         heard' \in Conns \cup {0}, note' \in {"none", "err", "closed"},
         rc' \in {"dial", "make", "fill", "push", "drain", "notify", "listen",
                  "stuck", "gone"},
         filled' \in 0 .. PoolSize, count' \in 0 .. MaxReconnect, failures' \in Nat,
         ready' \in BOOLEAN, dead' \in BOOLEAN,
         losses' \in 0 .. MaxLosses, faults' \in 0 .. MaxPoolFaults,
         LoopInv', ConnInv', LoopSound'
  PROVE  PoolInv'
<1> USE PoolTypes
<1>1. UNCHANGED <<pool, on, pc, hand, own, abandoned, opened, poolClosed, isClosed>>
  BY DEF userVars
<1>2. ChannelPoolTypeOK'
  BY <1>1 DEF PoolInv, ChannelPoolTypeOK
<1>3. HandInv' /\ ApartInv' /\ LostInv'
  BY <1>1 DEF HandInv, ApartInv, LostInv
<1> QED BY <1>2, <1>3 DEF PoolInv

\* A failed attempt: the next, or after MaxReconnect of them the end.
LEMMA AttemptEffect ==
  ASSUME PoolInv, rc # "gone", AttemptFails
  PROVE  /\ rc' \in {"dial", "gone"} /\ count' \in 0 .. MaxReconnect /\ failures' \in Nat
         /\ (rc' # "gone" => count' < MaxReconnect) /\ count' <= failures'
         /\ (ready /\ rc' = "gone" => failures' >= MaxReconnect)
BY LoopTypes DEF AttemptFails, LoopInv

LEMMA KeepsDial ==
  ASSUME PoolInv, Dial
  PROVE  PoolInv'
<1> USE LoopTypes
<1>1. /\ UNCHANGED <<pool, on, userVars, abandoned, opened, poolClosed, isClosed>>
      /\ UNCHANGED <<heard, note, filled, ready, dead, losses, faults>>
      /\ rc = "dial"
  BY DEF Dial, poolVars, newsVars, boundVars
<1>2. CASE /\ ~isClosed /\ conn' = conn + 1 /\ up' = up \cup {conn + 1}
           /\ rc' = "make" /\ UNCHANGED <<count, failures>>
  <2>1. conn <= losses + faults
    BY <1>1, <1>2 DEF ConnInv
  <2>2. conn' \in Conns /\ conn' <= 1 + losses + faults
    BY <1>2, <2>1, ChannelPoolAssumption DEF Conns
  <2>3. ConnInv'
    BY <1>1, <1>2, <2>2 DEF ConnInv
  <2>4. LoopInv'
    BY <1>1, <1>2 DEF LoopInv
  <2>5. LoopSound'
    BY <1>1, <1>2 DEF LoopSound, ClosedForGood, PoolOpenWhenListening,
                      GivesUpOnlyExhausted
  <2> QED BY <1>1, <1>2, <2>2, <2>3, <2>4, <2>5, LoopFrame DEF PoolInv, ChannelPoolTypeOK
<1>3. CASE AttemptFails /\ UNCHANGED <<conn, up>>
  <2>1. /\ rc' \in {"dial", "gone"} /\ count' \in 0 .. MaxReconnect /\ failures' \in Nat
        /\ (rc' # "gone" => count' < MaxReconnect) /\ count' <= failures'
        /\ (ready /\ rc' = "gone" => failures' >= MaxReconnect)
    BY <1>1, <1>3, AttemptEffect
  <2>2. ConnInv'
    BY <1>1, <1>3, <2>1 DEF ConnInv
  <2>3. LoopInv'
    BY <1>1, <2>1 DEF LoopInv
  <2>4. LoopSound'
    BY <1>1, <1>3, <2>1 DEF LoopSound, ClosedForGood, PoolOpenWhenListening,
                            GivesUpOnlyExhausted
  <2> QED BY <1>1, <1>3, <2>1, <2>2, <2>3, <2>4, LoopFrame DEF PoolInv, ChannelPoolTypeOK
<1> QED BY <1>2, <1>3 DEF Dial, MayDial

LEMMA KeepsMakePool ==
  ASSUME PoolInv, MakePool
  PROVE  PoolInv'
<1> USE PoolTypes
<1>1. /\ UNCHANGED <<conn, up, on, isClosed, heard, note, opened, count, failures,
                     pc, hand, own, ready, dead, losses, faults>>
      /\ rc = "make" /\ rc' = "fill" /\ pool' = <<>> /\ poolClosed' = FALSE /\ filled' = 0
  BY DEF MakePool, connVars, newsVars, userVars, boundVars
<1>2. abandoned' = abandoned \cup {c \in Channels : c \in Held(pool) /\ on[c] # 0}
  BY PoolView DEF MakePool, IsOpen
<1>3. pool' \in Seq(Channels) /\ Len(pool') <= PoolSize /\ Held(pool') = {} /\ Distinct(pool')
  BY <1>1, PoolEmpty, LoopTypes
<1>4. ChannelPoolTypeOK'
  <2>1. abandoned' \subseteq Channels
    BY <1>2, PoolTypes
  <2>2. filled' \in 0 .. PoolSize
    BY <1>1, LoopTypes
  <2> QED BY <1>1, <1>3, <2>1, <2>2 DEF PoolInv, ChannelPoolTypeOK
<1>5. LoopInv'
  BY <1>1, LoopTypes DEF LoopInv
<1>6. ConnInv'
  BY <1>1, LoopTypes DEF ConnInv
<1>7. HandInv'
  BY <1>1 DEF HandInv
<1>8. ApartInv'
  BY <1>1, <1>3 DEF ApartInv
<1>9. LostInv'
  BY <1>1, <1>2 DEF LostInv
<1>10. LoopSound'
  BY <1>1, LoopTypes DEF LoopSound, ClosedForGood, PoolOpenWhenListening,
                         GivesUpOnlyExhausted
<1> QED BY <1>4, <1>5, <1>6, <1>7, <1>8, <1>9, <1>10 DEF PoolInv

LEMMA KeepsFillPool ==
  ASSUME PoolInv, FillPool
  PROVE  PoolInv'
<1> USE LoopTypes
<1>1. /\ UNCHANGED <<conn, up, pool, poolClosed, isClosed, heard, note, filled, count,
                     failures, pc, hand, own, dead, abandoned, losses>>
      /\ UNCHANGED userVars
      /\ rc = "fill"
  BY DEF FillPool, poolVars, newsVars, userVars
<1>2. CASE filled < PoolSize /\ Opens /\ opened' = Fresh /\ rc' = "push" /\ UNCHANGED ready
  <2>1. /\ Fresh \in Channels /\ on[Fresh] = 0
        /\ Fresh \notin Held(pool) /\ Fresh # opened
        /\ \A v \in Users : Fresh # hand[v] /\ Fresh # own[v]
        /\ conn \in up /\ UNCHANGED faults
        /\ on' = [on EXCEPT ![Fresh] = conn]
    BY <1>2, FreshChannel
  <2>2. /\ on' \in [Channels -> up \cup {0}] /\ \A c \in Channels \ {Fresh} : on'[c] = on[c]
        /\ Fresh # NoChannel /\ opened = NoChannel
    BY <1>1, <2>1, PoolTypes DEF LoopInv
  <2>3. ChannelPoolTypeOK'
    BY <1>1, <1>2, <2>1, <2>2 DEF PoolInv, ChannelPoolTypeOK
  <2>4. LoopInv'
    BY <1>1, <1>2, <2>2 DEF LoopInv
  <2>5. ConnInv'
    BY <1>1, <1>2, <2>1 DEF ConnInv
  <2>6. HandInv'
    BY <1>1, PoolTypes DEF HandInv
  <2>7. ApartInv'
    BY <1>1, <1>2, <2>1, PoolTypes DEF ApartInv
  <2>8. LostInv'
    BY <1>1, <1>2, <2>1, <2>2, PoolTypes DEF LostInv
  <2>9. LoopSound'
    BY <1>1, <1>2 DEF LoopSound, ClosedForGood, PoolOpenWhenListening,
                      GivesUpOnlyExhausted
  <2> QED BY <2>3, <2>4, <2>5, <2>6, <2>7, <2>8, <2>9 DEF PoolInv
<1>3. CASE OpensNot /\ rc' = "drain" /\ UNCHANGED <<on, opened, ready>>
  <2>1. /\ faults' = faults \/ faults' = faults + 1
        /\ faults' \in 0 .. MaxPoolFaults
        /\ IsConnected => faults' = faults + 1
    BY <1>3, OpensNotBudget DEF OpensNot, PoolFault
  <2>2. ~isClosed => conn <= losses + faults'
    <3>1. CASE faults' = faults + 1
      BY <3>1 DEF ConnInv
    <3>2. CASE faults' = faults /\ ~IsConnected
      BY <3>2 DEF ConnInv, IsConnected
    <3> QED BY <2>1, <3>1, <3>2
  <2>3. conn <= 1 + losses + faults'
    BY <2>1 DEF ConnInv
  <2>4. ConnInv'
    BY <1>1, <1>3, <2>2, <2>3 DEF ConnInv
  <2>5. LoopInv'
    BY <1>1, <1>3 DEF LoopInv
  <2>6. LoopSound'
    BY <1>1, <1>3 DEF LoopSound, ClosedForGood, PoolOpenWhenListening,
                      GivesUpOnlyExhausted
  <2> QED BY <1>1, <1>3, <2>1, <2>4, <2>5, <2>6, LoopFrame DEF PoolInv, ChannelPoolTypeOK
<1>4. CASE rc' = "notify" /\ ready' = TRUE /\ UNCHANGED <<on, opened, faults>>
  <2>1. ConnInv'
    BY <1>1, <1>4 DEF ConnInv
  <2>2. LoopInv'
    BY <1>1, <1>4 DEF LoopInv
  <2>3. LoopSound'
    BY <1>1, <1>4 DEF LoopSound, ClosedForGood, PoolOpenWhenListening,
                      GivesUpOnlyExhausted
  <2> QED BY <1>1, <1>4, <2>1, <2>2, <2>3, LoopFrame DEF PoolInv, ChannelPoolTypeOK
<1> QED BY <1>2, <1>3, <1>4 DEF FillPool

LEMMA KeepsPushChannel ==
  ASSUME PoolInv, PushChannel
  PROVE  PoolInv'
<1> USE LoopTypes
<1>1. /\ UNCHANGED <<conn, up, on, poolClosed, isClosed, heard, note, count, failures,
                     pc, hand, own, ready, abandoned, losses, faults>>
      /\ UNCHANGED userVars
      /\ rc = "push" /\ opened \in Channels /\ opened # NoChannel
  BY PoolTypes DEF PushChannel, connVars, newsVars, userVars, boundVars, LoopInv
<1>2. CASE dead' = TRUE /\ UNCHANGED <<pool, opened, filled, rc>>
  <2>1. LoopInv' /\ ConnInv'
    BY <1>1, <1>2 DEF LoopInv, ConnInv
  <2>2. LoopSound'
    BY <1>1, <1>2 DEF LoopSound, ClosedForGood, PoolOpenWhenListening,
                      GivesUpOnlyExhausted
  <2> QED BY <1>1, <1>2, <2>1, <2>2, LoopFrame DEF PoolInv, ChannelPoolTypeOK
<1>3. CASE /\ Len(pool) < PoolSize
           /\ pool' = Append(pool, opened)
           /\ opened' = NoChannel /\ filled' = filled + 1 /\ rc' = "fill"
           /\ UNCHANGED dead
  <2>1. /\ pool' \in Seq(Channels) /\ Len(pool') <= PoolSize
        /\ \A c : c \in Held(pool') <=> c \in Held(pool) \/ c = opened
        /\ Distinct(pool) /\ opened \notin Held(pool) => Distinct(pool')
    <3>1. pool' \in Seq(Channels) /\ Len(pool') = Len(pool) + 1 /\ Len(pool) \in Nat
      BY <1>1, <1>3, PoolTypes, PoolAppend
    <3>2. Len(pool') <= PoolSize
      BY <1>3, <3>1
    <3>3. /\ Held(pool') = Held(pool) \cup {opened}
          /\ Distinct(pool) /\ opened \notin Held(pool) => Distinct(pool')
      BY <1>1, <1>3, PoolTypes, PoolAppend
    <3> QED BY <3>1, <3>2, <3>3
  <2>2. filled < PoolSize /\ filled' \in 0 .. PoolSize
    BY <1>1, <1>3 DEF LoopInv
  <2>3. ChannelPoolTypeOK'
    BY <1>1, <1>3, <2>1, <2>2 DEF PoolInv, ChannelPoolTypeOK
  <2>4. LoopInv'
    BY <1>1, <1>3 DEF LoopInv
  <2>5. ConnInv'
    BY <1>1, <1>3 DEF ConnInv
  <2>6. HandInv'
    BY <1>1, PoolTypes DEF HandInv
  <2>7. ApartInv'
    <3>1. /\ Distinct(pool') /\ NoChannel \notin Held(pool')
          /\ \A v \in Users : hand[v] # opened /\ own[v] # opened
      <4>1. \A c \in Held(pool) : c \in Channels
        BY PoolTypes DEF Held
      <4> QED BY <1>1, <2>1, <4>1, PoolTypes DEF ApartInv
    <3> QED BY <1>1, <1>3, <2>1, <3>1, PoolTypes DEF ApartInv
  <2>8. LostInv'
    BY <1>1, <1>3, <2>1, PoolTypes DEF LostInv
  <2>9. LoopSound'
    BY <1>1, <1>3 DEF LoopSound, ClosedForGood, PoolOpenWhenListening,
                      GivesUpOnlyExhausted
  <2> QED BY <2>3, <2>4, <2>5, <2>6, <2>7, <2>8, <2>9 DEF PoolInv
<1> QED BY <1>2, <1>3 DEF PushChannel

LEMMA KeepsDrainPool ==
  ASSUME PoolInv, DrainPool
  PROVE  PoolInv'
<1> USE LoopTypes
<1>1. /\ UNCHANGED <<conn, up, isClosed, heard, note, opened, filled, pc, hand, own,
                     ready, abandoned, losses, faults>>
      /\ UNCHANGED userVars
      /\ rc = "drain"
  BY DEF DrainPool, newsVars, userVars, boundVars
<1>2. CASE dead' = TRUE /\ UNCHANGED <<on, pool, poolClosed, rc, count, failures>>
  <2>1. LoopInv' /\ ConnInv'
    BY <1>1, <1>2 DEF LoopInv, ConnInv
  <2>2. LoopSound'
    BY <1>1, <1>2 DEF LoopSound, ClosedForGood, PoolOpenWhenListening,
                      GivesUpOnlyExhausted
  <2> QED BY <1>1, <1>2, <2>1, <2>2, LoopFrame DEF PoolInv, ChannelPoolTypeOK
<1>3. CASE /\ poolClosed' = TRUE /\ pool' = <<>>
           /\ on' = Shut({c \in Channels : InPool(c)})
           /\ AfterDrain /\ UNCHANGED dead
  <2>1. /\ rc' \in {"dial", "gone"} /\ count' \in 0 .. MaxReconnect /\ failures' \in Nat
        /\ (rc' # "gone" => count' < MaxReconnect) /\ count' <= failures'
        /\ (ready /\ rc' = "gone" => failures' >= MaxReconnect)
    BY <1>1, <1>3, AttemptEffect DEF AfterDrain
  <2>2. pool' \in Seq(Channels) /\ Len(pool') <= PoolSize /\ Held(pool') = {} /\ Distinct(pool')
    BY <1>3, PoolEmpty
  <2>3. /\ on' \in [Channels -> up \cup {0}]
        /\ \A c \in Channels : on'[c] # 0 => on[c] # 0 /\ c \notin Held(pool)
    BY <1>3, PoolTypes, PoolView DEF Shut
  <2>4. ChannelPoolTypeOK'
    BY <1>1, <1>3, <2>1, <2>2, <2>3 DEF PoolInv, ChannelPoolTypeOK
  <2>5. LoopInv'
    BY <1>1, <2>1 DEF LoopInv
  <2>6. ConnInv'
    BY <1>1, <2>1 DEF ConnInv
  <2>7. HandInv'
    BY <1>1, PoolTypes DEF HandInv
  <2>8. ApartInv'
    BY <1>1, <2>2, PoolTypes DEF ApartInv
  <2>9. LostInv'
    BY <1>1, <2>3, PoolTypes DEF LostInv
  <2>10. LoopSound'
    BY <1>1, <1>3, <2>1 DEF LoopSound, ClosedForGood, PoolOpenWhenListening,
                            GivesUpOnlyExhausted
  <2> QED BY <2>4, <2>5, <2>6, <2>7, <2>8, <2>9, <2>10 DEF PoolInv
<1> QED BY <1>2, <1>3 DEF DrainPool

LEMMA KeepsNotify ==
  ASSUME PoolInv, Notify
  PROVE  PoolInv'
<1> USE LoopTypes
<1>1. /\ UNCHANGED <<pool, on, userVars, abandoned, opened, poolClosed, isClosed>>
      /\ UNCHANGED <<conn, up, filled, ready, dead, losses, faults>>
      /\ rc = "notify" /\ rc' = "listen" /\ count' = 0 /\ failures' = 0
  BY DEF Notify, connVars, poolVars, boundVars, CountReset
<1>2. \/ isClosed /\ heard' = heard /\ note' = note
      \/ heard' = conn /\ note' = IF conn \in up THEN "none" ELSE "closed"
  BY DEF Notify, newsVars
<1>3. heard' \in Conns \cup {0} /\ note' \in {"none", "err", "closed"}
  BY <1>2
<1>4. ConnInv'
  BY <1>1, <1>2 DEF ConnInv
<1>5. LoopInv'
  BY <1>1 DEF LoopInv
<1>6. LoopSound'
  BY <1>1 DEF LoopSound, ClosedForGood, PoolOpenWhenListening, GivesUpOnlyExhausted
<1> QED BY <1>1, <1>3, <1>4, <1>5, <1>6, LoopFrame DEF PoolInv, ChannelPoolTypeOK

LEMMA KeepsReceiveNews ==
  ASSUME PoolInv, ReceiveNews
  PROVE  PoolInv'
<1> USE LoopTypes
<1>1. /\ UNCHANGED <<pool, on, userVars, abandoned, opened, poolClosed, isClosed>>
      /\ UNCHANGED <<conn, up, heard, filled, count, failures, ready, dead, losses, faults>>
      /\ rc = "listen" /\ note # "none" /\ note' = "none"
      /\ rc' = IF isClosed THEN "gone" ELSE "dial"
  BY DEF ReceiveNews, connVars, poolVars, boundVars, AfterNews
<1>2. ConnInv'
  BY <1>1 DEF ConnInv
<1>3. LoopInv'
  BY <1>1 DEF LoopInv
<1>4. LoopSound'
  BY <1>1 DEF LoopSound, ClosedForGood, PoolOpenWhenListening, GivesUpOnlyExhausted
<1> QED BY <1>1, <1>2, <1>3, <1>4, LoopFrame DEF PoolInv, ChannelPoolTypeOK

LEMMA KeepsTick ==
  ASSUME PoolInv, Tick
  PROVE  PoolInv'
<1> USE LoopTypes
<1>1. /\ UNCHANGED <<pool, on, userVars, abandoned, opened, poolClosed, isClosed>>
      /\ UNCHANGED <<conn, up, heard, note, filled, count, failures, ready, losses, faults>>
      /\ rc = "listen"
      /\ \/ dead' = TRUE /\ rc' = rc
         \/ rc' = "stuck" /\ dead' = dead
  BY DEF Tick, connVars, poolVars, newsVars, boundVars
<1>2. ConnInv'
  BY <1>1 DEF ConnInv
<1>3. LoopInv'
  BY <1>1 DEF LoopInv
<1>4. LoopSound'
  BY <1>1 DEF LoopSound, ClosedForGood, PoolOpenWhenListening, GivesUpOnlyExhausted
<1> QED BY <1>1, <1>2, <1>3, <1>4, LoopFrame DEF PoolInv, ChannelPoolTypeOK

LEMMA KeepsLose ==
  ASSUME PoolInv, NEW g \in Conns, Lose(g)
  PROVE  PoolInv'
<1> USE LoopTypes
<1>1. /\ UNCHANGED <<conn, pool, poolClosed, isClosed, heard, rc, opened, filled, count,
                     failures, pc, hand, own, ready, dead, faults>>
      /\ g \in up /\ losses < MaxLosses /\ losses' = losses + 1 /\ up' = up \ {g}
      /\ note' = IF g = heard THEN "err" ELSE note
  BY DEF Lose, poolVars, rcVars, userVars
<1>2. /\ on' \in [Channels -> up' \cup {0}]
      /\ \A c \in Channels : on'[c] # 0 => on[c] # 0 /\ on[c] # g
  BY <1>1, PoolTypes DEF Lose, Shut, OpenOn
<1>3. abandoned' = abandoned \ {c \in Channels : on[c] = g}
  BY DEF Lose, OpenOn
<1>4. ChannelPoolTypeOK'
  <2>1. up' \subseteq Conns /\ abandoned' \subseteq Channels /\ losses' \in 0 .. MaxLosses
    BY <1>1, <1>3, PoolTypes, ChannelPoolAssumption
  <2> QED BY <1>1, <1>2, <2>1 DEF PoolInv, ChannelPoolTypeOK
<1>5. LoopInv'
  BY <1>1 DEF LoopInv
<1>6. ConnInv'
  <2>1. conn <= 1 + losses /\ faults = 0 => conn <= 1 + losses'
    BY <1>1
  <2>2. conn <= losses' + faults
    BY <1>1 DEF ConnInv
  <2>3. conn <= 1 + losses' + faults
    BY <1>1, <2>2
  <2> QED BY <1>1, <2>2, <2>3 DEF ConnInv
<1>7. HandInv'
  BY <1>1, PoolTypes DEF HandInv
<1>8. ApartInv'
  BY <1>1, PoolTypes DEF ApartInv
<1>9. LostInv'
  BY <1>1, <1>2, <1>3, PoolTypes DEF LostInv
<1>10. LoopSound'
  BY <1>1 DEF LoopSound, ClosedForGood, PoolOpenWhenListening, GivesUpOnlyExhausted
<1> QED BY <1>4, <1>5, <1>6, <1>7, <1>8, <1>9, <1>10 DEF PoolInv

LEMMA KeepsClose ==
  ASSUME PoolInv, Close
  PROVE  PoolInv'
<1> USE LoopTypes
<1>1. /\ UNCHANGED <<conn, heard, rc, opened, filled, count, failures, pc, hand, own,
                     ready, losses, faults>>
      /\ isClosed' = TRUE
  BY DEF Close, rcVars, userVars, boundVars
<1>2. LoopInv' /\ HandInv'
  BY <1>1, PoolTypes DEF LoopInv, HandInv
<1>3. ConnInv'
  BY <1>1 DEF ConnInv
<1>4. CASE dead' = TRUE /\ UNCHANGED <<on, up, pool, poolClosed, note, abandoned>>
  <2>1. ChannelPoolTypeOK'
    BY <1>1, <1>4 DEF PoolInv, ChannelPoolTypeOK
  <2>2. ApartInv' /\ LostInv'
    BY <1>1, <1>4, PoolTypes DEF ApartInv, LostInv
  <2>3. LoopSound'
    BY <1>1, <1>4 DEF LoopSound, ClosedForGood, PoolOpenWhenListening,
                      GivesUpOnlyExhausted
  <2> QED BY <1>2, <1>3, <2>1, <2>2, <2>3 DEF PoolInv
<1>5. CASE ~poolClosed
  <2> DEFINE gone == UNION {OpenOn(g) : g \in ClosedConn}
  <2>1. /\ poolClosed' = TRUE /\ pool' = <<>> /\ up' = up \ {conn}
        /\ on' = Shut({c \in Channels : InPool(c)} \cup gone)
        /\ abandoned' = abandoned \ gone
        /\ note' \in {"none", "err", "closed"} /\ dead' = dead
    BY <1>5 DEF Close, ClosedConn
  <2>2. \A c \in Channels : c \in gone <=> on[c] = conn /\ conn \in up
    BY DEF OpenOn, ClosedConn
  <2> HIDE DEF gone
  <2>3. \A c \in Channels : on'[c] = IF c \in Held(pool) \/ c \in gone THEN 0 ELSE on[c]
    BY <2>1, PoolView DEF Shut
  <2>4. /\ on' \in [Channels -> up' \cup {0}]
        /\ \A c \in Channels : on'[c] # 0 => on[c] # 0 /\ c \notin Held(pool) /\ c \notin gone
    <3>1. on' = [c \in Channels |-> on'[c]]
      BY <2>1 DEF Shut
    <3>2. \A c \in Channels : on'[c] \in up' \cup {0}
      BY <2>1, <2>2, <2>3, PoolTypes
    <3> QED BY <2>3, <3>1, <3>2
  <2>5. pool' \in Seq(Channels) /\ Len(pool') <= PoolSize /\ Held(pool') = {} /\ Distinct(pool')
    BY <2>1, PoolEmpty
  <2>6. ChannelPoolTypeOK'
    <3>1. up' \subseteq Conns /\ abandoned' \subseteq Channels
      BY <2>1, PoolTypes
    <3> QED BY <1>1, <2>1, <2>4, <2>5, <3>1 DEF PoolInv, ChannelPoolTypeOK
  <2>7. ApartInv'
    BY <1>1, <2>5, PoolTypes DEF ApartInv
  <2>8. LostInv'
    BY <1>1, <2>1, <2>4, PoolTypes DEF LostInv
  <2>9. LoopSound'
    BY <1>1, <2>1 DEF LoopSound, ClosedForGood, PoolOpenWhenListening,
                      GivesUpOnlyExhausted
  <2> QED BY <1>2, <1>3, <2>6, <2>7, <2>8, <2>9 DEF PoolInv
<1> QED BY <1>4, <1>5 DEF Close

-----------------------------------------------------------------------------
(* The theorems.                                                           *)

LEMMA PoolInitially == PoolInit => PoolInv
<1> SUFFICES ASSUME PoolInit PROVE PoolInv
  OBVIOUS
<1> USE ChannelPoolAssumption
<1>1. ChannelPoolTypeOK
  <2>1. pool \in Seq(Channels) /\ Len(pool) <= PoolSize
    BY PoolEmpty DEF PoolInit
  <2>2. filled \in 0 .. PoolSize /\ count \in 0 .. MaxReconnect /\ failures \in Nat
    BY DEF PoolInit
  <2>3. losses \in 0 .. MaxLosses /\ faults \in 0 .. MaxPoolFaults
    BY DEF PoolInit
  <2>4. on \in [Channels -> up \cup {0}]
    BY DEF PoolInit
  <2> QED BY <2>1, <2>2, <2>3, <2>4 DEF PoolInit, ChannelPoolTypeOK
<1>2. LoopInv /\ ConnInv /\ HandInv
  BY DEF PoolInit, LoopInv, ConnInv, HandInv
<1>3. NoChannel \notin Held(pool) /\ Distinct(pool)
  BY PoolEmpty DEF PoolInit
<1>4. ApartInv /\ LostInv
  BY <1>3 DEF PoolInit, ApartInv, LostInv
<1>5. LoopSound
  BY DEF PoolInit, LoopSound, ClosedForGood, PoolOpenWhenListening, GivesUpOnlyExhausted
<1> QED BY <1>1, <1>2, <1>4, <1>5 DEF PoolInv

LEMMA PoolStep == PoolInv /\ [PoolNext]_clientVars => PoolInv'
<1> SUFFICES ASSUME PoolInv, [PoolNext]_clientVars PROVE PoolInv'
  OBVIOUS
<1>1. ASSUME NEW u \in Users, Operation(u) \/ ChannelDies(u) PROVE PoolInv'
  BY <1>1, KeepsOperation
<1>2. CASE Reconnect
  BY <1>2, KeepsDial, KeepsMakePool, KeepsFillPool, KeepsPushChannel, KeepsDrainPool,
     KeepsNotify, KeepsReceiveNews DEF Reconnect
<1>3. CASE Tick \/ Close
  BY <1>3, KeepsTick, KeepsClose
<1>4. ASSUME NEW g \in Conns, Lose(g) PROVE PoolInv'
  BY <1>4, KeepsLose
<1>5. CASE UNCHANGED clientVars
  <2>1. UNCHANGED <<conn, up, on, pool, poolClosed, isClosed, heard, note, rc, opened,
                    filled, count, failures, pc, hand, own, ready, dead, abandoned,
                    losses, faults>>
    BY <1>5 DEF clientVars, connVars, poolVars, newsVars, rcVars, userVars, boundVars
  <2>2. ChannelPoolTypeOK'
    BY <2>1 DEF PoolInv, ChannelPoolTypeOK
  <2>3. LoopInv' /\ ConnInv' /\ HandInv'
    BY <2>1 DEF PoolInv, LoopInv, ConnInv, HandInv
  <2>4. ApartInv' /\ LostInv'
    BY <2>1 DEF PoolInv, ApartInv, LostInv
  <2>5. LoopSound'
    BY <2>1 DEF PoolInv, LoopSound, ClosedForGood, PoolOpenWhenListening,
                GivesUpOnlyExhausted
  <2> QED BY <2>2, <2>3, <2>4, <2>5 DEF PoolInv
<1> QED BY <1>1, <1>2, <1>3, <1>4, <1>5 DEF PoolNext

\* The pool, the connection, autoReconnect and the goroutines keep the
\* invariant whatever the numbers of goroutines, channels and faults are.
THEOREM PoolInvariant == PoolSpec => []PoolInv
<1> QED BY PoolInitially, PoolStep, PTL DEF PoolSpec

\* A set without two different elements.
LEMMA AtMostOne ==
  ASSUME NEW S, \A x, y \in S : x = y
  PROVE  Cardinality(S) <= 1
<1>1. CASE S = {}
  BY <1>1, FS_EmptySet
<1>2. CASE S # {}
  <2>1. PICK x \in S : TRUE
    BY <1>2
  <2>2. S = {x}
    BY <2>1
  <2> QED BY <2>2, FS_Singleton
<1> QED BY <1>1, <1>2

\* No AMQP channel is ever with two goroutines, or with one and in the pool,
\* or twice in the pool: GetChannel, ReturnChannel, Consume and
\* initChannelPool never share one.
THEOREM ChannelsApart == PoolSpec => []ChannelsHeldOnce
<1>1. PoolInv => ChannelsHeldOnce
  <2> SUFFICES ASSUME PoolInv PROVE OneHolder
    BY DEF PoolInv, ChannelsHeldOnce
  <2> DEFINE holders(c) ==
        {<<"hand", u>> : u \in {v \in Users : hand[v] = c}}
        \cup {<<"own", u>> : u \in {v \in Users : own[v] = c}}
        \cup {<<"pool", i>> : i \in {j \in 1 .. Len(pool) : pool[j] = c}}
        \cup (IF opened = c THEN {<<"opened", c>>} ELSE {})
  <2> SUFFICES ASSUME NEW c \in Channels PROVE Cardinality(holders(c)) <= 1
    BY DEF OneHolder
  <2>1. ASSUME NEW x \in holders(c), NEW y \in holders(c) PROVE x = y
    <3>1. c # NoChannel /\ ApartInv
      BY PoolTypes
    <3>2. /\ \A u, v \in Users : hand[u] = c /\ hand[v] = c => u = v
          /\ \A u, v \in Users : own[u] = c /\ own[v] = c => u = v
          /\ \A u, v \in Users : ~(hand[u] = c /\ own[v] = c)
          /\ \A u \in Users : hand[u] = c \/ own[u] = c => opened # c /\ c \notin Held(pool)
          /\ opened = c => c \notin Held(pool)
      BY <3>1 DEF ApartInv
    <3>3. \A i, j \in 1 .. Len(pool) : pool[i] = c /\ pool[j] = c => i = j
      BY <3>1 DEF ApartInv, Distinct
    <3>4. \A i \in 1 .. Len(pool) : pool[i] \in Held(pool)
      BY DEF Held
    <3>5. ASSUME NEW z \in holders(c)
          PROVE  \/ \E u \in Users : z = <<"hand", u>> /\ hand[u] = c
                 \/ \E u \in Users : z = <<"own", u>> /\ own[u] = c
                 \/ \E i \in 1 .. Len(pool) : z = <<"pool", i>> /\ pool[i] = c
                 \/ z = <<"opened", c>> /\ opened = c
      BY <3>5
    <3> HIDE DEF holders
    <3>6. CASE \E u \in Users : x = <<"hand", u>> /\ hand[u] = c
      BY <3>2, <3>4, <3>5, <3>6
    <3>7. CASE \E u \in Users : x = <<"own", u>> /\ own[u] = c
      BY <3>2, <3>4, <3>5, <3>7
    <3>8. CASE \E i \in 1 .. Len(pool) : x = <<"pool", i>> /\ pool[i] = c
      BY <3>2, <3>3, <3>4, <3>5, <3>8
    <3>9. CASE x = <<"opened", c>> /\ opened = c
      BY <3>2, <3>4, <3>5, <3>9
    <3> QED BY <3>5, <3>6, <3>7, <3>8, <3>9
  <2> HIDE DEF holders
  <2> QED BY <2>1, AtMostOne
<1> QED BY <1>1, PoolInvariant, PTL

\* Every open channel is with somebody, in the pool, or among those that a
\* replacement of the pool or a send to a closed one is known to leave open.
THEOREM OpenChannelsAccounted == PoolSpec => []NoOpenChannelLost
<1>1. PoolInv => NoOpenChannelLost
  BY PoolView DEF PoolInv
<1> QED BY <1>1, PoolInvariant, PTL

\* autoReconnect dials while the connection before is open only after a fault.
OlderInv ==
    /\ OlderLeftByFault
    /\ ~isClosed /\ rc \in {"drain", "dial"} => conn \notin up \/ faults > 0

LEMMA OlderStep == PoolInv /\ OlderInv /\ [PoolNext]_clientVars => OlderInv'
<1> SUFFICES ASSUME PoolInv, OlderInv, [PoolNext]_clientVars PROVE OlderInv'
  OBVIOUS
<1>0. faults \in Nat
  BY ChannelPoolAssumption DEF PoolInv, ChannelPoolTypeOK
<1>1. ASSUME NEW u \in Users, Operation(u) \/ ChannelDies(u) PROVE OlderInv'
  <2>1. UNCHANGED <<conn, up, isClosed, rc>>
    BY <1>1 DEF Operation, GetChannel, Select, CreateChannel, ReturnChannel, PutBack, Consume,
                DeliveriesEnd, ChannelDies, connVars, rcVars
  <2>2. faults' = faults \/ faults' = faults + 1
    <3>1. CASE CreateChannel(u)
      BY <3>1 DEF CreateChannel, Opens, OpensNot, PoolFault
    <3>2. CASE Consume(u)
      BY <3>2 DEF Consume, Opens, OpensNot, PoolFault
    <3>3. CASE ChannelDies(u)
      BY <3>3 DEF ChannelDies, PoolFault
    <3>4. CASE GetChannel(u) \/ Select(u) \/ ReturnChannel(u) \/ PutBack(u) \/ DeliveriesEnd(u)
      BY <3>4 DEF GetChannel, Select, ReturnChannel, PutBack, DeliveriesEnd, boundVars
    <3> QED BY <1>1, <3>1, <3>2, <3>3, <3>4 DEF Operation
  <2> QED BY <1>0, <2>1, <2>2 DEF OlderInv, OlderLeftByFault
<1>2. CASE Dial
  <2>1. CASE ~isClosed /\ conn' = conn + 1 /\ up' = up \cup {conn + 1} /\ rc' = "make"
             /\ faults' = faults
    BY <1>2, <2>1 DEF Dial, OlderInv, OlderLeftByFault
  <2>2. CASE UNCHANGED <<conn, up>> /\ faults' = faults
    BY <1>2, <2>2 DEF Dial, OlderInv, OlderLeftByFault
  <2> QED BY <1>2, <2>1, <2>2 DEF Dial, MayDial, boundVars
<1>3. CASE MakePool \/ PushChannel \/ Notify \/ Tick
  <2>1. UNCHANGED <<conn, up, isClosed, faults>> /\ (rc' \notin {"drain", "dial"} \/ rc' = rc)
    BY <1>3 DEF MakePool, PushChannel, Notify, Tick, connVars, boundVars
  <2> QED BY <2>1 DEF OlderInv, OlderLeftByFault
<1>4. CASE FillPool
  <2>1. UNCHANGED <<conn, up, isClosed>> /\ (faults' = faults \/ faults' = faults + 1)
        /\ (rc' # "drain" \/ OpensNot) /\ rc' # "dial"
    BY <1>4 DEF FillPool, Opens, OpensNot, PoolFault
  <2>2. OpensNot => isClosed \/ conn \notin up \/ faults' = faults + 1
    BY DEF OpensNot, IsConnected, PoolFault
  <2> QED BY <1>0, <2>1, <2>2 DEF OlderInv, OlderLeftByFault
<1>5. CASE DrainPool
  <2>1. UNCHANGED <<conn, up, isClosed, faults>> /\ rc = "drain"
    BY <1>5 DEF DrainPool, boundVars
  <2> QED BY <2>1 DEF OlderInv, OlderLeftByFault
<1>6. CASE ReceiveNews
  <2>1. /\ UNCHANGED <<conn, up, isClosed, faults>> /\ rc = "listen" /\ note # "none"
    BY <1>6 DEF ReceiveNews, connVars, boundVars
  <2>2. isClosed \/ conn \notin up
    BY <2>1 DEF PoolInv, ConnInv
  <2> QED BY <2>1, <2>2 DEF OlderInv, OlderLeftByFault
<1>7. CASE Close
  <2>1. isClosed' /\ up' \subseteq up /\ conn' = conn /\ faults' = faults
    BY <1>7 DEF Close, boundVars
  <2> QED BY <2>1 DEF OlderInv, OlderLeftByFault
<1>8. ASSUME NEW g \in Conns, Lose(g) PROVE OlderInv'
  <2>1. up' \subseteq up /\ UNCHANGED <<conn, isClosed, rc, faults>>
    BY <1>8 DEF Lose, rcVars
  <2> QED BY <2>1 DEF OlderInv, OlderLeftByFault
<1>9. CASE UNCHANGED clientVars
  BY <1>9 DEF clientVars, connVars, rcVars, boundVars, OlderInv, OlderLeftByFault
<1> QED BY <1>1, <1>2, <1>3, <1>4, <1>5, <1>6, <1>7, <1>8, <1>9 DEF PoolNext, Reconnect

\* After Close the current connection is not open, an older one is open only
\* after a fault, a client that listens has an open pool, and autoReconnect
\* gives up only after MaxReconnect failures in a row.
THEOREM ReconnectsSoundly == PoolSpec => []ReconnectionSound
<1>1. PoolInit => OlderInv
  BY DEF PoolInit, OlderInv, OlderLeftByFault
<1>2. PoolInv /\ OlderInv => ReconnectionSound
  BY DEF PoolInv, LoopSound, OlderInv, ReconnectionSound
<1> QED BY <1>1, <1>2, OlderStep, PoolInvariant, PTL DEF PoolSpec
=============================================================================
