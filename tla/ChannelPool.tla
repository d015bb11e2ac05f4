---------------------------- MODULE ChannelPool ----------------------------
(***************************************************************************)
(* The RabbitMQ client (pkg/mq/rabbitmq.go): a pool of AMQP channels over   *)
(* one connection, goroutines that take a channel, use it and return it,   *)
(* and autoReconnect, which replaces the connection and then the pool.     *)
(* What runs under r.lock is one step; initChannelPool writes r.pool and   *)
(* sends to it without the lock, one step at a time.                       *)
(***************************************************************************)
EXTENDS Integers, Sequences, FiniteSets

CONSTANTS
    Users, Subscribers, \* goroutines that call the pool; those that Consume
    Channels, NoChannel, \* bound: AMQP channels that exist at one time
    PoolSize, MaxReconnect,
    MaxLosses,  \* bound: connections the broker or the network ends
    MaxPoolFaults \* bound: failed channel openings, channel exceptions

ASSUME ChannelPoolAssumption ==
    /\ Subscribers \subseteq Users
    /\ NoChannel \notin Channels /\ IsFiniteSet(Channels)
    /\ PoolSize \in Nat \ {0} /\ MaxReconnect \in Nat \ {0}
    /\ MaxLosses \in Nat /\ MaxPoolFaults \in Nat

VARIABLES
    conn, up,   \* r.conn as a number, 0 for nil; the connections open
    on,         \* on[c]: the connection c is open on, 0 if c is closed
    pool, poolClosed, \* what r.pool holds; whether it was closed
    isClosed,   \* r.isClosed
    heard, note, \* connection closeChan belongs to, what there is to receive
    rc, opened, filled, count, \* autoReconnect and initChannelPool
    pc, hand,   \* per user: where it is, the channel it took
    own,        \* per subscriber: the channel it consumes on
    ready,      \* NewRabbitMQ has returned a client
    dead,       \* a panic ended the process
    abandoned,  \* history: channels left open in a pool that was replaced,
                \* or by a send to one that was closed
    failures,   \* history: attempts failed since the last that succeeded
    losses, faults

connVars == <<conn, up, on>>
poolVars == <<pool, poolClosed>>
newsVars == <<heard, note>>
rcVars == <<rc, opened, filled, count, failures>>
userVars == <<pc, hand, own>>
boundVars == <<losses, faults>>
clientVars == <<connVars, poolVars, isClosed, newsVars, rcVars, userVars, ready,
                dead, abandoned, boundVars>>

Conns == 1 .. 1 + MaxLosses + MaxPoolFaults

ChannelPoolTypeOK ==
    /\ conn \in Conns \cup {0} /\ up \subseteq Conns
    /\ on \in [Channels -> up \cup {0}]
    /\ pool \in Seq(Channels) /\ Len(pool) <= PoolSize
    /\ poolClosed \in BOOLEAN /\ isClosed \in BOOLEAN
    /\ heard \in Conns \cup {0} /\ note \in {"none", "err", "closed"}
    /\ rc \in {"dial", "make", "fill", "push", "drain", "notify", "listen",
               "stuck", "gone"}
    /\ opened \in Channels \cup {NoChannel}
    /\ filled \in 0 .. PoolSize /\ count \in 0 .. MaxReconnect
    /\ pc \in [Users -> {"idle", "own", "select", "create", "using",
                         "returning", "listening", "ended",
                         "panicked"}]
    /\ hand \in [Users -> Channels \cup {NoChannel}]
    /\ own \in [Users -> Channels \cup {NoChannel}]
    /\ abandoned \subseteq Channels
    /\ ready \in BOOLEAN /\ dead \in BOOLEAN
    /\ failures \in Nat
    /\ losses \in 0 .. MaxLosses /\ faults \in 0 .. MaxPoolFaults

PoolInit ==
    /\ conn = 0 /\ up = {} /\ on = [c \in Channels |-> 0]
    /\ pool = <<>> /\ poolClosed = FALSE /\ isClosed = FALSE
    /\ heard = 0 /\ note = "none"
    /\ rc = "dial" /\ opened = NoChannel /\ filled = 0 /\ count = 0
    /\ pc = [u \in Users |-> "idle"]
    /\ hand = [u \in Users |-> NoChannel] /\ own = [u \in Users |-> NoChannel]
    /\ abandoned = {}
    /\ ready = FALSE /\ dead = FALSE /\ failures = 0
    /\ losses = 0 /\ faults = 0

PoolFault == faults < MaxPoolFaults /\ faults' = faults + 1
IsOpen(c) == on[c] # 0
OpenOn(g) == {c \in Channels : on[c] = g}
Shut(cs) == [c \in Channels |-> IF c \in cs THEN 0 ELSE on[c]]
InPool(c) == \E i \in 1 .. Len(pool) : pool[i] = c
IsConnected == ~isClosed /\ conn \in up

\* Channels somebody refers to.
Referenced ==
    {c \in Channels : InPool(c) \/ c = opened
                      \/ \E u \in Users : c \in {hand[u], own[u]}}

\* createChannel on an open connection; the lock makes it one step.
Unused == {c \in Channels : c \notin Referenced /\ ~IsOpen(c)}
Fresh == CHOOSE c \in Unused : TRUE
Opens ==
    /\ IsConnected /\ Unused # {}
    /\ on' = [on EXCEPT ![Fresh] = conn]
    /\ UNCHANGED faults

\* createChannel returns an error.
OpensNot == IF IsConnected THEN PoolFault ELSE UNCHANGED faults

-----------------------------------------------------------------------------
(* GetChannel, ReturnChannel and the operations between them: DeclareQueue, *)
(* BindQueue, Publish, Qos, the monitors of the consumers, which defer the *)
(* return for ever (a user may stay where it is), and Consume, which opens *)
(* a channel of its own before it declares the queue.                      *)

Goto(u, place) == pc' = [pc EXCEPT ![u] = place]

\* A subscriber goes on to ch.Consume, or closes its channel and ends.
Succeeds(u) == Goto(u, IF u \in Subscribers THEN "listening" ELSE "idle")
Fails(u) ==
    /\ Goto(u, IF u \in Subscribers THEN "ended" ELSE "idle")
    /\ own' = [own EXCEPT ![u] = NoChannel]
    /\ on' = Shut({own[u]})

Consume(u) ==
    /\ ready /\ ~dead
    /\ u \in Subscribers /\ pc[u] = "idle"
    /\ \/ /\ Opens /\ own' = [own EXCEPT ![u] = Fresh]
          /\ Goto(u, "own")
       \/ OpensNot /\ Fails(u)
    /\ UNCHANGED <<conn, up, poolVars, isClosed, newsVars, rcVars, hand,
                   ready, dead, abandoned, losses>>

\* The check of isClosed, after which the lock is released.
GetChannel(u) ==
    /\ ready /\ ~dead
    /\ pc[u] = IF u \in Subscribers THEN "own" ELSE "idle"
    /\ IF isClosed
         THEN Fails(u)
         ELSE Goto(u, "select") /\ UNCHANGED <<own, on>>
    /\ UNCHANGED <<conn, up, poolVars, isClosed, newsVars, rcVars, hand,
                   ready, dead, abandoned, boundVars>>

\* Mutant: the channel taken stays in the pool.
TakenShared == pool

\* What the pool holds after a receive.
Taken == Tail(pool)

\* select { case ch := <-r.pool: ... default: ... }: a closed and empty pool
\* yields nil, on which ch.IsClosed() panics.
Select(u) ==
    /\ ~dead /\ pc[u] = "select"
    /\ \/ /\ pool # <<>>
          /\ pool' = Taken
          /\ IF IsOpen(Head(pool))
               THEN hand' = [hand EXCEPT ![u] = Head(pool)] /\ Goto(u, "using")
               ELSE Goto(u, "create") /\ UNCHANGED hand
       \/ /\ pool = <<>>
          /\ Goto(u, IF poolClosed THEN "panicked" ELSE "create")
          /\ UNCHANGED <<pool, hand>>
    /\ UNCHANGED <<connVars, poolClosed, isClosed, newsVars, rcVars, own,
                   ready, dead, abandoned, boundVars>>

CreateChannel(u) ==
    /\ ~dead /\ pc[u] = "create"
    /\ \/ /\ Opens /\ hand' = [hand EXCEPT ![u] = Fresh]
          /\ Goto(u, "using")
          /\ UNCHANGED own
       \/ OpensNot /\ Fails(u) /\ UNCHANGED hand
    /\ UNCHANGED <<conn, up, poolVars, isClosed, newsVars, rcVars, ready,
                   dead, abandoned, losses>>

\* A channel exception: what was asked for is refused and the broker closes
\* the channel.
ChannelDies(u) ==
    /\ ~dead /\ pc[u] = "using" /\ IsOpen(hand[u])
    /\ PoolFault
    /\ on' = Shut({hand[u]})
    /\ UNCHANGED <<conn, up, poolVars, isClosed, newsVars, rcVars, userVars,
                   ready, dead, abandoned, losses>>

\* ReturnChannel looks at the channel before it takes the lock.
ReturnChannel(u) ==
    /\ ~dead /\ pc[u] = "using"
    /\ IF IsOpen(hand[u])
         THEN Goto(u, "returning") /\ UNCHANGED <<on, hand, own>>
         ELSE Fails(u) /\ hand' = [hand EXCEPT ![u] = NoChannel]
    /\ UNCHANGED <<conn, up, poolVars, isClosed, newsVars, rcVars, ready,
                   dead, abandoned, boundVars>>

\* len(r.pool) < r.poolSize
HasRoom == Len(pool) < PoolSize

\* Mutant: a channel that finds no room is dropped and stays open.
SurplusDropped(u) == on

\* The channel is closed, not pooled.
Surplus(u) == Shut({hand[u]})

\* The rest of it, under the lock.  A send on a closed pool panics, and the
\* channel is left open.
PutBack(u) ==
    /\ ~dead /\ pc[u] = "returning"
    /\ hand' = [hand EXCEPT ![u] = NoChannel]
    /\ CASE isClosed \/ ~HasRoom ->
              on' = Surplus(u) /\ Succeeds(u) /\ UNCHANGED <<pool, abandoned>>
         [] ~isClosed /\ HasRoom /\ poolClosed ->
              /\ abandoned' = abandoned \cup {hand[u]} /\ Goto(u, "panicked")
              /\ UNCHANGED <<pool, on>>
         [] OTHER ->
              /\ pool' = Append(pool, hand[u]) /\ Succeeds(u)
              /\ UNCHANGED <<on, abandoned>>
    /\ UNCHANGED <<conn, up, poolClosed, isClosed, newsVars, rcVars, own,
                   ready, dead, boundVars>>

\* The subscriber's channel ends, before or after ch.Consume: so do its
\* deliveries, and nothing subscribes again.
DeliveriesEnd(u) ==
    /\ ~dead /\ pc[u] = "listening" /\ ~IsOpen(own[u])
    /\ Fails(u)
    /\ UNCHANGED <<conn, up, poolVars, isClosed, newsVars, rcVars, hand,
                   ready, dead, abandoned, boundVars>>

-----------------------------------------------------------------------------
(* NewRabbitMQ and autoReconnect.                                          *)

\* An attempt failed: the loop goes on while count < MaxReconnect.
\* NewRabbitMQ does not try again: without a connection it returns an error.
AttemptFails ==
    /\ failures' = failures + 1
    /\ IF count + 1 < MaxReconnect /\ ready
         THEN rc' = "dial" /\ count' = count + 1
         ELSE rc' = "gone" /\ count' = IF ready THEN count + 1 ELSE count

\* Mutant: connect does not look at isClosed.
MayDialAlways == TRUE

\* connect reaches the broker.
MayDial == ~isClosed

\* connect: the new connection takes the place of the old, which is closed
\* unless only a channel of it could not be opened; or the dial is refused.
Dial ==
    /\ ~dead /\ rc = "dial"
    /\ \/ /\ MayDial
          /\ conn' = conn + 1 /\ up' = up \cup {conn + 1}
          /\ rc' = "make"
          /\ UNCHANGED <<count, failures>>
       \/ AttemptFails /\ UNCHANGED <<conn, up>>
    /\ UNCHANGED <<on, poolVars, isClosed, newsVars, opened, filled, userVars,
                   ready, dead, abandoned, boundVars>>

\* initChannelPool: r.pool = make(chan *amqp.Channel, r.poolSize)
MakePool ==
    /\ ~dead /\ rc = "make"
    /\ abandoned' = abandoned \cup {c \in Channels : InPool(c) /\ IsOpen(c)}
    /\ pool' = <<>> /\ poolClosed' = FALSE
    /\ filled' = 0 /\ rc' = "fill"
    /\ UNCHANGED <<connVars, isClosed, newsVars, opened, count, failures,
                   userVars, ready, dead, boundVars>>

\* createChannel for one place of the pool, or the end of initChannelPool,
\* with which NewRabbitMQ returns.
FillPool ==
    /\ ~dead /\ rc = "fill"
    /\ \/ /\ filled < PoolSize
          /\ Opens /\ opened' = Fresh
          /\ rc' = "push"
          /\ UNCHANGED ready
       \/ /\ filled < PoolSize
          /\ OpensNot
          /\ rc' = "drain"
          /\ UNCHANGED <<on, opened, ready>>
       \/ /\ filled = PoolSize
          /\ rc' = "notify" /\ ready' = TRUE
          /\ UNCHANGED <<on, opened, faults>>
    /\ UNCHANGED <<conn, up, poolVars, isClosed, newsVars, filled, count,
                   failures, userVars, dead, abandoned, losses>>

\* r.pool <- ch, outside the lock: panics on a pool that Close has closed,
\* and waits while others have filled it.
PushChannel ==
    /\ ~dead /\ rc = "push"
    /\ \/ /\ poolClosed
          /\ dead' = TRUE
          /\ UNCHANGED <<pool, opened, filled, rc>>
       \/ /\ ~poolClosed /\ Len(pool) < PoolSize
          /\ pool' = Append(pool, opened)
          /\ opened' = NoChannel /\ filled' = filled + 1 /\ rc' = "fill"
          /\ UNCHANGED dead
    /\ UNCHANGED <<connVars, poolClosed, isClosed, newsVars, count, failures,
                   userVars, ready, abandoned, boundVars>>

\* After a pool could not be filled: the next attempt.
AfterDrain == AttemptFails

\* close(r.pool) and the end of the channels in it.  The pool may be closed
\* already; and NewRabbitMQ calls Close, which closes it a second time.
DrainPool ==
    /\ ~dead /\ rc = "drain"
    /\ IF poolClosed \/ ~ready
         THEN dead' = TRUE /\ UNCHANGED <<on, pool, poolClosed, rc, count, failures>>
         ELSE /\ poolClosed' = TRUE /\ pool' = <<>>
              /\ on' = Shut({c \in Channels : InPool(c)})
              /\ AfterDrain
              /\ UNCHANGED dead
    /\ UNCHANGED <<conn, up, isClosed, newsVars, opened, filled, userVars,
                   ready, abandoned, boundVars>>

\* reconnectCount after a success.
CountReset == 0

\* NotifyClose; the first time, not of a client that is closed already.  The
\* news of a connection that has ended is there at once.
Notify ==
    /\ ~dead /\ rc = "notify"
    /\ IF heard = 0 /\ isClosed
         THEN UNCHANGED newsVars
         ELSE heard' = conn /\ note' = IF conn \in up THEN "none" ELSE "closed"
    /\ count' = CountReset /\ failures' = 0
    /\ rc' = "listen"
    /\ UNCHANGED <<connVars, poolVars, isClosed, opened, filled, userVars,
                   ready, dead, abandoned, boundVars>>

\* Mutant: only the client's own Close is acted upon.
AfterNewsIgnored == IF isClosed THEN "gone" ELSE "listen"

\* What autoReconnect does about a connection that ended.
AfterNews == IF isClosed THEN "gone" ELSE "dial"

\* case err := <-closeChan
ReceiveNews ==
    /\ ~dead /\ rc = "listen" /\ note # "none"
    /\ note' = "none"
    /\ rc' = AfterNews
    /\ UNCHANGED <<connVars, poolVars, isClosed, heard, opened, filled, count,
                   failures, userVars, ready, dead, abandoned, boundVars>>

\* case <-ticker.C: closeChan is sent to by the goroutine that receives from
\* it.  The send waits for ever, or panics if the channel was closed.
Tick ==
    /\ ~dead /\ rc = "listen" /\ ~IsConnected
    /\ IF note = "closed" THEN dead' = TRUE /\ UNCHANGED rc
                          ELSE rc' = "stuck" /\ UNCHANGED dead
    /\ UNCHANGED <<connVars, poolVars, isClosed, newsVars, opened, filled,
                   count, failures, userVars, ready, abandoned, boundVars>>

\* The connection ends, with all channels on it.
Lose(g) ==
    /\ g \in up /\ losses < MaxLosses
    /\ losses' = losses + 1
    /\ up' = up \ {g} /\ on' = Shut(OpenOn(g))
    /\ abandoned' = abandoned \ OpenOn(g)
    /\ note' = IF g = heard THEN "err" ELSE note
    /\ UNCHANGED <<conn, poolVars, isClosed, heard, rcVars, userVars, ready,
                   dead, faults>>

\* The connections that Close ends.
ClosedConn == {conn} \cap up

\* Close closes a pool that a failed initChannelPool closed before, and
\* panics; the second call of Close returns at once.
Close ==
    /\ ready /\ ~dead /\ ~isClosed
    /\ isClosed' = TRUE
    /\ IF poolClosed
         THEN dead' = TRUE /\ UNCHANGED <<on, up, pool, poolClosed, note, abandoned>>
         ELSE /\ poolClosed' = TRUE /\ pool' = <<>>
              /\ up' = up \ ClosedConn
              /\ LET gone == UNION {OpenOn(g) : g \in ClosedConn} IN
                 /\ on' = Shut({c \in Channels : InPool(c)} \cup gone)
                 /\ abandoned' = abandoned \ gone
              /\ note' = IF heard \in ClosedConn THEN "closed" ELSE note
              /\ UNCHANGED dead
    /\ UNCHANGED <<conn, heard, rcVars, userVars, ready, boundVars>>

-----------------------------------------------------------------------------

Operation(u) ==
    \/ GetChannel(u) \/ Select(u) \/ CreateChannel(u)
    \/ ReturnChannel(u) \/ PutBack(u) \/ Consume(u) \/ DeliveriesEnd(u)

Reconnect ==
    \/ Dial \/ MakePool \/ FillPool \/ PushChannel \/ DrainPool \/ Notify
    \/ ReceiveNews

PoolNext ==
    \/ \E u \in Users : Operation(u) \/ ChannelDies(u)
    \/ Reconnect \/ Tick \/ Close
    \/ \E g \in Conns : Lose(g)

PoolSpec == PoolInit /\ [][PoolNext]_clientVars

\* The goroutine of autoReconnect is scheduled; its select may still take
\* the ticker instead of the news, and nobody need call the pool.
FairPoolSpec == PoolSpec /\ WF_clientVars(Reconnect)

-----------------------------------------------------------------------------
(* What the pool is for, and what becomes of it.                           *)

\* AMQP channels are not safe for two goroutines: a channel is with one of
\* them, or once in the pool, whatever GetChannel, ReturnChannel, Consume and
\* a replacement of the pool do at the same time.
OneHolder ==
    LET holders(c) == {<<"hand", u>> : u \in {v \in Users : hand[v] = c}}
                      \cup {<<"own", u>> : u \in {v \in Users : own[v] = c}}
                      \cup {<<"pool", i>> : i \in {j \in 1 .. Len(pool) : pool[j] = c}}
                      \cup (IF opened = c THEN {<<"opened", c>>} ELSE {})
    IN \A c \in Channels : Cardinality(holders(c)) <= 1

\* A channel that is open is with somebody or in the pool that GetChannel
\* takes from: channels beyond poolSize and those Close finds are closed.
\* Only one returned to the old pool while autoReconnect replaces it, or to a
\* pool that was closed because it could not be filled, stays open.
NoOpenChannelLost ==
    \A c \in Channels : IsOpen(c) => c \in Referenced \cup abandoned

\* Close ends the current connection and the client opens none again, although
\* a reconnection may be in progress when it is called.
ClosedForGood == isClosed /\ ~dead => conn \notin up

\* Close knows the current connection only.  An older one is open beside it
\* only when initChannelPool could not open a channel on it: autoReconnect
\* then dials past it, and nobody closes it.
OlderLeftByFault == up \subseteq {conn} \/ faults > 0

\* GetChannel yields a nil channel, and ReturnChannel panics, only while a
\* reconnection is retrying or was given up: once autoReconnect listens
\* again, the pool it left takes and gives channels.
PoolOpenWhenListening ==
    rc \in {"fill", "push", "notify", "listen"} /\ ~isClosed => ~poolClosed

\* autoReconnect gives up only after MaxReconnect failures in a row, however
\* many outages it has overcome before.
GivesUpOnlyExhausted ==
    ready /\ rc = "gone" /\ ~isClosed => failures >= MaxReconnect

\* Pool, connection and goroutines keep their types, and no channel is in two
\* hands.
ChannelsHeldOnce == ChannelPoolTypeOK /\ OneHolder

\* What a reconnection may count on and what it must not do: the client that
\* was closed stays closed, the one that listens has a pool, the one that gives
\* up has tried, and connections are left open for one reason only.
ReconnectionSound ==
    /\ ClosedForGood /\ OlderLeftByFault
    /\ PoolOpenWhenListening /\ GivesUpOnlyExhausted

\* initChannelPool waits to send to a pool that returned channels filled.
PushBlocked == rc = "push" /\ Len(pool) >= PoolSize

\* A client whose connection ended gets another and listens to it, unless
\* autoReconnect gave up, took the ticker first and waits for itself, waits
\* for room in the pool, or the client was closed.
Reconnects ==
    ready /\ ~IsConnected ~>
        \/ IsConnected /\ rc = "listen"
        \/ isClosed \/ dead \/ rc \in {"gone", "stuck"} \/ PushBlocked

=============================================================================
