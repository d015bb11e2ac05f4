------------------------------ MODULE Seckill ------------------------------
(***************************************************************************)
(* A flash-sale request on its way from SeckillOrder to the TCC transaction *)
(* that orders for it: limiter, stock check, batcher (pkg/bacher), Kafka,   *)
(* and the goroutines of the consumer (apps/seckill/rmq).  Every request    *)
(* builds a batcher of its own, which closes when the context of the        *)
(* request ends, so that a batch holds one message at most: its size and    *)
(* its buffer are never reached.                                           *)
(***************************************************************************)
EXTENDS Integers, Sequences, FiniteSets

CONSTANTS
    Requests, NoRequest,
    Users, UserOf,        \* UserOf[r]: who sent request r
    Products, ProductOf,  \* ProductOf[r]: what it is for
    Partitions, PartitionOf, \* PartitionOf[r]: the partition Kafka writes r to
    Channels,             \* the channels of the consumer, one goroutine each
    Shard,                \* Shard[p]: p % chanCount
    BufferCount,          \* capacity of a channel
    MaxStops,             \* bound: restarts of the consumer
    MaxFaults             \* bound: failed calls and dying RPC handlers

ASSUME SeckillAssumption ==
    /\ NoRequest \notin Requests
    /\ UserOf \in [Requests -> Users] /\ ProductOf \in [Requests -> Products]
    /\ PartitionOf \in [Requests -> Partitions]
    /\ Shard \in [Products -> Channels]
    /\ BufferCount \in Nat \ {0} /\ MaxStops \in Nat /\ MaxFaults \in Nat

VARIABLES
    pc,       \* pc[r]: where SeckillOrder is
    ended,    \* requests whose context is over
    box,      \* box[r]: the batcher's channel: "msg" and the nil of Close
    worker,   \* worker[r]: the goroutine of merge for that channel
    limited,  \* users whose period of the limiter is not over
    topic,    \* requests written to Kafka
    ahead,    \* ahead[r]: those written to r's partition before r
    fetched,  \* requests handed to Consume, or not to be delivered any more
    due,      \* those whose offset go-queue has still to commit
    committed, \* those in front of the kept offset of their partition
    status,   \* of the consumer process
    chan, serving,  \* per channel: what waits, and what its goroutine does
    quit,     \* channels whose goroutine has returned
    tried,    \* tried[r]: TCC transactions begun for r
    lost,     \* history: requests that a fault, a stop or a full channel took
    again,    \* history: requests delivered again
    stops, faults

requestVars == <<pc, ended, box, worker, limited>>
kafka == <<topic, ahead>>
consumerVars == <<fetched, due, committed, status, chan, serving, quit, tried, again, stops>>
vars == <<requestVars, kafka, consumerVars, lost, faults>>

SeckillTypeOK ==
    /\ pc \in [Requests -> {"new", "check", "add", "refused", "answered", "dead"}]
    /\ ended \subseteq Requests
    /\ box \in [Requests -> Seq({"msg", "nil"})]
    /\ worker \in [Requests -> {"waiting", "holding", "closing", "done"}]
    /\ limited \subseteq Users
    /\ topic \subseteq Requests
    /\ ahead \in [Requests -> SUBSET topic]
    /\ due \subseteq fetched /\ fetched \subseteq topic /\ committed \subseteq topic
    /\ status \in {"up", "stopping", "down"}
    /\ chan \in [Channels -> Seq(Requests)]
    /\ \A i \in Channels : Len(chan[i]) <= BufferCount
    /\ serving \in [Channels -> Requests \cup {NoRequest}]
    /\ quit \subseteq Channels
    /\ tried \in [Requests -> Nat]
    /\ lost \subseteq Requests /\ again \subseteq Requests
    /\ stops \in 0 .. MaxStops /\ faults \in 0 .. MaxFaults

Init ==
    /\ pc = [r \in Requests |-> "new"]
    /\ ended = {}
    /\ box = [r \in Requests |-> <<>>]
    /\ worker = [r \in Requests |-> "waiting"]
    /\ limited = {}
    /\ topic = {} /\ ahead = [r \in Requests |-> {}]
    /\ fetched = {} /\ due = {} /\ committed = {}
    /\ status = "up"
    /\ chan = [i \in Channels |-> <<>>]
    /\ serving = [i \in Channels |-> NoRequest]
    /\ quit = {}
    /\ tried = [r \in Requests |-> 0]
    /\ lost = {} /\ again = {}
    /\ stops = 0 /\ faults = 0

Fault == faults < MaxFaults /\ faults' = faults + 1

-----------------------------------------------------------------------------
(* SeckillOrder, one request.                                              *)

\* The limiter: one request per user and period.  A failed call to Redis
\* lets the request through.
Take(r) ==
    /\ pc[r] = "new"
    /\ \/ /\ UserOf[r] \in limited
          /\ pc' = [pc EXCEPT ![r] = "refused"]
          /\ UNCHANGED <<limited, faults>>
       \/ /\ UserOf[r] \notin limited
          /\ limited' = limited \cup {UserOf[r]}
          /\ pc' = [pc EXCEPT ![r] = "check"]
          /\ UNCHANGED faults
       \/ /\ Fault
          /\ pc' = [pc EXCEPT ![r] = "check"]
          /\ UNCHANGED limited
    /\ UNCHANGED <<ended, box, worker, kafka, consumerVars, lost>>

\* The limiter's key expires.
PeriodEnds(u) ==
    /\ u \in limited
    /\ limited' = limited \ {u}
    /\ UNCHANGED <<pc, ended, box, worker, kafka, consumerVars, lost, faults>>

\* ProductRPC.Product: a cached stock, or an error.
CheckStock(r) ==
    /\ pc[r] = "check"
    /\ \E place \in {"add", "refused"} : pc' = [pc EXCEPT ![r] = place]
    /\ UNCHANGED <<ended, box, worker, limited, kafka, consumerVars, lost, faults>>

\* batcher.Add never finds the channel full.  Once merge has seen the nil,
\* nobody reads the channel any more, and the answer is success all the same.
Add(r) ==
    /\ pc[r] = "add"
    /\ box' = [box EXCEPT ![r] = Append(@, "msg")]
    /\ pc' = [pc EXCEPT ![r] = "answered"]
    /\ lost' = IF r \in ended THEN lost \cup {r} ELSE lost
    /\ UNCHANGED <<ended, worker, limited, kafka, consumerVars, faults>>

\* The context ends when the caller gives up, and at the latest with the
\* answer: the batcher is closed, which sends a nil.
ContextEnds(r) ==
    /\ pc[r] # "new"
    /\ r \notin ended
    /\ ended' = ended \cup {r}
    /\ box' = [box EXCEPT ![r] = Append(@, "nil")]
    /\ UNCHANGED <<pc, worker, limited, kafka, consumerVars, lost, faults>>

-----------------------------------------------------------------------------
(* merge, the goroutine of the batcher's channel, and Do.                  *)

\* Mutant: merge returns on the nil without flushing.
OnNilAtOnce(state) == "done"

\* What merge does with the nil of Close: flush what it holds, then return.
OnNil(state) == IF state = "holding" THEN "closing" ELSE "done"

Receive(r) ==
    /\ worker[r] \in {"waiting", "holding"}
    /\ box[r] # <<>>
    /\ worker' = [worker EXCEPT ![r] =
                    IF Head(box[r]) = "msg" THEN "holding" ELSE OnNil(@)]
    /\ box' = [box EXCEPT ![r] = Tail(@)]
    /\ UNCHANGED <<pc, ended, limited, kafka, consumerVars, lost, faults>>

\* Kafka writes a request behind the others of its partition.
Write(r) ==
    /\ topic' = topic \cup {r}
    /\ ahead' = [ahead EXCEPT ![r] = {s \in topic : PartitionOf[s] = PartitionOf[r]}]

\* The ticker or Close: Do pushes the batch to Kafka.  A push that fails or
\* times out, whether or not Kafka has it, is logged and not repeated.
Flush(r) ==
    /\ worker[r] \in {"holding", "closing"}
    /\ worker' = [worker EXCEPT ![r] = IF @ = "holding" THEN "waiting" ELSE "done"]
    /\ \/ Write(r) /\ UNCHANGED <<lost, faults>>
       \/ Write(r) /\ Fault /\ UNCHANGED lost
       \/ Fault /\ lost' = lost \cup {r} /\ UNCHANGED kafka
    /\ UNCHANGED <<pc, ended, box, limited, consumerVars>>

\* A replica of the service dies with what its batcher has not pushed.
HandlerDies(r) ==
    /\ pc[r] # "new" /\ worker[r] # "done"
    /\ Fault
    /\ pc' = [pc EXCEPT ![r] = IF @ = "answered" THEN @ ELSE "dead"]
    /\ worker' = [worker EXCEPT ![r] = "done"]
    /\ box' = [box EXCEPT ![r] = <<>>]
    /\ ended' = ended \cup {r}
    /\ lost' = IF pc[r] = "answered" /\ r \notin topic THEN lost \cup {r} ELSE lost
    /\ UNCHANGED <<limited, kafka, consumerVars>>

-----------------------------------------------------------------------------
(* The consumer (Service).                                                 *)

ChannelOf(r) == Shard[ProductOf[r]]

\* What is in memory only: a stop or a crash loses it.
Waiting(i) == {chan[i][k] : k \in 1 .. Len(chan[i])}
InMemory ==
    {r \in Requests : r \in Waiting(ChannelOf(r)) \/ serving[ChannelOf(r)] = r}

HasRoom(i) == Len(chan[i]) < BufferCount

\* Consume, called by one of go-queue's processors, which take what was read
\* from a partition in any order.  A request whose channel is full is
\* discarded, and the message counts as handled.
Consume(r) ==
    /\ status = "up"
    /\ r \in topic \ fetched
    /\ fetched' = fetched \cup {r}
    /\ due' = due \cup {r}
    /\ LET i == ChannelOf(r) IN
          \/ /\ HasRoom(i)
             /\ chan' = [chan EXCEPT ![i] = Append(@, r)]
             /\ UNCHANGED lost
          \/ /\ ~HasRoom(i)
             /\ lost' = lost \cup {r}
             /\ UNCHANGED chan
    /\ UNCHANGED <<requestVars, kafka, committed, status, serving, quit, tried, again,
                   stops, faults>>

\* The offset of a request: everything up to it in its partition.
UpTo(r) == ahead[r] \cup {r}
Elsewhere(r) == {s \in committed : PartitionOf[s] # PartitionOf[r]}

\* After Consume has returned, go-queue commits the message, which puts the
\* offset of the partition behind it: requests before it that no processor
\* has consumed yet count as done too.  A commit that comes after a later
\* message's one is dropped, or puts the offset back.
Commit(r) ==
    /\ r \in due
    /\ due' = due \ {r}
    /\ \/ committed' = UpTo(r) \cup Elsewhere(r)
       \/ committed' = UpTo(r) \cup committed
    /\ UNCHANGED <<requestVars, kafka, fetched, status, chan, serving, quit, tried,
                   again, stops, lost, faults>>

\* consumeDTM takes the next request.  Its select may still do so after the
\* context is cancelled, for a closed channel hands out what it holds.
Serve(i) ==
    /\ i \notin quit
    /\ serving[i] = NoRequest
    /\ chan[i] # <<>>
    /\ serving' = [serving EXCEPT ![i] = Head(chan[i])]
    /\ chan' = [chan EXCEPT ![i] = Tail(@)]
    /\ UNCHANGED <<requestVars, kafka, fetched, due, committed, status, quit, tried, again,
                   stops, lost, faults>>

\* executeTccTransaction, with a new gid each time.  Whether the transaction
\* succeeds or not, the goroutine goes on to the next request.
Execute(i) ==
    /\ serving[i] # NoRequest
    /\ tried' = [tried EXCEPT ![serving[i]] = @ + 1]
    /\ serving' = [serving EXCEPT ![i] = NoRequest]
    /\ UNCHANGED <<requestVars, kafka, fetched, due, committed, status, chan, quit, again,
                   stops, lost, faults>>

\* SIGTERM or Close: the context is cancelled and the channels are closed.
Stop ==
    /\ status = "up"
    /\ stops < MaxStops
    /\ stops' = stops + 1
    /\ status' = "stopping"
    /\ UNCHANGED <<requestVars, kafka, fetched, due, committed, chan, serving, quit, tried,
                   again, lost, faults>>

Quit(i) ==
    /\ status = "stopping"
    /\ i \notin quit
    /\ serving[i] = NoRequest
    /\ quit' = quit \cup {i}
    /\ UNCHANGED <<requestVars, kafka, fetched, due, committed, status, chan, serving, tried,
                   again, stops, lost, faults>>

\* Mutant: the offsets are not kept.
FetchedBeforeNone == {}

\* What Kafka does not deliver to a process that starts: it reads on from
\* the offset of each partition.
FetchedBefore == committed

\* The process is gone: every goroutine has returned or ten seconds are over;
\* or it died, be it that the generation of a gid panics as it does when DTM
\* is not reachable, or that Consume sends to a channel that is closed.
Down(cause) ==
    /\ cause
    /\ status' = "down"
    /\ fetched' = FetchedBefore
    /\ due' = {}
    /\ again' = again \cup (fetched \ committed)
    /\ chan' = [i \in Channels |-> <<>>]
    /\ serving' = [i \in Channels |-> NoRequest]
    /\ quit' = {}
    /\ lost' = lost \cup (committed \cap (InMemory \cup (topic \ fetched)))
    /\ UNCHANGED <<requestVars, kafka, committed, tried, stops>>

Crash ==
    /\ Down(status # "down")
    /\ Fault

Stopped ==
    /\ Down(status = "stopping")
    /\ UNCHANGED faults

Restart ==
    /\ status = "down"
    /\ status' = "up"
    /\ UNCHANGED <<requestVars, kafka, fetched, due, committed, chan, serving, quit, tried,
                   again, stops, lost, faults>>

-----------------------------------------------------------------------------

Next ==
    \/ \E r \in Requests :
          \/ Take(r) \/ CheckStock(r) \/ Add(r) \/ ContextEnds(r)
          \/ Receive(r) \/ Flush(r) \/ HandlerDies(r)
          \/ Consume(r) \/ Commit(r)
    \/ \E u \in Users : PeriodEnds(u)
    \/ \E i \in Channels : Serve(i) \/ Execute(i) \/ Quit(i)
    \/ Stop \/ Stopped \/ Crash \/ Restart

Spec == Init /\ [][Next]_vars

-----------------------------------------------------------------------------
(* Properties.                                                             *)

\* A request that was answered with success and that no failed push, full
\* channel, late Add, stop or crash took is somewhere on its way: in the
\* batcher ahead of its nil, in Kafka, or in a channel; or it was tried.  A
\* stop or a crash takes what is in memory only, a request that waits behind
\* the offset of its partition for a processor included.
NothingVanishes ==
    \A r \in Requests :
        pc[r] = "answered" /\ r \notin lost =>
            \/ box[r] # <<>> /\ Head(box[r]) = "msg" /\ worker[r] = "waiting"
            \/ worker[r] \in {"holding", "closing"}
            \/ r \in topic \ fetched
            \/ r \in InMemory
            \/ tried[r] > 0

\* A second transaction is begun for a request only if Kafka delivered it
\* again, because the consumer went down before it had kept the offset: no
\* request is in two places of one consumer.
TriedOnceUnlessAgain ==
    \A r \in Requests :
        /\ tried[r] > 1 => r \in again
        /\ r \in InMemory /\ tried[r] > 0 => r \in again

\* Channels, batchers and offsets keep their types, and on the way through
\* them a request is executed once unless it was delivered again.
RequestsTriedOnce == SeckillTypeOK /\ TriedOnceUnlessAgain
=============================================================================
