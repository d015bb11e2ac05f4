--------------------------- MODULE SeckillProofs ---------------------------
(***************************************************************************)
(* The flash sale with any number of requests, users, products, channels,  *)
(* stops and faults.  The inductive invariant follows a request: what its  *)
(* batcher still holds until it is in Kafka, where the consumer keeps it   *)
(* from the moment it was fetched, and that it is in one place of the      *)
(* consumer only.                                                          *)
(***************************************************************************)
EXTENDS Seckill, SequenceTheorems, TLAPS

\* Where a request stands before Kafka has it.  A context that ends first
\* has its nil in front of the message, which counts as lost then.
BatchInv ==
    \A r \in Requests :
        /\ pc[r] # "answered" /\ r \notin ended => box[r] = <<>> /\ worker[r] = "waiting"
        /\ pc[r] = "answered" /\ r \notin lost =>
              \/ box[r] # <<>> /\ Head(box[r]) = "msg" /\ worker[r] = "waiting"
              \/ worker[r] \in {"holding", "closing"}
              \/ r \in topic

\* Where it is once the consumer has fetched it.
DeliveryInv ==
    \A r \in Requests :
        /\ r \in fetched => r \in InMemory \/ tried[r] > 0 \/ r \in lost
        /\ r \in InMemory => r \in fetched
        /\ tried[r] > 0 => r \in fetched \cup again

\* Every request is in its own channel, and in one place of it.
PlaceInv ==
    \A i \in Channels :
        /\ \A k \in 1 .. Len(chan[i]) : ChannelOf(chan[i][k]) = i
        /\ \A k, l \in 1 .. Len(chan[i]) : chan[i][k] = chan[i][l] => k = l
        /\ serving[i] # NoRequest =>
              ChannelOf(serving[i]) = i /\ serving[i] \notin Waiting(i)

SeckillInv ==
    SeckillTypeOK /\ BatchInv /\ DeliveryInv /\ PlaceInv /\ TriedOnceUnlessAgain

-----------------------------------------------------------------------------
(* Sequences: what stands in a channel after a send and after a receive.   *)

LEMMA AppendAt ==
  ASSUME NEW S, NEW s \in Seq(S), NEW x \in S
  PROVE  /\ Append(s, x) \in Seq(S) /\ Append(s, x) # <<>>
         /\ Len(s) \in Nat /\ Len(Append(s, x)) = Len(s) + 1
         /\ \A k \in 1 .. Len(s) : Append(s, x)[k] = s[k]
         /\ Append(s, x)[Len(s) + 1] = x
OBVIOUS

LEMMA HeadOfAppend ==
  ASSUME NEW S, NEW s \in Seq(S), NEW x \in S
  PROVE  Head(Append(s, x)) = IF s = <<>> THEN x ELSE Head(s)
<1>1. CASE s = <<>>
  BY <1>1
<1>2. CASE s # <<>>
  <2>1. Len(s) \in Nat \ {0} /\ Head(s) = s[1]
    BY <1>2
  <2>2. Append(s, x)[1] = s[1]
    BY <2>1, AppendAt
  <2> QED BY <1>2, <2>1, <2>2, AppendAt
<1> QED BY <1>1, <1>2

LEMMA TailAt ==
  ASSUME NEW S, NEW s \in Seq(S), s # <<>>
  PROVE  /\ Head(s) \in S /\ Head(s) = s[1] /\ 1 \in 1 .. Len(s)
         /\ Tail(s) \in Seq(S) /\ Len(s) \in Nat /\ Len(Tail(s)) = Len(s) - 1
         /\ \A k \in 1 .. Len(Tail(s)) : Tail(s)[k] = s[k + 1] /\ k + 1 \in 1 .. Len(s)
<1>1. Len(s) \in Nat \ {0} /\ Head(s) = s[1]
  BY EmptySeq
<1> QED BY <1>1, HeadTailProperties

\* A channel as a set of requests.
Elements(s) == {s[k] : k \in 1 .. Len(s)}

LEMMA ElementsAppend ==
  ASSUME NEW S, NEW s \in Seq(S), NEW x \in S
  PROVE  Elements(Append(s, x)) = Elements(s) \cup {x}
<1> DEFINE t == Append(s, x)
<1>1. /\ Len(s) \in Nat /\ Len(t) = Len(s) + 1 /\ t[Len(s) + 1] = x
      /\ \A k \in 1 .. Len(s) : t[k] = s[k]
  BY AppendAt
<1> HIDE DEF t
<1>2. ASSUME NEW y \in Elements(t) PROVE y \in Elements(s) \cup {x}
  BY <1>1, <1>2 DEF Elements
<1>3. ASSUME NEW y \in Elements(s) PROVE y \in Elements(t)
  BY <1>1, <1>3 DEF Elements
<1>4. x \in Elements(t)
  BY <1>1 DEF Elements
<1> QED BY <1>2, <1>3, <1>4 DEF t

LEMMA ElementsTail ==
  ASSUME NEW S, NEW s \in Seq(S), s # <<>>
  PROVE  /\ Elements(s) = {Head(s)} \cup Elements(Tail(s))
         /\ (\A k, l \in 1 .. Len(s) : s[k] = s[l] => k = l) =>
               Head(s) \notin Elements(Tail(s))
<1> DEFINE t == Tail(s)
<1>1. /\ Head(s) = s[1] /\ 1 \in 1 .. Len(s) /\ Len(s) \in Nat /\ Len(t) = Len(s) - 1
      /\ \A k \in 1 .. Len(t) : t[k] = s[k + 1] /\ k + 1 \in 1 .. Len(s)
  BY TailAt
<1> HIDE DEF t
<1>2. ASSUME NEW y \in Elements(s) PROVE y \in {Head(s)} \cup Elements(t)
  <2>1. PICK k \in 1 .. Len(s) : y = s[k]
    BY DEF Elements
  <2>2. CASE k = 1
    BY <1>1, <2>1, <2>2
  <2>3. CASE k # 1
    <3>1. k - 1 \in 1 .. Len(t) /\ t[k - 1] = s[(k - 1) + 1] /\ (k - 1) + 1 = k
      BY <1>1, <2>3
    <3> QED BY <2>1, <3>1 DEF Elements
  <2> QED BY <2>2, <2>3
<1>3. ASSUME NEW y \in Elements(t) PROVE y \in Elements(s)
  BY <1>1 DEF Elements
<1>4. Head(s) \in Elements(s)
  BY <1>1 DEF Elements
<1>5. ASSUME \A k, l \in 1 .. Len(s) : s[k] = s[l] => k = l,
             Head(s) \in Elements(t)
      PROVE  FALSE
  <2>1. PICK k \in 1 .. Len(t) : Head(s) = t[k]
    BY <1>5 DEF Elements
  <2>2. s[1] = s[k + 1] /\ 1 \in 1 .. Len(s) /\ k + 1 \in 1 .. Len(s) /\ k + 1 # 1
    BY <1>1, <2>1
  <2> QED BY <1>5, <2>2
<1> QED BY <1>2, <1>3, <1>4, <1>5 DEF t

\* The channel and the memory of a request.
LEMMA ChannelType ==
  ASSUME NEW r \in Requests
  PROVE  ChannelOf(r) \in Channels
BY SeckillAssumption DEF ChannelOf

LEMMA MemoryOf ==
  /\ \A i \in Channels : Waiting(i) = Elements(chan[i])
  /\ \A r \in Requests :
        r \in InMemory <=> r \in Waiting(ChannelOf(r)) \/ serving[ChannelOf(r)] = r
BY DEF Waiting, Elements, InMemory

-----------------------------------------------------------------------------
(* Initially.                                                              *)

LEMMA InitInv == Init => SeckillInv
<1> SUFFICES ASSUME Init PROVE SeckillInv
  OBVIOUS
<1> USE DEF Init
<1>1. SeckillTypeOK
  BY SeckillAssumption DEF SeckillTypeOK
<1>2. BatchInv
  BY DEF BatchInv
<1>3. InMemory = {}
  BY SeckillAssumption, ChannelType DEF InMemory, Waiting
<1>4. DeliveryInv /\ TriedOnceUnlessAgain
  BY <1>3 DEF DeliveryInv, TriedOnceUnlessAgain
<1>5. PlaceInv
  BY DEF PlaceInv, Waiting
<1> QED BY <1>1, <1>2, <1>4, <1>5 DEF SeckillInv

-----------------------------------------------------------------------------
(* What a step that is about the other half leaves true.                   *)

LEMMA BatchFrame ==
  ASSUME BatchInv, UNCHANGED requestVars, topic \subseteq topic', lost \subseteq lost'
  PROVE  BatchInv'
BY DEF BatchInv, requestVars

LEMMA ConsumerFrame ==
  ASSUME DeliveryInv, PlaceInv, TriedOnceUnlessAgain, UNCHANGED consumerVars,
         lost \subseteq lost'
  PROVE  DeliveryInv' /\ PlaceInv' /\ TriedOnceUnlessAgain'
<1>1. /\ InMemory' = InMemory
      /\ \A i \in Channels : Waiting(i)' = Waiting(i)
  BY DEF InMemory, Waiting, consumerVars
<1>2. DeliveryInv'
  BY <1>1 DEF DeliveryInv, consumerVars
<1>3. PlaceInv'
  BY <1>1 DEF PlaceInv, consumerVars
<1>4. TriedOnceUnlessAgain'
  BY <1>1 DEF TriedOnceUnlessAgain, consumerVars
<1> QED BY <1>2, <1>3, <1>4

LEMMA FaultType ==
  ASSUME SeckillTypeOK, Fault
  PROVE  faults' \in 0 .. MaxFaults
BY SeckillAssumption DEF SeckillTypeOK, Fault

-----------------------------------------------------------------------------
(* SeckillOrder and its batcher.                                           *)

LEMMA TakeStep == ASSUME SeckillInv, NEW r \in Requests, Take(r) PROVE SeckillInv'
<1> USE DEF SeckillInv, Take, kafka
<1>0. /\ faults' \in 0 .. MaxFaults /\ limited' \in SUBSET Users
      /\ pc' = [pc EXCEPT ![r] = "refused"] \/ pc' = [pc EXCEPT ![r] = "check"]
  BY FaultType, SeckillAssumption DEF SeckillTypeOK
<1>1. SeckillTypeOK'
  BY <1>0 DEF SeckillTypeOK, consumerVars
<1>2. BatchInv'
  BY DEF SeckillTypeOK, BatchInv
<1> QED BY <1>1, <1>2, ConsumerFrame

LEMMA PeriodEndsStep == ASSUME SeckillInv, NEW u \in Users, PeriodEnds(u) PROVE SeckillInv'
<1> USE DEF SeckillInv, PeriodEnds, kafka
<1>1. SeckillTypeOK'
  BY DEF SeckillTypeOK, consumerVars
<1>2. BatchInv'
  BY DEF BatchInv
<1> QED BY <1>1, <1>2, ConsumerFrame

LEMMA CheckStockStep == ASSUME SeckillInv, NEW r \in Requests, CheckStock(r) PROVE SeckillInv'
<1> USE DEF SeckillInv, CheckStock, kafka
<1>1. SeckillTypeOK'
  BY DEF SeckillTypeOK, consumerVars
<1>2. BatchInv'
  BY DEF SeckillTypeOK, BatchInv
<1> QED BY <1>1, <1>2, ConsumerFrame

LEMMA AddStep == ASSUME SeckillInv, NEW r \in Requests, Add(r) PROVE SeckillInv'
<1> USE DEF SeckillInv, Add, kafka
<1>1. /\ box[r] \in Seq({"msg", "nil"})
      /\ box' = [box EXCEPT ![r] = Append(box[r], "msg")]
  BY DEF SeckillTypeOK
<1>2. /\ Append(box[r], "msg") \in Seq({"msg", "nil"}) /\ Append(box[r], "msg") # <<>>
      /\ box[r] = <<>> => Head(Append(box[r], "msg")) = "msg"
  BY <1>1, AppendAt, HeadOfAppend
<1>3. SeckillTypeOK'
  BY <1>1, <1>2 DEF SeckillTypeOK, consumerVars
<1>4. ASSUME NEW s \in Requests
      PROVE  /\ pc'[s] # "answered" /\ s \notin ended' =>
                   box'[s] = <<>> /\ worker'[s] = "waiting"
             /\ pc'[s] = "answered" /\ s \notin lost' =>
                  \/ box'[s] # <<>> /\ Head(box'[s]) = "msg" /\ worker'[s] = "waiting"
                  \/ worker'[s] \in {"holding", "closing"}
                  \/ s \in topic'
  <2>1. CASE s = r
    <3>1. pc[r] # "answered" /\ pc'[r] = "answered" /\ box'[r] = Append(box[r], "msg")
      BY <1>1 DEF SeckillTypeOK
    <3>2. r \notin lost' => r \notin ended
      OBVIOUS
    <3> QED BY <1>2, <2>1, <3>1, <3>2 DEF BatchInv
  <2>2. CASE s # r
    BY <1>1, <2>2 DEF SeckillTypeOK, BatchInv
  <2> QED BY <2>1, <2>2
<1>5. BatchInv'
  BY <1>4 DEF BatchInv
<1> QED BY <1>3, <1>5, ConsumerFrame

LEMMA ContextEndsStep == ASSUME SeckillInv, NEW r \in Requests, ContextEnds(r) PROVE SeckillInv'
<1> USE DEF SeckillInv, ContextEnds, kafka
<1>1. /\ box[r] \in Seq({"msg", "nil"})
      /\ box' = [box EXCEPT ![r] = Append(box[r], "nil")]
  BY DEF SeckillTypeOK
<1>2. /\ Append(box[r], "nil") \in Seq({"msg", "nil"}) /\ Append(box[r], "nil") # <<>>
      /\ box[r] # <<>> => Head(Append(box[r], "nil")) = Head(box[r])
  BY <1>1, AppendAt, HeadOfAppend
<1>3. SeckillTypeOK'
  BY <1>1, <1>2 DEF SeckillTypeOK, consumerVars
<1>4. BatchInv'
  BY <1>1, <1>2 DEF SeckillTypeOK, BatchInv
<1> QED BY <1>3, <1>4, ConsumerFrame

LEMMA ReceiveStep == ASSUME SeckillInv, NEW r \in Requests, Receive(r) PROVE SeckillInv'
<1> USE DEF SeckillInv, Receive, kafka
<1>1. /\ box[r] \in Seq({"msg", "nil"}) /\ box[r] # <<>>
      /\ Tail(box[r]) \in Seq({"msg", "nil"})
      /\ box' = [box EXCEPT ![r] = Tail(box[r])]
      /\ worker' = [worker EXCEPT ![r] =
                      IF Head(box[r]) = "msg" THEN "holding" ELSE OnNil(worker[r])]
  BY TailAt DEF SeckillTypeOK
<1>2. OnNil(worker[r]) = IF worker[r] = "holding" THEN "closing" ELSE "done"
  BY DEF OnNil
<1>3. SeckillTypeOK'
  BY <1>1, <1>2 DEF SeckillTypeOK, consumerVars
<1>4. BatchInv'
  BY <1>1, <1>2 DEF SeckillTypeOK, BatchInv
<1> QED BY <1>3, <1>4, ConsumerFrame

LEMMA WriteType ==
  ASSUME SeckillTypeOK, NEW r \in Requests, Write(r)
  PROVE  /\ topic' = topic \cup {r}
         /\ ahead' \in [Requests -> SUBSET (topic \cup {r})]
BY DEF SeckillTypeOK, Write

LEMMA FlushFacts ==
  ASSUME SeckillTypeOK, NEW r \in Requests, Flush(r)
  PROVE  /\ topic' \in SUBSET Requests /\ topic \subseteq topic'
         /\ ahead' \in [Requests -> SUBSET topic']
         /\ lost' \in SUBSET Requests /\ lost \subseteq lost'
         /\ r \in topic' \cup lost'
         /\ faults' \in 0 .. MaxFaults
<1>0. faults' \in 0 .. MaxFaults
  <2>1. faults' = faults \/ Fault
    BY DEF Flush
  <2> QED BY <2>1, FaultType DEF SeckillTypeOK
<1>1. topic \in SUBSET Requests /\ lost \in SUBSET Requests
      /\ ahead \in [Requests -> SUBSET topic]
  BY DEF SeckillTypeOK
<1>2. CASE Write(r) /\ lost' = lost
  BY <1>0, <1>1, <1>2, WriteType
<1>3. CASE UNCHANGED kafka /\ lost' = lost \cup {r}
  BY <1>0, <1>1, <1>3 DEF kafka
<1> QED BY <1>2, <1>3 DEF Flush

LEMMA FlushStep == ASSUME SeckillInv, NEW r \in Requests, Flush(r) PROVE SeckillInv'
<1> USE DEF SeckillInv, Flush
<1>1. worker' = [worker EXCEPT ![r] = IF worker[r] = "holding" THEN "waiting" ELSE "done"]
  BY DEF SeckillTypeOK
<1>2. /\ topic' \in SUBSET Requests /\ topic \subseteq topic'
      /\ ahead' \in [Requests -> SUBSET topic']
      /\ lost' \in SUBSET Requests /\ lost \subseteq lost'
      /\ r \in topic' \cup lost'
      /\ faults' \in 0 .. MaxFaults
  BY FlushFacts
<1>3. SeckillTypeOK'
  BY <1>1, <1>2 DEF SeckillTypeOK, consumerVars
<1>4. BatchInv'
  BY <1>1, <1>2 DEF SeckillTypeOK, BatchInv
<1> QED BY <1>2, <1>3, <1>4, ConsumerFrame

LEMMA HandlerDiesStep == ASSUME SeckillInv, NEW r \in Requests, HandlerDies(r) PROVE SeckillInv'
<1> USE DEF SeckillInv, HandlerDies, kafka
<1>1. /\ pc' = [pc EXCEPT ![r] = IF pc[r] = "answered" THEN pc[r] ELSE "dead"]
      /\ <<>> \in Seq({"msg", "nil"}) /\ faults' \in 0 .. MaxFaults
      /\ lost' \in SUBSET Requests /\ lost \subseteq lost'
  BY FaultType DEF SeckillTypeOK
<1>2. SeckillTypeOK'
  BY <1>1 DEF SeckillTypeOK, consumerVars
<1>3. BatchInv'
  BY <1>1 DEF SeckillTypeOK, BatchInv
<1> QED BY <1>1, <1>2, <1>3, ConsumerFrame

-----------------------------------------------------------------------------
(* The consumer.                                                           *)

LEMMA ConsumeStep == ASSUME SeckillInv, NEW r \in Requests, Consume(r) PROVE SeckillInv'
<1> USE DEF SeckillInv, Consume, kafka
<1> DEFINE i == ChannelOf(r)
<1>0. /\ i \in Channels /\ chan[i] \in Seq(Requests) /\ Len(chan[i]) <= BufferCount
      /\ Len(chan[i]) \in Nat
  BY ChannelType DEF SeckillTypeOK
<1>1. \/ /\ Len(chan[i]) < BufferCount
         /\ chan' = [chan EXCEPT ![i] = Append(chan[i], r)] /\ lost' = lost
      \/ chan' = chan /\ lost' = lost \cup {r}
  BY <1>0 DEF SeckillTypeOK, HasRoom
<1>2. /\ Append(chan[i], r) \in Seq(Requests) /\ Len(Append(chan[i], r)) = Len(chan[i]) + 1
      /\ \A k \in 1 .. Len(chan[i]) : Append(chan[i], r)[k] = chan[i][k]
      /\ Append(chan[i], r)[Len(chan[i]) + 1] = r
      /\ Elements(Append(chan[i], r)) = Elements(chan[i]) \cup {r}
  BY <1>0, AppendAt, ElementsAppend
<1>3. r \notin InMemory /\ (tried[r] > 0 => r \in again)
  BY DEF DeliveryInv
<1> HIDE DEF i
<1>4. SeckillTypeOK'
  <2>1. BufferCount \in Nat
    BY SeckillAssumption
  <2>2. CASE chan' = chan /\ lost' = lost \cup {r}
    BY <2>2 DEF SeckillTypeOK, requestVars
  <2>3. CASE /\ Len(chan[i]) < BufferCount
             /\ chan' = [chan EXCEPT ![i] = Append(chan[i], r)] /\ lost' = lost
    <3>1. chan' \in [Channels -> Seq(Requests)]
      BY <1>0, <1>2, <2>3 DEF SeckillTypeOK
    <3>2. \A j \in Channels : Len(chan'[j]) <= BufferCount
      BY <1>0, <1>2, <2>1, <2>3 DEF SeckillTypeOK
    <3> QED BY <2>3, <3>1, <3>2 DEF SeckillTypeOK, requestVars
  <2> QED BY <1>1, <2>2, <2>3
<1>5. /\ \A j \in Channels \ {i} : Waiting(j)' = Waiting(j)
      /\ Waiting(i)' = Waiting(i) \/ Waiting(i)' = Waiting(i) \cup {r}
      /\ r \in Waiting(i)' \/ r \in lost'
  <2>1. \A j \in Channels : Waiting(j) = Elements(chan[j]) /\ Waiting(j)' = Elements(chan'[j])
    BY DEF Waiting, Elements
  <2>2. \A j \in Channels \ {i} : chan'[j] = chan[j]
    BY <1>0, <1>1 DEF SeckillTypeOK
  <2>3. \/ chan'[i] = chan[i] /\ r \in lost'
        \/ chan'[i] = Append(chan[i], r)
    BY <1>0, <1>1 DEF SeckillTypeOK
  <2> QED BY <1>0, <1>2, <2>1, <2>2, <2>3
<1>6. /\ \A s \in Requests \ {r} : s \in InMemory' <=> s \in InMemory
      /\ r \in InMemory' \/ r \in lost'
  <2>1. ASSUME NEW s \in Requests
        PROVE  s \in InMemory' <=> s \in Waiting(ChannelOf(s))' \/ serving[ChannelOf(s)] = s
    BY DEF InMemory, ChannelOf
  <2> QED BY <1>5, <2>1, ChannelType, MemoryOf DEF i
<1>7. DeliveryInv'
  BY <1>1, <1>6 DEF DeliveryInv, SeckillTypeOK
<1>8. PlaceInv'
  <2>1. ASSUME NEW j \in Channels
        PROVE  /\ \A k \in 1 .. Len(chan'[j]) : ChannelOf(chan'[j][k]) = j
               /\ \A k, l \in 1 .. Len(chan'[j]) : chan'[j][k] = chan'[j][l] => k = l
               /\ serving[j] # NoRequest =>
                     ChannelOf(serving[j]) = j /\ serving[j] \notin Waiting(j)'
    <3>1. CASE chan'[j] = chan[j]
      BY <3>1 DEF PlaceInv, Waiting
    <3>2. CASE chan'[j] # chan[j]
      <4>1. j = i /\ chan'[i] = Append(chan[i], r) /\ ChannelOf(r) = i
        BY <1>0, <1>1, <3>2 DEF SeckillTypeOK, i
      <4>2. r \notin Waiting(i) /\ serving[i] # r
        BY <1>3, MemoryOf DEF i
      <4>3. \A k \in 1 .. Len(chan[i]) : chan[i][k] # r
        BY <4>2 DEF Waiting
      <4>4. \A k \in 1 .. Len(chan'[i]) : k \in 1 .. Len(chan[i]) \/ k = Len(chan[i]) + 1
        BY <1>0, <1>2, <4>1
      <4>5. serving[i] # NoRequest =>
               ChannelOf(serving[i]) = i /\ serving[i] \notin Waiting(i)'
        BY <1>0, <1>5, <4>2 DEF PlaceInv
      <4>6. \A k \in 1 .. Len(chan'[i]) : ChannelOf(chan'[i][k]) = i
        BY <1>0, <1>2, <4>1, <4>4 DEF PlaceInv
      <4>7. \A k, l \in 1 .. Len(chan'[i]) : chan'[i][k] = chan'[i][l] => k = l
        BY <1>0, <1>2, <4>1, <4>3, <4>4 DEF PlaceInv
      <4> QED BY <4>1, <4>5, <4>6, <4>7
    <3> QED BY <3>1, <3>2
  <2> QED BY <2>1 DEF PlaceInv, Waiting, ChannelOf
<1>9. TriedOnceUnlessAgain'
  BY <1>3, <1>6 DEF TriedOnceUnlessAgain
<1>10. BatchInv'
  BY <1>1, BatchFrame DEF requestVars
<1> QED BY <1>4, <1>7, <1>8, <1>9, <1>10

LEMMA CommitStep == ASSUME SeckillInv, NEW r \in Requests, Commit(r) PROVE SeckillInv'
<1> USE DEF SeckillInv, Commit, kafka
<1>0. UpTo(r) \subseteq topic /\ Elsewhere(r) \subseteq topic
  BY DEF SeckillTypeOK, UpTo, Elsewhere
<1>1. SeckillTypeOK'
  BY <1>0 DEF SeckillTypeOK, requestVars
<1>2. InMemory' = InMemory /\ \A i \in Channels : Waiting(i)' = Waiting(i)
  BY DEF InMemory, Waiting
<1>3. DeliveryInv' /\ PlaceInv' /\ TriedOnceUnlessAgain'
  BY <1>2 DEF DeliveryInv, PlaceInv, TriedOnceUnlessAgain
<1>4. BatchInv'
  BY BatchFrame
<1> QED BY <1>1, <1>3, <1>4

LEMMA ServeStep == ASSUME SeckillInv, NEW i \in Channels, Serve(i) PROVE SeckillInv'
<1> USE DEF SeckillInv, Serve, kafka
<1> DEFINE r == Head(chan[i])
<1>0. chan[i] \in Seq(Requests) /\ chan[i] # <<>> /\ Len(chan[i]) <= BufferCount
  BY DEF SeckillTypeOK
<1>1. /\ r \in Requests /\ r = chan[i][1] /\ 1 \in 1 .. Len(chan[i])
      /\ Tail(chan[i]) \in Seq(Requests) /\ Len(chan[i]) \in Nat
      /\ Len(Tail(chan[i])) = Len(chan[i]) - 1
      /\ \A k \in 1 .. Len(Tail(chan[i])) :
            Tail(chan[i])[k] = chan[i][k + 1] /\ k + 1 \in 1 .. Len(chan[i])
  BY <1>0, TailAt
<1>2. /\ Elements(chan[i]) = {r} \cup Elements(Tail(chan[i]))
      /\ r \notin Elements(Tail(chan[i]))
  BY <1>0, ElementsTail DEF PlaceInv
<1>3. /\ chan' = [chan EXCEPT ![i] = Tail(chan[i])]
      /\ serving' = [serving EXCEPT ![i] = r]
  BY DEF SeckillTypeOK
<1>4. r # NoRequest /\ ChannelOf(r) = i
  BY <1>1, SeckillAssumption DEF PlaceInv
<1> HIDE DEF r
<1>5. SeckillTypeOK'
  <2>1. /\ chan' \in [Channels -> Seq(Requests)]
        /\ \A j \in Channels : Len(chan'[j]) <= BufferCount
    BY <1>0, <1>1, <1>3, SeckillAssumption DEF SeckillTypeOK
  <2> QED BY <1>1, <1>3, <2>1 DEF SeckillTypeOK, requestVars
<1>6. /\ \A j \in Channels \ {i} : Waiting(j)' = Waiting(j) /\ serving'[j] = serving[j]
      /\ Waiting(i) = {r} \cup Waiting(i)' /\ r \notin Waiting(i)' /\ serving'[i] = r
  <2>1. \A j \in Channels : Waiting(j) = Elements(chan[j]) /\ Waiting(j)' = Elements(chan'[j])
    BY DEF Waiting, Elements
  <2>2. /\ \A j \in Channels \ {i} : chan'[j] = chan[j] /\ serving'[j] = serving[j]
        /\ chan'[i] = Tail(chan[i]) /\ serving'[i] = r
    BY <1>3 DEF SeckillTypeOK
  <2> QED BY <1>2, <2>1, <2>2
<1>7. InMemory' = InMemory
  <2>1. ASSUME NEW s \in Requests
        PROVE  /\ s \in InMemory' <=> s \in Waiting(ChannelOf(s))' \/ serving'[ChannelOf(s)] = s
               /\ s \in InMemory <=> s \in Waiting(ChannelOf(s)) \/ serving[ChannelOf(s)] = s
    BY DEF InMemory, ChannelOf
  <2>2. ASSUME NEW s \in Requests PROVE s \in InMemory' <=> s \in InMemory
    <3>1. CASE ChannelOf(s) = i
      <4>1. serving[i] # s
        BY SeckillAssumption
      <4> QED BY <1>6, <2>1, <3>1, <4>1
    <3>2. CASE ChannelOf(s) # i
      BY <1>6, <2>1, <3>2, ChannelType
    <3> QED BY <3>1, <3>2
  <2>3. InMemory \subseteq Requests /\ InMemory' \subseteq Requests
    BY DEF InMemory
  <2> QED BY <2>2, <2>3
<1>8. DeliveryInv' /\ TriedOnceUnlessAgain'
  BY <1>7 DEF DeliveryInv, TriedOnceUnlessAgain
<1>9. PlaceInv'
  <2>1. ASSUME NEW j \in Channels \ {i}
        PROVE  /\ \A k \in 1 .. Len(chan'[j]) : ChannelOf(chan'[j][k]) = j
               /\ \A k, l \in 1 .. Len(chan'[j]) : chan'[j][k] = chan'[j][l] => k = l
               /\ serving'[j] # NoRequest =>
                     ChannelOf(serving'[j]) = j /\ serving'[j] \notin Waiting(j)'
    BY <1>3, <1>6 DEF SeckillTypeOK, PlaceInv
  <2>2. chan'[i] = Tail(chan[i])
    BY <1>3 DEF SeckillTypeOK
  <2>3. \A k \in 1 .. Len(chan'[i]) : ChannelOf(chan'[i][k]) = i
    BY <1>1, <2>2 DEF PlaceInv
  <2>4. ASSUME NEW k \in 1 .. Len(chan'[i]), NEW l \in 1 .. Len(chan'[i]),
               chan'[i][k] = chan'[i][l]
        PROVE  k = l
    <3>1. chan[i][k + 1] = chan[i][l + 1] /\ k + 1 \in 1 .. Len(chan[i])
          /\ l + 1 \in 1 .. Len(chan[i])
      BY <1>1, <2>2, <2>4
    <3>2. k + 1 = l + 1
      BY <3>1 DEF PlaceInv
    <3> QED BY <3>2
  <2>5. ChannelOf(serving'[i]) = i /\ serving'[i] \notin Waiting(i)'
    BY <1>4, <1>6
  <2>6. \A k, l \in 1 .. Len(chan'[i]) : chan'[i][k] = chan'[i][l] => k = l
    BY <2>4
  <2> QED BY <2>1, <2>3, <2>5, <2>6 DEF PlaceInv, Waiting, ChannelOf
<1>10. BatchInv'
  BY BatchFrame
<1> QED BY <1>5, <1>8, <1>9, <1>10

LEMMA ExecuteStep == ASSUME SeckillInv, NEW i \in Channels, Execute(i) PROVE SeckillInv'
<1> USE DEF SeckillInv, Execute, kafka
<1> DEFINE r == serving[i]
<1>1. /\ r \in Requests /\ ChannelOf(r) = i /\ r \notin Waiting(i) /\ r \in InMemory
      /\ r \in fetched
  <2>1. r \in Requests /\ ChannelOf(r) = i /\ r \notin Waiting(i)
    BY DEF SeckillTypeOK, PlaceInv
  <2>2. r \in InMemory
    BY <2>1, MemoryOf
  <2> QED BY <2>1, <2>2 DEF DeliveryInv
<1>2. /\ tried' = [tried EXCEPT ![r] = tried[r] + 1]
      /\ serving' = [serving EXCEPT ![i] = NoRequest]
      /\ tried[r] \in Nat
  BY <1>1 DEF SeckillTypeOK
<1> HIDE DEF r
<1>3. SeckillTypeOK'
  BY <1>1, <1>2 DEF SeckillTypeOK, requestVars
<1>4. \A j \in Channels : Waiting(j)' = Waiting(j)
  BY DEF Waiting
<1>5. r \notin InMemory' /\ \A s \in Requests \ {r} : s \in InMemory' <=> s \in InMemory
  <2>1. ASSUME NEW s \in Requests
        PROVE  /\ s \in InMemory' <=> s \in Waiting(ChannelOf(s))' \/ serving'[ChannelOf(s)] = s
               /\ s \in InMemory <=> s \in Waiting(ChannelOf(s)) \/ serving[ChannelOf(s)] = s
    BY DEF InMemory, ChannelOf
  <2>2. serving'[i] # r /\ serving[i] = r /\ \A j \in Channels \ {i} : serving'[j] = serving[j]
    BY <1>1, <1>2, SeckillAssumption DEF SeckillTypeOK, r
  <2>3. \A s \in Requests : s # NoRequest
    BY SeckillAssumption
  <2>4. serving'[i] = NoRequest
    BY <1>2 DEF SeckillTypeOK
  <2> QED BY <1>1, <1>4, <2>1, <2>2, <2>3, <2>4, ChannelType
<1>6. DeliveryInv'
  BY <1>1, <1>2, <1>5 DEF DeliveryInv, SeckillTypeOK
<1>7. TriedOnceUnlessAgain'
  <2>1. tried'[r] > 1 => r \in again
    BY <1>1, <1>2 DEF TriedOnceUnlessAgain, SeckillTypeOK
  <2>2. \A s \in Requests \ {r} : tried'[s] = tried[s]
    BY <1>2 DEF SeckillTypeOK
  <2> QED BY <1>5, <2>1, <2>2 DEF TriedOnceUnlessAgain
<1>8. PlaceInv'
  BY <1>2, <1>4 DEF SeckillTypeOK, PlaceInv, ChannelOf
<1>9. BatchInv'
  BY BatchFrame
<1> QED BY <1>3, <1>6, <1>7, <1>8, <1>9

\* Steps that only change the process: Stop, Quit, Restart.
LEMMA ProcessStep ==
  ASSUME SeckillInv, status' \in {"up", "stopping", "down"}, quit' \in SUBSET Channels,
         stops' \in 0 .. MaxStops,
         UNCHANGED <<requestVars, kafka, fetched, due, committed, chan, serving, tried,
                     again, lost, faults>>
  PROVE  SeckillInv'
<1> USE DEF SeckillInv, kafka
<1>1. SeckillTypeOK'
  BY DEF SeckillTypeOK, requestVars
<1>2. InMemory' = InMemory /\ \A i \in Channels : Waiting(i)' = Waiting(i)
  BY DEF InMemory, Waiting
<1>3. DeliveryInv' /\ PlaceInv' /\ TriedOnceUnlessAgain'
  BY <1>2 DEF DeliveryInv, PlaceInv, TriedOnceUnlessAgain
<1>4. BatchInv'
  BY BatchFrame
<1> QED BY <1>1, <1>3, <1>4

LEMMA DownStep ==
  ASSUME SeckillInv, NEW cause, Down(cause), faults' \in 0 .. MaxFaults
  PROVE  SeckillInv'
<1> USE DEF SeckillInv, Down, kafka
<1>1. SeckillTypeOK'
  <2>1. /\ chan' \in [Channels -> Seq(Requests)]
        /\ \A i \in Channels : Len(chan'[i]) <= BufferCount
    <3>1. <<>> \in Seq(Requests) /\ Len(<<>>) = 0 /\ BufferCount \in Nat
      BY SeckillAssumption
    <3> QED BY <3>1
  <2>2. /\ fetched' = committed /\ again' \in SUBSET Requests /\ lost' \in SUBSET Requests
        /\ serving' \in [Channels -> Requests \cup {NoRequest}]
    BY DEF SeckillTypeOK, FetchedBefore, InMemory
  <2> QED BY <2>1, <2>2 DEF SeckillTypeOK, requestVars
<1>2. InMemory' = {} /\ \A i \in Channels : Waiting(i)' = {}
  <2>1. \A i \in Channels : Waiting(i)' = {}
    BY DEF Waiting
  <2>2. \A r \in Requests : ~(r \in InMemory')
    BY <2>1, ChannelType, SeckillAssumption DEF InMemory, ChannelOf
  <2> QED BY <2>1, <2>2 DEF InMemory
<1>3. ASSUME NEW r \in Requests
      PROVE  /\ r \in fetched' => tried'[r] > 0 \/ r \in lost'
             /\ tried'[r] > 0 => r \in fetched' \cup again'
  BY DEF DeliveryInv, FetchedBefore, SeckillTypeOK
<1>4. DeliveryInv'
  BY <1>2, <1>3 DEF DeliveryInv
<1>5. TriedOnceUnlessAgain'
  BY <1>2 DEF TriedOnceUnlessAgain
<1>6. PlaceInv'
  BY DEF PlaceInv
<1>7. BatchInv'
  BY BatchFrame
<1> QED BY <1>1, <1>4, <1>5, <1>6, <1>7

-----------------------------------------------------------------------------

LEMMA StepInv == SeckillInv /\ [Next]_vars => SeckillInv'
<1> SUFFICES ASSUME SeckillInv, [Next]_vars PROVE SeckillInv'
  OBVIOUS
<1>1. ASSUME NEW r \in Requests,
             \/ Take(r) \/ CheckStock(r) \/ Add(r) \/ ContextEnds(r)
             \/ Receive(r) \/ Flush(r) \/ HandlerDies(r) \/ Consume(r) \/ Commit(r)
      PROVE  SeckillInv'
  BY <1>1, TakeStep, CheckStockStep, AddStep, ContextEndsStep, ReceiveStep, FlushStep,
     HandlerDiesStep, ConsumeStep, CommitStep
<1>2. ASSUME NEW u \in Users, PeriodEnds(u) PROVE SeckillInv'
  BY <1>2, PeriodEndsStep
<1>3. ASSUME NEW i \in Channels, Serve(i) \/ Execute(i) PROVE SeckillInv'
  BY <1>3, ServeStep, ExecuteStep
<1>4. ASSUME NEW i \in Channels, Quit(i) PROVE SeckillInv'
  <2>1. quit' \in SUBSET Channels /\ stops' \in 0 .. MaxStops
        /\ status' \in {"up", "stopping", "down"}
    BY <1>4 DEF SeckillInv, SeckillTypeOK, Quit
  <2> QED BY <1>4, <2>1, ProcessStep DEF Quit
<1>5. CASE Stop \/ Restart
  <2>1. quit' \in SUBSET Channels /\ stops' \in 0 .. MaxStops
        /\ status' \in {"up", "stopping", "down"}
    BY <1>5, SeckillAssumption DEF SeckillInv, SeckillTypeOK, Stop, Restart
  <2> QED BY <1>5, <2>1, ProcessStep DEF Stop, Restart
<1>6. CASE Stopped
  <2>1. Down(status = "stopping") /\ faults' \in 0 .. MaxFaults
    BY <1>6 DEF Stopped, SeckillInv, SeckillTypeOK
  <2> QED BY <2>1, DownStep
<1>7. CASE Crash
  <2>1. Down(status # "down") /\ faults' \in 0 .. MaxFaults
    BY <1>7, FaultType DEF Crash, SeckillInv
  <2> QED BY <2>1, DownStep
<1>8. CASE UNCHANGED vars
  <2>1. quit' \in SUBSET Channels /\ stops' \in 0 .. MaxStops
        /\ status' \in {"up", "stopping", "down"}
    BY <1>8 DEF SeckillInv, SeckillTypeOK, vars, consumerVars
  <2> QED BY <1>8, <2>1, ProcessStep DEF vars, consumerVars
<1> QED BY <1>1, <1>2, <1>3, <1>4, <1>5, <1>6, <1>7, <1>8 DEF Next

\* The invariant of the flash sale, for any number of requests, channels,
\* restarts and faults (SeckillOrder, batcher.merge, Service.Consume,
\* consumeDTM).
THEOREM SeckillInvariant == Spec => []SeckillInv
BY InitInv, StepInv, PTL DEF Spec

\* A request that was answered with success is on its way, was tried, or was
\* taken by one of the causes that `lost` counts.
THEOREM AnsweredNeverVanish == Spec => []NothingVanishes
<1>1. SeckillInv => NothingVanishes
  BY DEF SeckillInv, BatchInv, DeliveryInv, NothingVanishes
<1> QED BY <1>1, SeckillInvariant, PTL

\* No request is in two places of the consumer, and a second transaction is
\* begun only for one that Kafka delivered again.
THEOREM RequestsAreTriedOnce == Spec => []RequestsTriedOnce
<1>1. SeckillInv => RequestsTriedOnce
  BY DEF SeckillInv, RequestsTriedOnce
<1> QED BY <1>1, SeckillInvariant, PTL
=============================================================================
