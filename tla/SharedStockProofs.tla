------------------------- MODULE SharedStockProofs -------------------------
(***************************************************************************)
(* Direct sales, alone and beside order sagas, for any number of requests, *)
(* calls, orders, write-backs, restarts, expiries and faults.              *)
(*                                                                         *)
(* Direct sales: the inductive invariant says what the set of processed    *)
(* requests means, that the books of the hash balance, and, while the hash *)
(* is kept, what every write-back in flight still knows about it: a        *)
(* compare-and-set that will succeed has its UPDATE behind it.             *)
(*                                                                         *)
(* With sagas: three books of the pieces, one of the table and two of the  *)
(* hash, and what each order's place says of the pre-lock that it has.     *)
(***************************************************************************)
EXTENDS MCSharedStock, PreLockProofs, TLAPS

ProcessedInv ==
    /\ \A r \in Requests : charged[r] = IF r \in processed THEN 1 ELSE 0
    /\ \A c \in Calls : call[c].pc = "ok" => RequestOf[c] \in processed

WriterInv(x) ==
    x.pc \in {"update", "cas"} =>
        /\ x.syncUsed < x.used
        /\ x.syncUsed <= hash.syncUsed
        /\ x.used <= hash.used
        /\ x.pc = "cas" /\ x.syncUsed = hash.syncUsed => stock + x.used <= InitialStock

\* While the hash is kept, nobody is about to write it over.
KeptInv ==
    /\ hash.available # Missing /\ hash.total = InitialStock /\ ~hash.invalid
    /\ stock # NoProduct
    /\ \A c \in Calls : call[c].pc \notin {"load", "write", "retry"}
    /\ warm.pc # "write"
    /\ hash.syncUsed + stock <= InitialStock /\ hash.syncUsed <= hash.used
    /\ \A c \in Calls : WriterInv(sync[c])

DirectInv ==
    /\ SyncTypeOK
    /\ ProcessedInv
    /\ HashBalanced
    /\ kept => KeptInv

\* Call c, or its write-back, moves and no other one.
CallMoves(c) ==
    /\ call' \in [Calls -> [pc : Pending \cup {"ok", "failed"},
                            seen : Nat \cup {NoProduct}]]
    /\ \A d \in Calls \ {c} : call'[d] = call[d]

SyncMoves(c) ==
    /\ sync' \in [Calls -> [pc : Running \cup {"none", "done"},
                            used : Nat, syncUsed : Nat]]
    /\ \A d \in Calls \ {c} : sync'[d] = sync[d]

LEMMA InitDirect == Init => DirectInv
<1> SUFFICES ASSUME Init PROVE DirectInv
  OBVIOUS
<1> DEFINE HashType == [total : Nat, available : Nat \cup {Missing}, used : Nat,
                        syncUsed : Nat, invalid : BOOLEAN]
<1>0. InitialStock \in Nat /\ MaxLapses \in Nat /\ MaxRestarts \in Nat /\ MaxFaults \in Nat
  BY SyncAssumption
<1>h. /\ NoHash \in HashType /\ HashOf(InitialStock) \in HashType
      /\ NoHash.available = Missing
      /\ HashOf(InitialStock).available = InitialStock
      /\ HashOf(InitialStock).total = InitialStock
      /\ HashOf(InitialStock).used = 0 /\ HashOf(InitialStock).syncUsed = 0
      /\ ~HashOf(InitialStock).invalid
  BY <1>0 DEF HashOf, NoHash
<1>i. NoHash # HashOf(InitialStock)
  BY <1>0, <1>h DEF Missing
<1>1. SyncTypeOK
  <2>1. hash \in HashType
    BY <1>h DEF Init
  <2>2. /\ call \in [Calls -> [pc : Pending \cup {"ok", "failed"},
                               seen : Nat \cup {NoProduct}]]
        /\ sync \in [Calls -> [pc : Running \cup {"none", "done"},
                               used : Nat, syncUsed : Nat]]
        /\ warm \in [pc : {"off", "check", "write"}, seen : Nat]
    BY DEF Init, Pending, Running
  <2> QED BY <1>0, <2>1, <2>2 DEF SyncTypeOK, Init
<1>2. ProcessedInv
  BY DEF ProcessedInv, Init
<1>3. HashBalanced
  BY <1>0, <1>h DEF HashBalanced, Init
<1>4. ASSUME kept PROVE KeptInv
  <2>1. hash = HashOf(InitialStock) /\ stock = InitialStock
    BY <1>4, <1>i DEF Init
  <2>2. \A c \in Calls : call[c].pc = "new" /\ sync[c].pc = "none"
    BY DEF Init
  <2>3. hash.available # Missing /\ stock # NoProduct /\ warm.pc = "off"
    BY <1>0, <1>h, <2>1 DEF Missing, NoProduct, Init
  <2> QED BY <1>0, <1>h, <2>1, <2>2, <2>3 DEF KeptInv, WriterInv
<1> QED BY <1>1, <1>2, <1>3, <1>4 DEF DirectInv

\* What Goto and Step write.
LEMMA GotoMoves ==
  ASSUME SyncTypeOK, NEW c \in Calls,
         NEW k \in Pending \cup {"ok", "failed"}, Goto(c, k)
  PROVE  CallMoves(c) /\ call'[c].pc = k
BY DEF SyncTypeOK, Goto, CallMoves

LEMMA StepMoves ==
  ASSUME SyncTypeOK, NEW c \in Calls,
         NEW k \in Running \cup {"none", "done"}, Step(c, k)
  PROVE  /\ SyncMoves(c) /\ sync'[c].pc = k
         /\ sync'[c].used = sync[c].used /\ sync'[c].syncUsed = sync[c].syncUsed
BY DEF SyncTypeOK, Step, SyncMoves

LEMMA FaultBudget ==
  ASSUME SyncTypeOK, Fault
  PROVE  budget' \in [lapses : Nat, restarts : Nat, faults : Nat]
BY DEF SyncTypeOK, Fault

\* A sale, with whatever the call and its write-back do in the same step.
LEMMA SellStep ==
  ASSUME DirectInv, NEW c \in Calls,
         SaleCode(RequestOf[c]) = 1, Sell(RequestOf[c]),
         CallMoves(c), call'[c].pc \in {"ok", "failed"},
         SyncMoves(c), sync'[c] = sync[c] \/ sync'[c].pc = "read",
         tasks' \in SUBSET Calls,
         budget' \in [lapses : Nat, restarts : Nat, faults : Nat],
         UNCHANGED <<stock, row, warm>>
  PROVE  DirectInv'
<1> DEFINE r == RequestOf[c]
<1>0. SyncTypeOK
  BY DEF DirectInv
<1>1. r \in Requests /\ Num[r] \in 1 .. MaxNum /\ MaxNum \in Nat
  BY SyncAssumption
<1> HIDE DEF r
<1>2. r \notin processed /\ hash.available # Missing /\ hash.available >= Num[r]
      /\ ~hash.invalid
  <2>1. /\ ~hash.invalid /\ r \notin processed /\ hash.available # Missing
        /\ (IF hash.available < Num[r] THEN 0 ELSE 1) = 1
    BY <1>0 DEF SaleCode, r
  <2>2. hash.available \in Nat /\ Num[r] \in Nat
    BY <1>0, <1>1, <2>1 DEF SyncTypeOK
  <2> QED BY <2>1, <2>2
<1>3. /\ hash' \in [total : Nat, available : Nat \cup {Missing}, used : Nat,
                    syncUsed : Nat, invalid : BOOLEAN]
      /\ hash'.available = hash.available - Num[r] /\ hash'.available \in Nat
      /\ hash'.used = hash.used + Num[r] /\ hash'.total = hash.total
      /\ hash'.syncUsed = hash.syncUsed /\ hash'.invalid = hash.invalid
  <2>1. /\ hash.available \in Nat /\ hash.available - Num[r] \in Nat
        /\ hash.used + Num[r] \in Nat
    BY <1>0, <1>1, <1>2 DEF SyncTypeOK
  <2>2. hash' = [hash EXCEPT !.available = hash.available - Num[r],
                             !.used = hash.used + Num[r]]
    BY <1>0 DEF Sell, SyncTypeOK, r
  <2> QED BY <1>0, <2>1, <2>2 DEF SyncTypeOK
<1>4. /\ processed' = processed \cup {r}
      /\ charged' = [charged EXCEPT ![r] = @ + 1]
      /\ kept' = kept
  BY DEF Sell, r
<1>5. SyncTypeOK'
  BY <1>0, <1>1, <1>3, <1>4 DEF SyncTypeOK, CallMoves, SyncMoves
<1>6. ProcessedInv'
  <2>1. \A s \in Requests : charged'[s] = IF s \in processed' THEN 1 ELSE 0
    BY <1>0, <1>1, <1>2, <1>4 DEF DirectInv, ProcessedInv, SyncTypeOK
  <2>2. \A d \in Calls : call'[d].pc = "ok" => RequestOf[d] \in processed'
    BY <1>4 DEF DirectInv, ProcessedInv, CallMoves, r
  <2> QED BY <2>1, <2>2 DEF ProcessedInv
<1>7. HashBalanced'
  BY <1>0, <1>1, <1>2, <1>3 DEF DirectInv, HashBalanced, SyncTypeOK
<1>8. ASSUME kept' PROVE KeptInv'
  <2>0. KeptInv
    BY <1>4, <1>8 DEF DirectInv
  <2>1. \A d \in Calls : call'[d].pc \notin {"load", "write", "retry"}
    BY <2>0 DEF KeptInv, CallMoves
  <2>2. ASSUME NEW d \in Calls PROVE WriterInv(sync[d])'
    <3>1. sync'[d] = sync[d] \/ sync'[d].pc = "read"
      BY DEF SyncMoves
    <3>2. sync[d].used \in Nat
      BY <1>0 DEF SyncTypeOK
    <3>3. hash.used \in Nat /\ Num[r] \in Nat
      BY <1>0, <1>1 DEF SyncTypeOK
    <3> QED BY <1>3, <2>0, <3>1, <3>2, <3>3 DEF KeptInv, WriterInv
  <2>3. hash.used \in Nat /\ hash.syncUsed \in Nat /\ Num[r] \in Nat
    BY <1>0, <1>1 DEF SyncTypeOK
  <2> QED BY <1>2, <1>3, <2>0, <2>1, <2>2, <2>3 DEF KeptInv, Missing
<1> QED BY <1>5, <1>6, <1>7, <1>8 DEF DirectInv

\* A call that moves without touching Redis.
LEMMA QuietCallStep ==
  ASSUME DirectInv, NEW c \in Calls, CallMoves(c),
         call'[c].pc = "ok" => RequestOf[c] \in processed,
         kept => call'[c].pc \notin {"load", "write", "retry"},
         row' \in Nat \cup {Missing},
         budget' \in [lapses : Nat, restarts : Nat, faults : Nat],
         UNCHANGED <<redisVars, stock, sync, tasks, warm>>
  PROVE  DirectInv'
<1>1. SyncTypeOK'
  BY DEF DirectInv, SyncTypeOK, CallMoves, redisVars
<1>2. ProcessedInv'
  BY DEF DirectInv, ProcessedInv, CallMoves, redisVars
<1>3. HashBalanced'
  BY DEF DirectInv, HashBalanced, redisVars
<1>4. ASSUME kept' PROVE KeptInv'
  <2>1. KeptInv /\ kept
    BY <1>4 DEF DirectInv, redisVars
  <2>2. \A d \in Calls : call'[d].pc \notin {"load", "write", "retry"}
    BY <2>1 DEF KeptInv, CallMoves
  <2> QED BY <2>1, <2>2 DEF KeptInv, WriterInv, redisVars
<1> QED BY <1>1, <1>2, <1>3, <1>4 DEF DirectInv

LEMMA CheckSellsStep ==
  ASSUME DirectInv, NEW c \in Calls, CheckSells(c)
  PROVE  DirectInv'
<1>0. SyncTypeOK /\ Sell(RequestOf[c]) /\ SaleCode(RequestOf[c]) = 1
  BY DEF DirectInv, CheckSells
<1>1. CallMoves(c) /\ call'[c].pc \in {"ok", "failed"}
  BY <1>0, GotoMoves DEF CheckSells
<1>2. SyncMoves(c) /\ (sync'[c] = sync[c] \/ sync'[c].pc = "read")
  <2>1. CASE UNCHANGED sync
    BY <1>0, <2>1 DEF SyncTypeOK, SyncMoves
  <2>2. CASE Spawn(c)
    BY <1>0, <2>2 DEF Spawn, SyncTypeOK, SyncMoves, Running
  <2> QED BY <2>1, <2>2 DEF CheckSells
<1>3. /\ tasks' \in SUBSET Calls
      /\ budget' \in [lapses : Nat, restarts : Nat, faults : Nat]
      /\ UNCHANGED <<stock, row, warm>>
  BY <1>0, FaultBudget DEF CheckSells, SyncTypeOK
<1> QED BY <1>0, <1>1, <1>2, <1>3, SellStep

LEMMA RetryStep ==
  ASSUME DirectInv, NEW c \in Calls, Retry(c)
  PROVE  DirectInv'
<1>0. SyncTypeOK
  BY DEF DirectInv
<1>1. CallMoves(c) /\ call'[c].pc \in {"ok", "failed"}
  BY <1>0, GotoMoves DEF Retry
<1>2. /\ budget' \in [lapses : Nat, restarts : Nat, faults : Nat]
      /\ UNCHANGED <<stock, row, tasks, warm>> /\ tasks \in SUBSET Calls
      /\ row \in Nat \cup {Missing}
  BY <1>0, FaultBudget DEF Retry, SyncTypeOK
<1>3. CASE SaleCode(RequestOf[c]) = 1
  <2>1. SyncMoves(c) /\ (sync'[c] = sync[c] \/ sync'[c].pc = "read")
    <3>1. CASE UNCHANGED sync
      BY <1>0, <3>1 DEF SyncTypeOK, SyncMoves
    <3>2. CASE Spawn(c)
      BY <1>0, <3>2 DEF Spawn, SyncTypeOK, SyncMoves, Running
    <3> QED BY <1>3, <3>1, <3>2 DEF Retry
  <2>2. Sell(RequestOf[c])
    BY <1>3 DEF Retry
  <2> QED BY <1>1, <1>2, <1>3, <2>1, <2>2, SellStep
<1>4. CASE SaleCode(RequestOf[c]) # 1
  <2>1. call'[c].pc = "failed" /\ UNCHANGED <<redisVars, sync>>
    BY <1>0, <1>4, GotoMoves DEF Retry
  <2> QED BY <1>1, <1>2, <2>1, QuietCallStep
<1> QED BY <1>3, <1>4

LEMMA QuietCalls ==
  ASSUME DirectInv, NEW c \in Calls,
         CheckAnswers(c) \/ CheckMisses(c) \/ LoadRead(c) \/ CallFails(c)
  PROVE  DirectInv'
<1>0. /\ SyncTypeOK /\ row \in Nat \cup {Missing}
      /\ budget \in [lapses : Nat, restarts : Nat, faults : Nat]
  BY DEF DirectInv, SyncTypeOK
<1>1. CASE CheckAnswers(c)
  <2>1. SaleCode(RequestOf[c]) = 2 => RequestOf[c] \in processed
    BY DEF SaleCode
  <2>2. /\ CallMoves(c) /\ call'[c].pc \in {"ok", "failed"}
        /\ call'[c].pc = "ok" => RequestOf[c] \in processed
    BY <1>0, <1>1, <2>1, GotoMoves DEF CheckAnswers
  <2> QED BY <1>0, <1>1, <2>2, QuietCallStep DEF CheckAnswers
<1>2. CASE CheckMisses(c)
  <2>1. CallMoves(c) /\ call'[c].pc = "load"
    BY <1>0, <1>2, GotoMoves DEF CheckMisses, Pending
  <2>2. ~kept
    BY <1>0, <1>2 DEF CheckMisses, SaleCode, DirectInv, KeptInv, SyncTypeOK
  <2> QED BY <1>0, <1>2, <2>1, <2>2, QuietCallStep DEF CheckMisses
<1>3. CASE LoadRead(c)
  <2>1. ~kept
    BY <1>3 DEF LoadRead, DirectInv, KeptInv
  <2>2. row' \in Nat \cup {Missing}
    BY <1>0, <1>3 DEF LoadRead, SyncTypeOK
  <2>3. CallMoves(c) /\ call'[c].pc = "write"
    <3>1. PICK n \in Nat \cup {NoProduct} :
             call' = [call EXCEPT ![c] = [pc |-> "write", seen |-> n]]
      BY <1>0, <1>3, <2>2 DEF LoadRead, SyncTypeOK
    <3> QED BY <1>0, <3>1 DEF CallMoves, SyncTypeOK, Pending
  <2> QED BY <1>0, <1>3, <2>1, <2>2, <2>3, QuietCallStep DEF LoadRead
<1>4. CASE CallFails(c)
  <2>1. CallMoves(c) /\ call'[c].pc = "failed"
    BY <1>0, <1>4, GotoMoves DEF CallFails
  <2> QED BY <1>0, <1>4, <2>1, FaultBudget, QuietCallStep DEF CallFails
<1> QED BY <1>1, <1>2, <1>3, <1>4

\* The hash is written over only when it was missing, and then not kept.
LEMMA OverwriteStep ==
  ASSUME DirectInv, ~kept, NEW n \in Nat,
         hash' \in {HashOf(n), InvalidHash, NoHash},
         call' \in [Calls -> [pc : Pending \cup {"ok", "failed"},
                             seen : Nat \cup {NoProduct}]],
         \A d \in Calls : call'[d].pc = "ok" => call[d].pc = "ok",
         warm' \in [pc : {"off", "check", "write"}, seen : Nat],
         budget' \in [lapses : Nat, restarts : Nat, faults : Nat],
         kept' = FALSE,
         UNCHANGED <<processed, charged, stock, row, sync, tasks>>
  PROVE  DirectInv'
<1>1. /\ hash' \in [total : Nat, available : Nat \cup {Missing}, used : Nat,
                    syncUsed : Nat, invalid : BOOLEAN]
      /\ hash'.available # Missing => hash'.available + hash'.used = hash'.total
  <2>0. n \in Nat /\ 0 \in Nat /\ n + 0 = n
    OBVIOUS
  <2>1. CASE hash' = HashOf(n)
    <3>1. hash' = [total |-> n, available |-> n, used |-> 0, syncUsed |-> 0,
                   invalid |-> FALSE]
      BY <2>1 DEF HashOf
    <3> QED BY <2>0, <3>1
  <2>2. CASE hash' = InvalidHash
    <3>1. hash' = [total |-> 0, available |-> 0, used |-> 0, syncUsed |-> 0,
                   invalid |-> TRUE]
      BY <2>2 DEF InvalidHash, HashOf
    <3> QED BY <2>0, <3>1
  <2>3. CASE hash' = NoHash
    <3>1. hash' = [total |-> 0, available |-> Missing, used |-> 0, syncUsed |-> 0,
                   invalid |-> FALSE]
      BY <2>3 DEF NoHash
    <3> QED BY <2>0, <3>1
  <2> QED BY <2>1, <2>2, <2>3
<1>2. SyncTypeOK'
  BY <1>1 DEF DirectInv, SyncTypeOK
<1>3. ProcessedInv'
  BY DEF DirectInv, ProcessedInv
<1> QED BY <1>1, <1>2, <1>3 DEF DirectInv, HashBalanced

LEMMA LoadWriteStep ==
  ASSUME DirectInv, NEW c \in Calls, LoadWrite(c)
  PROVE  DirectInv'
<1>0. SyncTypeOK /\ ~kept /\ kept' = FALSE
  BY DEF DirectInv, KeptInv, LoadWrite, SyncTypeOK
<1>1. CallMoves(c) /\ call'[c].pc \in {"failed", "retry"}
  BY <1>0, GotoMoves DEF LoadWrite, Pending
<1>2. \A d \in Calls : call'[d].pc = "ok" => call[d].pc = "ok"
  BY <1>1 DEF CallMoves
<1>3. PICK n \in Nat : hash' \in {HashOf(n), InvalidHash}
  BY <1>0 DEF LoadWrite, SyncTypeOK
<1> QED BY <1>0, <1>1, <1>2, <1>3, OverwriteStep DEF LoadWrite, CallMoves, SyncTypeOK

\* A write-back that moves and changes nothing but, perhaps, the stock.
LEMMA WriterStep ==
  ASSUME DirectInv, NEW c \in Calls, SyncMoves(c),
         stock' \in Nat \cup {NoProduct},
         kept => /\ stock' # NoProduct /\ stock' <= stock
                 /\ WriterInv(sync[c])',
         UNCHANGED <<redisVars, row, call, tasks, warm, budget>>
  PROVE  DirectInv'
<1>1. SyncTypeOK'
  BY DEF DirectInv, SyncTypeOK, SyncMoves, redisVars
<1>2. ProcessedInv' /\ HashBalanced'
  BY DEF DirectInv, ProcessedInv, HashBalanced, redisVars
<1>3. ASSUME kept' PROVE KeptInv'
  <2>1. KeptInv /\ kept /\ hash' = hash
    BY <1>3 DEF DirectInv, redisVars
  <2>2. /\ stock \in Nat /\ stock' \in Nat /\ stock' <= stock
        /\ hash.syncUsed \in Nat /\ InitialStock \in Nat
    BY <2>1, SyncAssumption DEF DirectInv, SyncTypeOK, KeptInv
  <2>3. ASSUME NEW d \in Calls PROVE WriterInv(sync[d])'
    <3>1. CASE d = c
      BY <2>1, <3>1
    <3>2. CASE d # c
      <4>1. sync'[d] = sync[d] /\ WriterInv(sync[d]) /\ sync[d].used \in Nat
        BY <2>1, <3>2 DEF SyncMoves, KeptInv, DirectInv, SyncTypeOK
      <4> QED BY <2>1, <2>2, <4>1 DEF WriterInv
    <3> QED BY <3>1, <3>2
  <2>4. hash.syncUsed + stock' <= InitialStock
    BY <2>1, <2>2 DEF KeptInv
  <2> QED BY <1>3, <2>1, <2>2, <2>3, <2>4 DEF KeptInv, NoProduct
<1> QED BY <1>1, <1>2, <1>3 DEF DirectInv

LEMMA WriteBackSteps ==
  ASSUME DirectInv, NEW c \in Calls, SyncRead(c) \/ SyncUpdate(c) \/ SyncStops(c)
  PROVE  DirectInv'
<1>0. /\ SyncTypeOK /\ stock \in Nat \cup {NoProduct}
      /\ hash.used \in Nat /\ hash.syncUsed \in Nat
      /\ sync[c].used \in Nat /\ sync[c].syncUsed \in Nat
      /\ InitialStock \in Nat
  BY SyncAssumption DEF DirectInv, SyncTypeOK
<1>1. CASE SyncRead(c)
  <2> DEFINE x == [pc |-> IF hash.used > hash.syncUsed THEN "update" ELSE "done",
                   used |-> hash.used, syncUsed |-> hash.syncUsed]
  <2>1. /\ x.used = hash.used /\ x.syncUsed = hash.syncUsed
        /\ x.pc = (IF hash.used > hash.syncUsed THEN "update" ELSE "done")
        /\ x \in [pc : Running \cup {"none", "done"}, used : Nat, syncUsed : Nat]
    BY <1>0 DEF Running
  <2>2. sync' = [sync EXCEPT ![c] = x]
    BY <1>1 DEF SyncRead
  <2> HIDE DEF x
  <2>3. SyncMoves(c) /\ sync'[c] = x
    BY <1>0, <2>1, <2>2 DEF SyncMoves, SyncTypeOK
  <2>4. hash' = hash /\ stock' = stock
    BY <1>1 DEF SyncRead, redisVars
  <2>5. WriterInv(sync[c])'
    BY <1>0, <2>1, <2>3, <2>4 DEF WriterInv
  <2>6. kept => stock # NoProduct /\ stock <= stock
    BY <1>0 DEF DirectInv, KeptInv
  <2> QED BY <1>0, <1>1, <2>3, <2>4, <2>5, <2>6, WriterStep DEF SyncRead
<1>2. CASE SyncUpdate(c)
  <2>0. sync[c].pc = "update" /\ hash' = hash
    BY <1>2 DEF SyncUpdate, redisVars
  <2> DEFINE k == sync[c].used - sync[c].syncUsed
  <2>a. kept => /\ WriterInv(sync[c]) /\ stock \in Nat
                /\ hash.syncUsed + stock <= InitialStock
    BY <1>0 DEF DirectInv, KeptInv
  <2>1. CASE stock >= k /\ stock' = stock - k /\ Step(c, "cas")
    <3>1. /\ SyncMoves(c) /\ sync'[c].pc = "cas"
          /\ sync'[c].used = sync[c].used /\ sync'[c].syncUsed = sync[c].syncUsed
      BY <1>0, <2>1, StepMoves DEF Running
    <3>2. ASSUME kept PROVE stock' # NoProduct /\ stock' <= stock /\ WriterInv(sync[c])'
      <4>1. /\ sync[c].syncUsed < sync[c].used
            /\ sync[c].syncUsed <= hash.syncUsed /\ sync[c].used <= hash.used
            /\ stock \in Nat /\ hash.syncUsed + stock <= InitialStock
        BY <2>0, <2>a, <3>2 DEF WriterInv
      <4> HIDE DEF k
      <4>2. stock' \in Nat /\ stock' <= stock
        BY <1>0, <2>1, <4>1 DEF k
      <4>3. sync[c].syncUsed = hash.syncUsed => stock' + sync[c].used <= InitialStock
        BY <1>0, <2>1, <4>1 DEF k
      <4> QED BY <2>0, <3>1, <4>1, <4>2, <4>3 DEF WriterInv, NoProduct
    <3>3. stock' \in Nat \cup {NoProduct}
      BY <1>0, <2>1 DEF NoProduct
    <3> QED BY <1>2, <3>1, <3>2, <3>3, WriterStep DEF SyncUpdate
  <2>2. CASE Step(c, "done") /\ UNCHANGED stock
    <3>1. SyncMoves(c) /\ sync'[c].pc = "done"
      BY <1>0, <2>2, StepMoves DEF Running
    <3>2. kept => stock # NoProduct /\ stock <= stock /\ WriterInv(sync[c])'
      BY <1>0, <3>1 DEF DirectInv, KeptInv, WriterInv
    <3> QED BY <1>0, <1>2, <2>2, <3>1, <3>2, WriterStep DEF SyncUpdate
  <2> QED BY <1>2, <2>1, <2>2 DEF SyncUpdate
<1>3. CASE SyncStops(c)
  <2>1. SyncMoves(c) /\ sync'[c].pc = "done"
    BY <1>0, <1>3, StepMoves DEF SyncStops
  <2>2. kept => stock # NoProduct /\ stock <= stock /\ WriterInv(sync[c])'
    BY <1>0, <2>1 DEF DirectInv, KeptInv, WriterInv
  <2> QED BY <1>0, <1>3, <2>1, <2>2, WriterStep DEF SyncStops
<1> QED BY <1>1, <1>2, <1>3

\* A compare-and-set that succeeds has seen the newest sync_used, so its
\* UPDATE comes on top of all that is counted; one that fails changes nothing.
LEMMA SyncCasStep ==
  ASSUME DirectInv, NEW c \in Calls, SyncCas(c)
  PROVE  DirectInv'
<1>0. /\ SyncTypeOK
      /\ hash.used \in Nat /\ hash.syncUsed \in Nat
      /\ sync[c].used \in Nat /\ sync[c].syncUsed \in Nat
      /\ InitialStock \in Nat /\ stock \in Nat \cup {NoProduct}
  BY SyncAssumption DEF DirectInv, SyncTypeOK
<1>1. SyncMoves(c) /\ sync'[c].pc = "done"
  BY <1>0, StepMoves DEF SyncCas
<1>2. CASE hash.syncUsed # sync[c].syncUsed
  <2>1. UNCHANGED <<redisVars, stock, row, call, tasks, warm, budget>>
    BY <1>2 DEF SyncCas, redisVars
  <2>2. kept => stock # NoProduct /\ stock <= stock /\ WriterInv(sync[c])'
    BY <1>0, <1>1 DEF DirectInv, KeptInv, WriterInv
  <2> QED BY <1>0, <1>1, <2>1, <2>2, WriterStep
<1>3. CASE hash.syncUsed = sync[c].syncUsed
  <2> DEFINE n == sync[c].used
  <2> HIDE DEF n
  <2>0. n \in Nat /\ hash' = [hash EXCEPT !.syncUsed = n]
    BY <1>0, <1>3 DEF SyncCas, n
  <2>1. /\ hash' \in [total : Nat, available : Nat \cup {Missing}, used : Nat,
                      syncUsed : Nat, invalid : BOOLEAN]
        /\ hash'.syncUsed = n /\ hash'.used = hash.used
        /\ hash'.available = hash.available /\ hash'.total = hash.total
        /\ hash'.invalid = hash.invalid
    BY <1>0, <2>0 DEF SyncTypeOK
  <2>2. UNCHANGED <<processed, charged, kept, stock, row, call, tasks, warm, budget>>
    BY DEF SyncCas
  <2>3. SyncTypeOK' /\ ProcessedInv' /\ HashBalanced'
    BY <1>0, <1>1, <2>1, <2>2 DEF DirectInv, SyncTypeOK, SyncMoves, ProcessedInv, HashBalanced
  <2>4. ASSUME kept' PROVE KeptInv'
    <3>1. KeptInv /\ WriterInv(sync[c]) /\ sync[c].pc = "cas" /\ stock \in Nat
      BY <1>0, <2>2, <2>4 DEF DirectInv, KeptInv, SyncCas
    <3>2. hash.syncUsed < n /\ n <= hash.used /\ stock + n <= InitialStock
      BY <1>3, <3>1 DEF WriterInv, n
    <3>3. ASSUME NEW d \in Calls PROVE WriterInv(sync[d])'
      <4>1. CASE d = c
        BY <1>1, <4>1 DEF WriterInv
      <4>2. CASE d # c
        <5>1. /\ sync'[d] = sync[d] /\ WriterInv(sync[d])
              /\ sync[d].used \in Nat /\ sync[d].syncUsed \in Nat
          BY <1>0, <1>1, <3>1, <4>2 DEF SyncMoves, KeptInv, SyncTypeOK
        <5> QED BY <1>0, <2>0, <2>1, <2>2, <3>2, <5>1 DEF WriterInv
      <4> QED BY <4>1, <4>2
    <3> QED BY <1>0, <2>1, <2>2, <3>1, <3>2, <3>3 DEF KeptInv
  <2> QED BY <2>3, <2>4 DEF DirectInv
<1> QED BY <1>2, <1>3

\* The warm-up writes only over a missing hash; expiry ends the guarantee.
LEMMA ElsewhereDirect ==
  ASSUME DirectInv, WarmRead \/ WarmCheck \/ WarmWrite \/ HashLapses \/ RowLapses
  PROVE  DirectInv'
<1>0. /\ SyncTypeOK /\ stock \in Nat \cup {NoProduct} /\ warm.seen \in Nat
      /\ kept \in BOOLEAN
  BY DEF DirectInv, SyncTypeOK
<1> DEFINE BudgetType == [lapses : Nat, restarts : Nat, faults : Nat]
           WarmType == [pc : {"off", "check", "write"}, seen : Nat]
<1>1. ASSUME UNCHANGED <<redisVars, stock, call, sync, tasks>>,
             row' \in Nat \cup {Missing}, budget' \in BudgetType,
             warm' \in WarmType, kept => warm'.pc # "write"
      PROVE  DirectInv'
  <2>1. SyncTypeOK'
    BY <1>0, <1>1 DEF SyncTypeOK, redisVars
  <2>2. ProcessedInv' /\ HashBalanced'
    BY <1>1 DEF DirectInv, ProcessedInv, HashBalanced, redisVars
  <2>3. ASSUME kept' PROVE KeptInv'
    BY <1>1, <2>3 DEF DirectInv, KeptInv, WriterInv, redisVars
  <2> QED BY <2>1, <2>2, <2>3 DEF DirectInv
<1>2. CASE WarmRead
  <2>1. warm' \in WarmType /\ warm'.pc = "check"
    BY <1>0, <1>2 DEF WarmRead
  <2>2. budget' \in BudgetType
    BY <1>0, <1>2 DEF WarmRead, SyncTypeOK
  <2> QED BY <1>0, <1>1, <1>2, <2>1, <2>2 DEF WarmRead, SyncTypeOK
<1>3. CASE WarmCheck
  <2>1. warm' \in WarmType /\ (WarmNeeded \/ warm'.pc = "off")
    BY <1>0, <1>3 DEF WarmCheck, SyncTypeOK
  <2>2. kept => ~WarmNeeded
    BY DEF DirectInv, KeptInv, WarmNeeded
  <2> QED BY <1>0, <1>1, <1>3, <2>1, <2>2 DEF WarmCheck, SyncTypeOK
<1>4. CASE WarmWrite
  <2>1. ~kept
    BY <1>4 DEF WarmWrite, DirectInv, KeptInv
  <2>2. warm' \in WarmType
    BY <1>0, <1>4 DEF WarmWrite, SyncTypeOK
  <2> QED BY <1>0, <1>4, <2>1, <2>2, OverwriteStep DEF WarmWrite, SyncTypeOK
<1>5. CASE HashLapses
  <2>1. budget' \in BudgetType
    BY <1>0, <1>5 DEF HashLapses, SyncTypeOK
  <2>2. SyncTypeOK'
    BY <1>0, <1>5, <2>1 DEF HashLapses, SyncTypeOK, NoHash
  <2>3. ProcessedInv' /\ HashBalanced'
    BY <1>5 DEF HashLapses, DirectInv, ProcessedInv, HashBalanced, NoHash
  <2> QED BY <1>5, <2>2, <2>3 DEF DirectInv, HashLapses
<1>6. CASE RowLapses
  BY <1>0, <1>1, <1>6 DEF RowLapses, SyncTypeOK, DirectInv, KeptInv
<1> QED BY <1>2, <1>3, <1>4, <1>5, <1>6

LEMMA DirectStep == DirectInv /\ [Next]_vars => DirectInv'
<1> SUFFICES ASSUME DirectInv, [Next]_vars PROVE DirectInv'
  OBVIOUS
<1>1. ASSUME NEW c \in Calls, Purchase(c) PROVE DirectInv'
  BY <1>1, CheckSellsStep, RetryStep, QuietCalls, LoadWriteStep DEF Purchase
<1>2. ASSUME NEW c \in Calls, WriteBack(c) PROVE DirectInv'
  BY <1>2, WriteBackSteps, SyncCasStep DEF WriteBack
<1>3. CASE UNCHANGED vars
  <2>1. UNCHANGED <<hash, processed, charged, kept, stock, row, call, sync, tasks,
                    warm, budget>>
    BY <1>3 DEF vars, redisVars
  <2>2. SyncTypeOK'
    BY <2>1 DEF DirectInv, SyncTypeOK
  <2> QED BY <2>1, <2>2
        DEF DirectInv, ProcessedInv, HashBalanced, KeptInv, WriterInv
<1> QED BY <1>1, <1>2, <1>3, ElsewhereDirect DEF Next

LEMMA DirectInvariant == Spec => []DirectInv
BY InitDirect, DirectStep, PTL DEF Spec

-----------------------------------------------------------------------------
\* Type correctness of the direct sale.
THEOREM DirectTypeCorrect == Spec => []SyncTypeOK
<1>1. DirectInv => SyncTypeOK
  BY DEF DirectInv
<1> QED BY <1>1, DirectInvariant, PTL

\* The books of the hash balance, whoever loads it over whatever it held.
THEOREM HashAlwaysBalanced == Spec => []HashBalanced
<1>1. DirectInv => HashBalanced
  BY DEF DirectInv
<1> QED BY <1>1, DirectInvariant, PTL

\* No request is charged twice, and success means that it was charged.
THEOREM RequestsChargedOnce == Spec => []ChargedOnce
<1>1. DirectInv => ChargedOnce
  <2> SUFFICES ASSUME DirectInv PROVE ChargedOnce
    OBVIOUS
  <2>1. \A c \in Calls : RequestOf[c] \in Requests
    BY SyncAssumption
  <2>2. ProcessedInv
    BY DEF DirectInv
  <2>3. \A r \in Requests : charged[r] <= 1
    BY <2>2 DEF ProcessedInv
  <2> QED BY <2>1, <2>2, <2>3 DEF ProcessedInv, ChargedOnce
<1> QED BY <1>1, DirectInvariant, PTL

\* Until the hash first expires, what counts as synchronised has left the
\* product table, with any number of write-backs that race, stop or fail.
THEOREM SyncedHasLeftDb == Spec => []SyncedLeftDb
<1>1. DirectInv => SyncedLeftDb
  BY DEF DirectInv, KeptInv, SyncedLeftDb
<1> QED BY <1>1, DirectInvariant, PTL

\* The hash tells the truth about what was sold and written back.
THEOREM HashStaysTruthful == Spec => []HashTruthful
BY HashAlwaysBalanced, SyncedHasLeftDb, PTL DEF HashTruthful

-----------------------------------------------------------------------------
\* What the abstract sale sees of a step.
LEMMA SaleStutter ==
  ASSUME hash'.available = hash.available, processed' = processed
  PROVE  UNCHANGED Sale!resVars
BY DEF Sale!resVars

LEMMA SaleReserves ==
  ASSUME DirectInv, NEW r \in Requests, SaleCode(r) = 1, Sell(r)
  PROVE  Sale!Reserve(r)
<1>1. r \notin processed /\ hash.available >= Num[r]
  <2>1. /\ hash.available \in Nat \cup {Missing} /\ hash.invalid \in BOOLEAN
        /\ Num[r] \in Nat
    BY SyncAssumption DEF DirectInv, SyncTypeOK
  <2>2. ~hash.invalid
    BY <2>1 DEF SaleCode
  <2>3. r \notin processed
    BY <2>2 DEF SaleCode
  <2>4. hash.available # Missing
    BY <2>2, <2>3 DEF SaleCode
  <2>5. (IF hash.available < Num[r] THEN 0 ELSE 1) = 1
    BY <2>2, <2>3, <2>4 DEF SaleCode
  <2> QED BY <2>1, <2>3, <2>4, <2>5
<1>2. hash'.available = hash.available - Num[r] /\ processed' = processed \cup {r}
  BY DEF Sell, DirectInv, SyncTypeOK
<1>3. \A p \in {Product} : hash.available >= Num[r]
  BY <1>1
<1>4. [p \in {Product} |-> hash'.available] = [p \in {Product} |-> hash.available - Num[r]]
  BY <1>2
<1>5. [q \in Requests |-> IF q \in processed' THEN "reserved" ELSE "new"]
       = [[q \in Requests |-> IF q \in processed THEN "reserved" ELSE "new"]
             EXCEPT ![r] = "reserved"]
  BY <1>2
<1> QED BY <1>1, <1>3, <1>4, <1>5 DEF Sale!Reserve

LEMMA SaleSees ==
  ASSUME DirectInv, [Next]_vars, kept'
  PROVE  Sale!ResNext \/ UNCHANGED Sale!resVars
<1>1. ASSUME NEW c \in Calls, Purchase(c)
      PROVE  Sale!ResNext \/ UNCHANGED Sale!resVars
  <2>1. RequestOf[c] \in Requests
    BY SyncAssumption
  <2>2. CASE SaleCode(RequestOf[c]) = 1 /\ Sell(RequestOf[c])
    BY <2>1, <2>2, SaleReserves DEF Sale!ResNext
  <2>3. CASE UNCHANGED redisVars
    BY <2>3, SaleStutter DEF redisVars
  <2>4. ~LoadWrite(c)
    BY DEF LoadWrite, DirectInv, KeptInv
  <2> QED BY <1>1, <2>2, <2>3, <2>4
        DEF Purchase, CheckSells, CheckAnswers, CheckMisses, LoadRead, Retry, CallFails
<1>2. ASSUME NEW c \in Calls, WriteBack(c) PROVE UNCHANGED Sale!resVars
  <2>1. CASE SyncCas(c)
    <3>1. hash'.available = hash.available /\ processed' = processed
      BY <2>1 DEF SyncCas, DirectInv, SyncTypeOK
    <3> QED BY <3>1, SaleStutter
  <2>2. CASE SyncRead(c) \/ SyncUpdate(c) \/ SyncStops(c)
    BY <2>2, SaleStutter DEF SyncRead, SyncUpdate, SyncStops, redisVars
  <2> QED BY <1>2, <2>1, <2>2 DEF WriteBack
<1>3. CASE WarmRead \/ WarmCheck \/ RowLapses \/ UNCHANGED vars
  BY <1>3, SaleStutter DEF WarmRead, WarmCheck, RowLapses, vars, redisVars
<1>4. ~WarmWrite /\ ~HashLapses
  BY DEF WarmWrite, HashLapses, DirectInv, KeptInv
<1> QED BY <1>1, <1>2, <1>3, <1>4 DEF Next

\* A hash that was missing once is not kept again.
LEMMA KeptPersists ==
  ASSUME [Next]_vars, kept'
  PROVE  kept
<1>1. ASSUME NEW c \in Calls, Purchase(c) PROVE kept
  BY <1>1 DEF Purchase, CheckSells, CheckAnswers, CheckMisses, LoadRead, LoadWrite,
              Retry, CallFails, Sell, redisVars
<1>2. ASSUME NEW c \in Calls, WriteBack(c) PROVE kept
  BY <1>2 DEF WriteBack, SyncRead, SyncUpdate, SyncCas, SyncStops, redisVars
<1> QED BY <1>1, <1>2
      DEF Next, WarmRead, WarmCheck, WarmWrite, HashLapses, RowLapses, vars, redisVars

LEMMA SaleInit == Init /\ kept => Sale!ResInit
<1> SUFFICES ASSUME Init, kept PROVE Sale!ResInit
  OBVIOUS
<1>1. hash.available = InitialStock /\ processed = {}
  <2>1. hash = HashOf(InitialStock) /\ processed = {}
    BY DEF Init
  <2> QED BY <2>1 DEF HashOf
<1> QED BY <1>1 DEF Sale!ResInit

\* Until the hash first expires, sales, repetitions, lost answers and
\* write-backs change the hash as a sale that charges each request at once.
THEOREM SalesImplementReservation == Spec => ImplementsSale
<1>1. DirectInv /\ [Next]_vars => [kept' => [Sale!ResNext]_(Sale!resVars)]_vars
  BY SaleSees
<1> QED BY <1>1, SaleInit, DirectInvariant, PTL DEF Spec, ImplementsSale

\* The lemmas about Reservation, for the direct sale.
SaleLemmas == INSTANCE ReservationProofs WITH
    Gids <- Requests, Products <- {Product}, MaxItemQuantity <- MaxNum,
    Qty <- [r \in Requests |-> [p \in {Product} |-> Num[r]]],
    InitStock <- [p \in {Product} |-> InitialStock],
    stock <- [p \in {Product} |-> hash.available],
    res <- [r \in Requests |-> IF r \in processed THEN "reserved" ELSE "new"]

\* What the lemmas about Reservation assume of its constants.
LEMMA SaleAssumptions ==
  /\ SaleLemmas!IsFiniteSet(Requests)
  /\ MaxNum \in Nat
  /\ [r \in Requests |-> [p \in {Product} |-> Num[r]]]
       \in [Requests -> [{Product} -> 0 .. MaxNum]]
  /\ [p \in {Product} |-> InitialStock] \in [{Product} -> Nat]
  /\ \A r \in Requests : \E p \in {Product} :
        [q \in Requests |-> [o \in {Product} |-> Num[q]]][r][p] > 0
BY SyncAssumption DEF SaleLemmas!IsFiniteSet, IsFiniteSet

\* Until the hash first expires, what was charged and what is left are the
\* stock there was.
THEOREM SoldStaysWithinStock == Spec => []SoldWithinStock
<1> DEFINE I == kept => SaleLemmas!ResInv
<1>1. Init => I
  <2>1. Init /\ kept => SaleLemmas!ResInit
    BY SaleInit DEF Sale!ResInit, SaleLemmas!ResInit
  <2>2. SaleLemmas!ResInit => SaleLemmas!ResInv
    BY SaleLemmas!ResInitInv, SaleAssumptions
  <2> QED BY <2>1, <2>2
<1>2. DirectInv /\ I /\ [Next]_vars => I'
  <2> SUFFICES ASSUME DirectInv, I, [Next]_vars, kept' PROVE SaleLemmas!ResInv'
    OBVIOUS
  <2>1. kept
    BY KeptPersists
  <2>2. [SaleLemmas!ResNext]_(SaleLemmas!resVars)
    BY SaleSees
       DEF Sale!ResNext, SaleLemmas!ResNext, Sale!resVars, SaleLemmas!resVars,
           Sale!Reserve, SaleLemmas!Reserve, Sale!Release, SaleLemmas!Release,
           Sale!Place, SaleLemmas!Place, Sale!Withdraw, SaleLemmas!Withdraw,
           Sale!GiveUp, SaleLemmas!GiveUp
  <2>3. SaleLemmas!ResInv /\ [SaleLemmas!ResNext]_(SaleLemmas!resVars)
          => SaleLemmas!ResInv'
    BY SaleLemmas!ResStepInv, SaleAssumptions
  <2> QED BY <2>1, <2>2, <2>3
<1>3. I => SoldWithinStock
  <2>1. SaleLemmas!ResInv => SaleLemmas!StockConserved
    BY DEF SaleLemmas!ResInv
  <2>2. SaleLemmas!StockConserved => Sale!StockConserved
    <3>1. Sale!Holding = SaleLemmas!Holding
      BY DEF Sale!Holding, SaleLemmas!Holding
    <3>2. ASSUME NEW G, NEW p PROVE Sale!Pieces(G, p) = SaleLemmas!Pieces(G, p)
      BY DEF Sale!Pieces, SaleLemmas!Pieces, Sale!Units, SaleLemmas!Units,
             Sale!Cardinality, SaleLemmas!Cardinality
    <3> QED BY <3>1, <3>2 DEF Sale!StockConserved, SaleLemmas!StockConserved
  <2> QED BY <2>1, <2>2 DEF SoldWithinStock
<1> HIDE DEF I
<1> QED BY <1>1, <1>2, <1>3, DirectInvariant, PTL DEF Spec

-----------------------------------------------------------------------------
(* The stock that direct sales and sagas share.  The invariant keeps three  *)
(* books: the table's, in which stock, written-back sales and what sagas    *)
(* hold are the stock there was; the hash's, in which what is offered, sold *)
(* and pre-locked is at most that; and, while the hash is kept, exactly.    *)

WritersInv ==
    \A c \in Calls :
        /\ sync[c].pc \in {"update", "cas"} => sync[c].syncUsed < sync[c].used
        /\ kept /\ sync[c].pc = "update" => sync[c].used <= hash.used

ChargedInv == \A r \in Requests : charged[r] = IF r \in processed THEN 1 ELSE 0

\* While the hash is kept, nobody is about to write it over.
Unlapsed ==
    /\ hash.available # Missing /\ ~hash.invalid /\ stock # NoProduct
    /\ \A c \in Calls : call[c].pc \notin {"load", "write", "retry"}
    /\ warm.pc # "write"

SaleInv == SyncTypeOK /\ WritersInv /\ ChargedInv /\ (kept => Unlapsed)

\* Pieces of a saga that are held in the hash are known to be out of it.
OutInv ==
    \A o \in out : /\ order[o] # "new"
                   /\ hash.available = Missing => order[o] # "returned"

KeyInv ==
    \A o \in Orders :
        /\ key[o] = "held" => o \in out \/ order[o] = "returned"
        /\ "lapsed" \notin causes /\ key[o] = "none" /\ kept => o \notin out

OrderTypeOK ==
    /\ order \in [Orders -> OrderStates]
    /\ key \in [Orders -> {"none", "held", "reverted"}]
    /\ at \in [Orders -> {"idle", "checked", "locked", "undo"}]
    /\ \A o \in Orders : at[o] = "locked" => order[o] = "taken" /\ o \in out
    /\ out \subseteq Orders

OrderInv == OrderTypeOK /\ OutInv /\ KeyInv

TableBook ==
    /\ stock = NoProduct => InState({"new"}) = Orders
    /\ stock # NoProduct => stock + written + Ordered(InState(Holding)) = InitialStock

HashBook ==
    kept /\ causes = {} => hash.available + hash.used + Ordered(out) = InitialStock

Books ==
    /\ written \in Nat /\ causes \subseteq Causes
    /\ TableBook /\ NoPieceTwice /\ HashBook

SharedInv == SaleInv /\ OrderInv /\ Books

-----------------------------------------------------------------------------
(* Pieces of orders and of sales.                                          *)

AmountLemmas == INSTANCE StockUnitsProofs WITH
    Gids <- Orders, Products <- {Product}, MaxItemQuantity <- MaxNum,
    Qty <- [o \in Orders |-> [p \in {Product} |-> Pcs[o]]],
    InitStock <- [p \in {Product} |-> InitialStock]

\* What the lemmas about quantities assume of their constants.
LEMMA AmountAssumptions ==
  /\ AmountLemmas!IsFiniteSet(Orders)
  /\ MaxNum \in Nat
  /\ [o \in Orders |-> [p \in {Product} |-> Pcs[o]]]
       \in [Orders -> [{Product} -> 0 .. MaxNum]]
  /\ [p \in {Product} |-> InitialStock] \in [{Product} -> Nat]
  /\ \A o \in Orders : \E p \in {Product} :
        [q \in Orders |-> [r \in {Product} |-> Pcs[q]]][o][p] > 0
BY SyncAssumption, OrdersAssumption DEF AmountLemmas!IsFiniteSet, IsFiniteSet

LEMMA AmountPieces ==
  ASSUME NEW S
  PROVE  Ordered(S) = AmountLemmas!Pieces(S, Product)
BY DEF Ordered, Amounts!Pieces, AmountLemmas!Pieces, Amounts!Units, AmountLemmas!Units,
       Amounts!Cardinality, AmountLemmas!Cardinality

\* What a set of orders buys, and how it changes with one order.
LEMMA OrderedPieces ==
  ASSUME NEW S \in SUBSET Orders
  PROVE  /\ Ordered(S) \in Nat
         /\ Ordered({}) = 0
         /\ \A o \in Orders \ S : Ordered(S \cup {o}) = Ordered(S) + Pcs[o]
         /\ \A o \in S : Ordered(S \ {o}) = Ordered(S) - Pcs[o]
         /\ \A o \in Orders : Pcs[o] \in Nat \ {0}
<1>1. Ordered(S) \in Nat
  BY AmountLemmas!UnitsFinite, AmountAssumptions, AmountPieces
<1>2. Ordered({}) = 0
  BY AmountLemmas!PiecesNone, AmountAssumptions, AmountPieces
<1>3. ASSUME NEW o \in Orders \ S
      PROVE  Ordered(S \cup {o}) = Ordered(S) + Pcs[o]
  BY AmountLemmas!PiecesAdd, AmountAssumptions, AmountPieces
<1>4. ASSUME NEW o \in S
      PROVE  Ordered(S \ {o}) = Ordered(S) - Pcs[o]
  BY AmountLemmas!PiecesRemove, AmountAssumptions, AmountPieces
<1>5. \A o \in Orders : Pcs[o] \in Nat \ {0}
  BY OrdersAssumption, SyncAssumption
<1> QED BY <1>1, <1>2, <1>3, <1>4, <1>5

\* Fewer orders buy no more.
LEMMA OrderedMonotone ==
  ASSUME NEW T \in SUBSET Orders, NEW S \in SUBSET T
  PROVE  Ordered(S) <= Ordered(T)
<1>1. AmountLemmas!IsFiniteSet(AmountLemmas!Units(T, Product))
  BY AmountLemmas!UnitsFinite, AmountAssumptions
<1>2. AmountLemmas!Units(S, Product) \subseteq AmountLemmas!Units(T, Product)
  BY DEF AmountLemmas!Units
<1>3. AmountLemmas!Pieces(S, Product) <= AmountLemmas!Pieces(T, Product)
  BY <1>1, <1>2, FS_Subset
     DEF AmountLemmas!Pieces, AmountLemmas!IsFiniteSet, AmountLemmas!Cardinality,
         IsFiniteSet, Cardinality
<1> QED BY <1>3, AmountPieces

ChargedRequests == {r \in Requests : charged[r] > 0}

LEMMA SalePieces ==
  ASSUME NEW S
  PROVE  Sale!Pieces(S, Product) = SaleLemmas!Pieces(S, Product)
BY DEF Sale!Pieces, SaleLemmas!Pieces, Sale!Units, SaleLemmas!Units,
       Sale!Cardinality, SaleLemmas!Cardinality

LEMMA SoldType == Sold \in Nat
<1> DEFINE R == {r \in Requests : charged[r] > 0}
<1>1. R \in SUBSET Requests
  OBVIOUS
<1> HIDE DEF R
<1>2. SaleLemmas!Pieces(R, Product) \in Nat
  BY <1>1, SaleLemmas!UnitsFinite, SaleAssumptions
<1> QED BY <1>2, SalePieces DEF Sold, R

LEMMA SoldNext == Sold' \in Nat
<1> DEFINE R == {r \in Requests : charged'[r] > 0}
<1>1. R \in SUBSET Requests
  OBVIOUS
<1>2. Sold' = Sale!Pieces(R, Product)
  BY DEF Sold, Sale!Pieces, Sale!Units, Sale!Cardinality
<1> HIDE DEF R
<1>3. SaleLemmas!Pieces(R, Product) \in Nat
  BY <1>1, SaleLemmas!UnitsFinite, SaleAssumptions
<1> QED BY <1>2, <1>3, SalePieces

\* A sale adds its pieces to what was sold.
LEMMA SoldAdd ==
  ASSUME SaleInv, NEW r \in Requests, r \notin processed,
         charged' = [charged EXCEPT ![r] = @ + 1]
  PROVE  Sold' = Sold + Num[r]
<1> DEFINE R == {s \in Requests : charged[s] > 0}
<1>1. charged \in [Requests -> Nat] /\ charged[r] = 0
  BY DEF SaleInv, ChargedInv, SyncTypeOK
<1>2. {s \in Requests : charged'[s] > 0} = R \cup {r} /\ r \notin R /\ R \in SUBSET Requests
  BY <1>1
<1> HIDE DEF R
<1>3. SaleLemmas!Pieces(R \cup {r}, Product)
        = SaleLemmas!Pieces(R, Product)
          + [q \in Requests |-> [p \in {Product} |-> Num[q]]][r][Product]
  BY <1>2, SaleLemmas!PiecesAdd, SaleAssumptions
<1>4. Sold' = Sale!Pieces(R \cup {r}, Product)
  BY <1>2 DEF Sold, Sale!Pieces, Sale!Units, Sale!Cardinality
<1> QED BY <1>3, <1>4, SalePieces DEF Sold, R

-----------------------------------------------------------------------------
(* The steps of direct sales keep SaleInv, whatever the sagas do to the     *)
(* stock and to the field available.                                       *)

HashRecords == [total : Nat, available : Nat \cup {Missing}, used : Nat,
                syncUsed : Nat, invalid : BOOLEAN]
CallRecords == [pc : Pending \cup {"ok", "failed"}, seen : Nat \cup {NoProduct}]
SyncRecords == [pc : Running \cup {"none", "done"}, used : Nat, syncUsed : Nat]
Budgets == [lapses : Nat, restarts : Nat, faults : Nat]

SaleTypes ==
    /\ processed \in SUBSET Requests /\ row \in Nat \cup {Missing}
    /\ call \in [Calls -> CallRecords] /\ sync \in [Calls -> SyncRecords]
    /\ tasks \in SUBSET Calls
    /\ warm \in [pc : {"off", "check", "write"}, seen : Nat]
    /\ charged \in [Requests -> Nat] /\ budget \in Budgets

LEMMA SaleTypesAre ==
  SyncTypeOK <=> /\ SaleTypes /\ hash \in HashRecords /\ kept \in BOOLEAN
                 /\ stock \in Nat \cup {NoProduct}
BY DEF SyncTypeOK, SaleTypes, HashRecords, CallRecords, SyncRecords, Budgets

LEMMA SaleTypesNext ==
  SyncTypeOK' <=> /\ SaleTypes' /\ hash' \in HashRecords /\ kept' \in BOOLEAN
                  /\ stock' \in Nat \cup {NoProduct}
BY DEF SyncTypeOK, SaleTypes, HashRecords, CallRecords, SyncRecords, Budgets

\* A step that does not write the hash over.
LEMMA HashKeptOn ==
  ASSUME SaleInv, SaleTypes', hash' \in HashRecords,
         hash.available # Missing => hash'.available # Missing,
         hash'.invalid = hash.invalid, hash'.used >= hash.used,
         kept' = kept, ChargedInv',
         stock' \in Nat \cup {NoProduct}, stock # NoProduct => stock' # NoProduct,
         kept => \A c \in Calls : call'[c].pc \notin {"load", "write", "retry"},
         kept => warm'.pc # "write",
         \A c \in Calls : sync'[c].pc \in {"update", "cas"} =>
             /\ sync'[c].syncUsed < sync'[c].used
             /\ sync'[c].pc = "update" /\ kept => sync'[c].used <= hash.used
  PROVE  SaleInv'
<1>1. SyncTypeOK'
  <2>1. kept' \in BOOLEAN
    BY DEF SaleInv, SyncTypeOK
  <2> QED BY <2>1, SaleTypesNext
<1>2. WritersInv'
  <2> SUFFICES ASSUME NEW c \in Calls
               PROVE  /\ sync'[c].pc \in {"update", "cas"} => sync'[c].syncUsed < sync'[c].used
                      /\ kept' /\ sync'[c].pc = "update" => sync'[c].used <= hash'.used
    BY DEF WritersInv
  <2>1. sync'[c].used \in Nat /\ hash.used \in Nat /\ hash'.used \in Nat
    BY DEF SaleInv, SyncTypeOK, SaleTypes, SyncRecords, HashRecords
  <2> QED BY <2>1
<1>3. kept' => Unlapsed'
  BY DEF SaleInv, Unlapsed
<1> QED BY <1>1, <1>2, <1>3 DEF SaleInv

\* A call or a write-back moves.
LEMMA CallTurns ==
  ASSUME SaleInv, NEW c \in Calls, CallMoves(c)
  PROVE  /\ call' \in [Calls -> CallRecords]
         /\ (kept => call'[c].pc \notin {"load", "write", "retry"}) =>
              (kept => \A d \in Calls : call'[d].pc \notin {"load", "write", "retry"})
BY DEF CallMoves, CallRecords, SaleInv, Unlapsed

LEMMA WriterTurns ==
  ASSUME SaleInv, NEW c \in Calls, SyncMoves(c) \/ UNCHANGED sync,
         sync'[c].pc \in {"update", "cas"} => 
            \/ sync'[c] = sync[c]
            \/ /\ sync'[c].syncUsed < sync'[c].used
               /\ sync'[c].pc = "update" /\ kept => sync'[c].used <= hash.used
  PROVE  /\ sync' \in [Calls -> SyncRecords]
         /\ \A d \in Calls : sync'[d].pc \in {"update", "cas"} =>
             /\ sync'[d].syncUsed < sync'[d].used
             /\ sync'[d].pc = "update" /\ kept => sync'[d].used <= hash.used
<1>1. sync' \in [Calls -> SyncRecords]
  BY SaleTypesAre DEF SyncMoves, SyncRecords, SaleInv, SaleTypes
<1>2. ASSUME NEW d \in Calls, sync'[d].pc \in {"update", "cas"}
      PROVE  /\ sync'[d].syncUsed < sync'[d].used
             /\ sync'[d].pc = "update" /\ kept => sync'[d].used <= hash.used
  <2>1. CASE sync'[d] = sync[d]
    BY <1>2, <2>1 DEF SaleInv, WritersInv
  <2>2. CASE sync'[d] # sync[d]
    BY <1>2, <2>2 DEF SyncMoves
  <2> QED BY <2>1, <2>2
<1> QED BY <1>1, <1>2

\* What the script writes when its answer is 1.
LEMMA SellEffect ==
  ASSUME SyncTypeOK, ChargedInv, NEW r \in Requests, SaleCode(r) = 1, Sell(r)
  PROVE  /\ r \notin processed /\ hash.available \in Nat /\ Num[r] \in Nat
         /\ hash' \in HashRecords
         /\ hash'.available = hash.available - Num[r] /\ hash'.available \in Nat
         /\ hash'.used = hash.used + Num[r] /\ hash'.invalid = hash.invalid
         /\ processed' \in SUBSET Requests
         /\ charged' = [charged EXCEPT ![r] = @ + 1]
         /\ charged' \in [Requests -> Nat] /\ ChargedInv' /\ kept' = kept
<1>1. Num[r] \in 1 .. MaxNum /\ MaxNum \in Nat
  BY SyncAssumption
<1>2. /\ hash \in HashRecords /\ hash.available \in Nat \cup {Missing}
      /\ hash.used \in Nat /\ hash.invalid \in BOOLEAN
      /\ processed \in SUBSET Requests /\ charged \in [Requests -> Nat]
  BY DEF SyncTypeOK, HashRecords
<1>3. r \notin processed /\ hash.available # Missing /\ hash.available >= Num[r]
  <2>1. ~hash.invalid
    BY <1>2 DEF SaleCode
  <2>2. r \notin processed
    BY <2>1 DEF SaleCode
  <2>3. hash.available # Missing
    BY <2>1, <2>2 DEF SaleCode
  <2>4. (IF hash.available < Num[r] THEN 0 ELSE 1) = 1
    BY <2>1, <2>2, <2>3 DEF SaleCode
  <2>5. ~(hash.available < Num[r])
    BY <2>4
  <2> QED BY <1>1, <1>2, <2>2, <2>3, <2>5
<1>4. hash.available \in Nat /\ hash.available - Num[r] \in Nat /\ hash.used + Num[r] \in Nat
  BY <1>1, <1>2, <1>3
<1>5. hash' = [hash EXCEPT !.available = hash.available - Num[r],
                           !.used = hash.used + Num[r]]
  BY <1>2 DEF Sell, HashRecords
<1>6. /\ hash' \in HashRecords
      /\ hash'.available = hash.available - Num[r]
      /\ hash'.used = hash.used + Num[r] /\ hash'.invalid = hash.invalid
  BY <1>2, <1>4, <1>5 DEF HashRecords
<1>7. /\ processed' = processed \cup {r} /\ kept' = kept
      /\ charged' = [charged EXCEPT ![r] = @ + 1]
  BY DEF Sell
<1>8. charged' \in [Requests -> Nat]
  BY <1>2, <1>7
<1>9. ChargedInv'
  BY <1>2, <1>3, <1>7 DEF ChargedInv
<1> QED BY <1>1, <1>2, <1>3, <1>4, <1>6, <1>7, <1>8, <1>9

LEMMA SaleSells ==
  ASSUME SaleInv, NEW c \in Calls,
         CheckSells(c) \/ (Retry(c) /\ SaleCode(RequestOf[c]) = 1)
  PROVE  /\ SaleInv' /\ stock' = stock
         /\ SaleCode(RequestOf[c]) = 1 /\ Sell(RequestOf[c]) /\ RequestOf[c] \in Requests
<1>0. /\ SyncTypeOK /\ ChargedInv /\ SaleTypes
      /\ RequestOf[c] \in Requests
  BY SyncAssumption, SaleTypesAre DEF SaleInv
<1>1. /\ SaleCode(RequestOf[c]) = 1 /\ Sell(RequestOf[c])
      /\ stock' = stock /\ row' = row /\ warm' = warm
      /\ tasks' \in SUBSET Calls /\ budget' \in Budgets
  BY <1>0, FaultBudget DEF CheckSells, Retry, SaleTypes, Budgets
<1>2. CallMoves(c) /\ call'[c].pc \in {"ok", "failed"}
  BY <1>0, <1>1, GotoMoves DEF CheckSells, Retry
<1>3. sync' = sync \/ (SyncMoves(c) /\ sync'[c].pc = "read")
  <2>1. CASE Spawn(c)
    BY <1>0, <2>1 DEF Spawn, SyncTypeOK, SyncMoves, Running
  <2> QED BY <1>1, <2>1 DEF CheckSells, Retry
<1>4. /\ hash.available \in Nat /\ Num[RequestOf[c]] \in Nat
      /\ hash' \in HashRecords /\ hash'.available \in Nat
      /\ hash'.used = hash.used + Num[RequestOf[c]] /\ hash'.invalid = hash.invalid
      /\ processed' \in SUBSET Requests
      /\ charged' \in [Requests -> Nat] /\ ChargedInv' /\ kept' = kept
  BY <1>0, <1>1, SellEffect
<1>5. hash.available # Missing => hash'.available # Missing
  BY <1>4 DEF Missing
<1>6. hash'.used >= hash.used
  BY <1>0, <1>4 DEF SyncTypeOK
<1>7. call' \in [Calls -> CallRecords]
      /\ (kept => \A d \in Calls : call'[d].pc \notin {"load", "write", "retry"})
  BY <1>2, CallTurns
<1>8. /\ sync' \in [Calls -> SyncRecords]
      /\ \A d \in Calls : sync'[d].pc \in {"update", "cas"} =>
             /\ sync'[d].syncUsed < sync'[d].used
             /\ sync'[d].pc = "update" /\ kept => sync'[d].used <= hash.used
  BY <1>3, WriterTurns
<1>9. SaleTypes' /\ (kept => warm'.pc # "write")
      /\ stock' \in Nat \cup {NoProduct}
  BY <1>0, <1>1, <1>4, <1>7, <1>8 DEF SaleTypes, SaleInv, Unlapsed, SyncTypeOK
<1>10. SaleInv'
  BY <1>1, <1>4, <1>5, <1>6, <1>7, <1>8, <1>9, HashKeptOn
<1> QED BY <1>0, <1>1, <1>10

\* The steps that leave Redis and the stock alone.
SaleQuiet ==
    \/ \E c \in Calls : \/ CheckAnswers(c) \/ CheckMisses(c) \/ LoadRead(c) \/ CallFails(c)
                        \/ Retry(c) /\ SaleCode(RequestOf[c]) # 1
                        \/ SyncRead(c) \/ SyncStops(c)
    \/ WarmRead \/ WarmCheck \/ RowLapses

LEMMA QuietTypes ==
  ASSUME SaleInv, UNCHANGED redisVars, SaleTypes',
         stock' \in Nat \cup {NoProduct}, stock # NoProduct => stock' # NoProduct,
         kept => \A c \in Calls : call'[c].pc \notin {"load", "write", "retry"},
         kept => warm'.pc # "write",
         \A c \in Calls : sync'[c].pc \in {"update", "cas"} =>
             /\ sync'[c].syncUsed < sync'[c].used
             /\ sync'[c].pc = "update" /\ kept => sync'[c].used <= hash.used
  PROVE  SaleInv'
<1>1. hash' = hash /\ kept' = kept /\ processed' = processed /\ charged' = charged
  BY DEF redisVars
<1>2. hash \in HashRecords /\ hash.used \in Nat /\ ChargedInv
  BY SaleTypesAre DEF SaleInv, SyncTypeOK
<1>3. hash' \in HashRecords /\ hash'.used >= hash.used
  BY <1>1, <1>2
<1>4. ChargedInv'
  BY <1>1, <1>2 DEF ChargedInv
<1> QED BY <1>1, <1>3, <1>4, HashKeptOn

LEMMA SaleStaysQuiet ==
  ASSUME SaleInv, SaleQuiet
  PROVE  SaleInv' /\ stock' = stock /\ UNCHANGED redisVars
<1>0. /\ SyncTypeOK /\ SaleTypes /\ stock \in Nat \cup {NoProduct}
      /\ hash.used \in Nat /\ hash.syncUsed \in Nat
  BY SaleTypesAre DEF SaleInv, SyncTypeOK
<1>1. stock' = stock /\ UNCHANGED redisVars
  BY DEF SaleQuiet, CheckAnswers, CheckMisses, LoadRead, CallFails, Retry, SyncRead,
         SyncStops, WarmRead, WarmCheck, RowLapses
<1>2. /\ kept => \A c \in Calls : call[c].pc \notin {"load", "write", "retry"}
      /\ kept => warm.pc # "write" /\ ~WarmNeeded /\ ~hash.invalid
      /\ kept => \A r \in Requests : SaleCode(r) # -1
  BY DEF SaleInv, Unlapsed, WarmNeeded, SaleCode
<1>3. \A c \in Calls : sync[c].pc \in {"update", "cas"} =>
             /\ sync[c].syncUsed < sync[c].used
             /\ sync[c].pc = "update" /\ kept => sync[c].used <= hash.used
  BY DEF SaleInv, WritersInv
<1>4. ASSUME NEW c \in Calls, CallMoves(c),
             kept => call'[c].pc \notin {"load", "write", "retry"},
             row' \in Nat \cup {Missing}, budget' \in Budgets,
             UNCHANGED <<sync, tasks, warm>>
      PROVE  SaleInv'
  <2>1. /\ call' \in [Calls -> CallRecords]
        /\ kept => \A d \in Calls : call'[d].pc \notin {"load", "write", "retry"}
    BY <1>4, CallTurns
  <2>2. SaleTypes'
    BY <1>0, <1>1, <1>4, <2>1 DEF SaleTypes, redisVars
  <2> QED BY <1>0, <1>1, <1>2, <1>3, <1>4, <2>1, <2>2, QuietTypes
<1>5. ASSUME NEW c \in Calls, SyncMoves(c),
             sync'[c].pc \in {"update", "cas"} => 
                /\ sync'[c].syncUsed < sync'[c].used
                /\ sync'[c].pc = "update" /\ kept => sync'[c].used <= hash.used,
             UNCHANGED <<row, call, tasks, warm, budget>>
      PROVE  SaleInv'
  <2>1. /\ sync' \in [Calls -> SyncRecords]
        /\ \A d \in Calls : sync'[d].pc \in {"update", "cas"} =>
             /\ sync'[d].syncUsed < sync'[d].used
             /\ sync'[d].pc = "update" /\ kept => sync'[d].used <= hash.used
    BY <1>5, WriterTurns
  <2>2. SaleTypes'
    BY <1>0, <1>1, <1>5, <2>1 DEF SaleTypes, redisVars
  <2> QED BY <1>0, <1>1, <1>2, <1>5, <2>1, <2>2, QuietTypes
<1>6. ASSUME UNCHANGED <<call, sync, tasks>>, row' \in Nat \cup {Missing},
             warm' \in [pc : {"off", "check", "write"}, seen : Nat],
             kept => warm'.pc # "write", budget' \in Budgets
      PROVE  SaleInv'
  <2>1. SaleTypes'
    BY <1>0, <1>1, <1>6 DEF SaleTypes, redisVars
  <2> QED BY <1>0, <1>1, <1>2, <1>3, <1>6, <2>1, QuietTypes
<1>7. ASSUME NEW c \in Calls, CheckAnswers(c) \/ CheckMisses(c) \/ CallFails(c)
      PROVE  SaleInv'
  <2>1. RequestOf[c] \in Requests
    BY SyncAssumption
  <2>2. CallMoves(c) /\ (kept => call'[c].pc \notin {"load", "write", "retry"})
    BY <1>0, <1>2, <1>7, <2>1, GotoMoves DEF CheckAnswers, CheckMisses, CallFails, Pending
  <2>3. budget' \in Budgets /\ row' = row /\ UNCHANGED <<sync, tasks, warm>>
    BY <1>0, <1>7, FaultBudget
       DEF CheckAnswers, CheckMisses, CallFails, SaleTypes, Budgets
  <2> QED BY <1>0, <1>4, <2>2, <2>3 DEF SaleTypes
<1>8. ASSUME NEW c \in Calls, Retry(c), SaleCode(RequestOf[c]) # 1 PROVE SaleInv'
  <2>1. CallMoves(c) /\ call'[c].pc = "failed"
    BY <1>0, <1>8, GotoMoves DEF Retry
  <2>2. budget' = budget /\ row' = row /\ UNCHANGED <<sync, tasks, warm>>
    BY <1>8 DEF Retry
  <2> QED BY <1>0, <1>4, <2>1, <2>2 DEF SaleTypes
<1>9. ASSUME NEW c \in Calls, LoadRead(c) PROVE SaleInv'
  <2>1. ~kept
    BY <1>2, <1>9 DEF LoadRead
  <2>2. row' \in Nat \cup {Missing} /\ budget' = budget /\ UNCHANGED <<sync, tasks, warm>>
    BY <1>0, <1>9 DEF LoadRead, SaleTypes
  <2>3. CallMoves(c)
    <3>1. PICK n \in Nat \cup {NoProduct} :
             call' = [call EXCEPT ![c] = [pc |-> "write", seen |-> n]]
      BY <1>0, <1>9 DEF LoadRead, SyncTypeOK
    <3> QED BY <1>0, <3>1 DEF CallMoves, SyncTypeOK, Pending
  <2> QED BY <1>0, <1>4, <2>1, <2>2, <2>3 DEF SaleTypes
<1>10. ASSUME NEW c \in Calls, SyncRead(c) PROVE SaleInv'
  <2>1. /\ SyncMoves(c)
        /\ sync'[c].used = hash.used /\ sync'[c].syncUsed = hash.syncUsed
        /\ sync'[c].pc \in {"update", "cas"} => hash.syncUsed < hash.used
    BY <1>0, <1>10 DEF SyncRead, SyncMoves, SyncTypeOK, Running
  <2>2. UNCHANGED <<row, call, tasks, warm, budget>>
    BY <1>10 DEF SyncRead
  <2> QED BY <1>0, <1>5, <2>1, <2>2
<1>11. ASSUME NEW c \in Calls, SyncStops(c) PROVE SaleInv'
  <2>1. SyncMoves(c) /\ sync'[c].pc = "done"
    BY <1>0, <1>11, StepMoves DEF SyncStops, Running
  <2>2. UNCHANGED <<row, call, tasks, warm, budget>>
    BY <1>11 DEF SyncStops
  <2> QED BY <1>5, <2>1, <2>2
<1>12. CASE WarmRead
  <2>1. warm' = [pc |-> "check", seen |-> stock] /\ stock \in Nat
    BY <1>0, <1>12 DEF WarmRead
  <2>2. budget' \in Budgets /\ UNCHANGED <<call, sync, tasks, row>>
    BY <1>0, <1>12 DEF WarmRead, SaleTypes, Budgets
  <2>3. warm' \in [pc : {"off", "check", "write"}, seen : Nat] /\ warm'.pc # "write"
    BY <2>1
  <2>4. row' \in Nat \cup {Missing}
    BY <1>0, <2>2 DEF SaleTypes
  <2>5. SaleInv'
    BY <1>6, <2>2, <2>3, <2>4
  <2> QED BY <1>1, <2>5
<1>13. CASE WarmCheck
  <2>1. /\ warm' \in [pc : {"off", "check", "write"}, seen : Nat]
        /\ kept => warm'.pc # "write"
    BY <1>0, <1>2, <1>13 DEF WarmCheck, SaleTypes
  <2> QED BY <1>0, <1>6, <1>13, <2>1 DEF WarmCheck, SaleTypes
<1>14. CASE RowLapses
  BY <1>0, <1>2, <1>6, <1>14 DEF RowLapses, SaleTypes
<1> QED BY <1>1, <1>7, <1>8, <1>9, <1>10, <1>11, <1>12, <1>13, <1>14 DEF SaleQuiet

LEMMA SaleWritesBack ==
  ASSUME SaleInv, NEW c \in Calls, SyncUpdate(c)
  PROVE  /\ SaleInv' /\ UNCHANGED redisVars
         /\ \/ stock' = stock
            \/ stock \in Nat /\ stock' \in Nat /\ stock' < stock
<1> DEFINE k == sync[c].used - sync[c].syncUsed
<1>0. /\ SyncTypeOK /\ SaleTypes /\ stock \in Nat \cup {NoProduct}
      /\ sync[c].used \in Nat /\ sync[c].syncUsed \in Nat
  BY SaleTypesAre DEF SaleInv, SyncTypeOK
<1>1. k \in Nat /\ k > 0
  BY <1>0 DEF SyncUpdate, SaleInv, WritersInv
<1>2. \/ stock >= k /\ stock' = stock - k /\ Step(c, "cas")
      \/ Step(c, "done") /\ stock' = stock
  BY DEF SyncUpdate
<1>3. UNCHANGED <<redisVars, row, call, tasks, warm, budget>>
  BY DEF SyncUpdate
<1> HIDE DEF k
<1>4. \/ stock' = stock
      \/ stock \in Nat /\ stock' \in Nat /\ stock' < stock
  BY <1>0, <1>1, <1>2 DEF NoProduct
<1>5. /\ SyncMoves(c) /\ sync'[c].pc \in {"cas", "done"}
      /\ sync'[c].syncUsed < sync'[c].used
  <2>1. sync[c].syncUsed < sync[c].used
    BY DEF SyncUpdate, SaleInv, WritersInv
  <2> QED BY <1>0, <1>2, <2>1, StepMoves DEF Running
<1>6. /\ sync' \in [Calls -> SyncRecords]
      /\ \A d \in Calls : sync'[d].pc \in {"update", "cas"} =>
             /\ sync'[d].syncUsed < sync'[d].used
             /\ sync'[d].pc = "update" /\ kept => sync'[d].used <= hash.used
  BY <1>5, WriterTurns
<1>7. SaleTypes'
  BY <1>0, <1>3, <1>6 DEF SaleTypes, redisVars
<1>8. /\ kept => \A d \in Calls : call'[d].pc \notin {"load", "write", "retry"}
      /\ kept => warm'.pc # "write"
  BY <1>3 DEF SaleInv, Unlapsed
<1>9. stock' \in Nat \cup {NoProduct} /\ (stock # NoProduct => stock' # NoProduct)
  BY <1>0, <1>4 DEF NoProduct
<1> QED BY <1>3, <1>4, <1>6, <1>7, <1>8, <1>9, QuietTypes

LEMMA SaleSetsSynced ==
  ASSUME SaleInv, NEW c \in Calls, SyncCas(c)
  PROVE  /\ SaleInv' /\ stock' = stock /\ kept' = kept /\ charged' = charged
         /\ hash'.available = hash.available /\ hash'.used = hash.used
<1>0. /\ SyncTypeOK /\ SaleTypes /\ hash \in HashRecords /\ hash.used \in Nat
      /\ stock \in Nat \cup {NoProduct} /\ ChargedInv
  BY SaleTypesAre DEF SaleInv, SyncTypeOK
<1>1. SyncMoves(c) /\ sync'[c].pc = "done"
  BY <1>0, StepMoves DEF SyncCas, Running
<1>2. /\ hash' \in HashRecords /\ hash'.available = hash.available
      /\ hash'.used = hash.used /\ hash'.invalid = hash.invalid
  <2>1. sync[c].used \in Nat
    BY <1>0 DEF SyncTypeOK
  <2>2. hash' = hash \/ hash' = [hash EXCEPT !.syncUsed = sync[c].used]
    BY DEF SyncCas
  <2> QED BY <1>0, <2>1, <2>2 DEF HashRecords
<1>3. UNCHANGED <<processed, charged, kept, stock, row, call, tasks, warm, budget>>
  BY DEF SyncCas
<1>4. /\ sync' \in [Calls -> SyncRecords]
      /\ \A d \in Calls : sync'[d].pc \in {"update", "cas"} =>
             /\ sync'[d].syncUsed < sync'[d].used
             /\ sync'[d].pc = "update" /\ kept => sync'[d].used <= hash.used
  BY <1>1, WriterTurns
<1>5. SaleTypes' /\ ChargedInv'
  BY <1>0, <1>3, <1>4 DEF SaleTypes, ChargedInv
<1>6. /\ kept => \A d \in Calls : call'[d].pc \notin {"load", "write", "retry"}
      /\ kept => warm'.pc # "write"
  BY <1>3 DEF SaleInv, Unlapsed
<1>7. hash'.used >= hash.used
  BY <1>0, <1>2
<1> QED BY <1>0, <1>2, <1>3, <1>4, <1>5, <1>6, <1>7, HashKeptOn

\* A load writes the hash over, only when it was missing once.
LEMMA SaleLoads ==
  ASSUME SaleInv, NEW n \in Nat \cup {NoProduct},
         \/ \E c \in Calls : LoadWrite(c) /\ n = call[c].seen
         \/ WarmWrite /\ n = warm.seen
  PROVE  /\ SaleInv' /\ stock' = stock /\ ~kept /\ kept' = kept /\ charged' = charged
         /\ hash'.available = IF n = NoProduct THEN 0 ELSE n
<1>0. /\ SyncTypeOK /\ SaleTypes /\ hash \in HashRecords /\ kept \in BOOLEAN
      /\ stock \in Nat \cup {NoProduct} /\ ChargedInv
  BY SaleTypesAre DEF SaleInv, SyncTypeOK
<1>1. ~kept
  BY DEF SaleInv, Unlapsed, LoadWrite, WarmWrite
<1>2. UNCHANGED <<processed, charged, kept, stock, row, sync, tasks, budget>>
  BY DEF LoadWrite, WarmWrite
<1>3. hash' = IF n = NoProduct THEN InvalidHash ELSE HashOf(n)
  <2>1. CASE WarmWrite /\ n = warm.seen
    <3>1. n # NoProduct
      BY <1>0, <2>1 DEF SaleTypes, NoProduct
    <3> QED BY <2>1, <3>1 DEF WarmWrite
  <2>2. CASE \E c \in Calls : LoadWrite(c) /\ n = call[c].seen
    BY <2>2 DEF LoadWrite
  <2> QED BY <2>1, <2>2
<1>4. /\ hash' \in HashRecords
      /\ hash'.available = IF n = NoProduct THEN 0 ELSE n
  <2>1. CASE n = NoProduct
    <3>1. hash' = [total |-> 0, available |-> 0, used |-> 0, syncUsed |-> 0,
                   invalid |-> TRUE]
      BY <1>3, <2>1 DEF InvalidHash, HashOf
    <3> QED BY <2>1, <3>1 DEF HashRecords
  <2>2. CASE n # NoProduct
    <3>1. hash' = [total |-> n, available |-> n, used |-> 0, syncUsed |-> 0,
                   invalid |-> FALSE]
      BY <1>3, <2>2 DEF HashOf
    <3> QED BY <2>2, <3>1 DEF HashRecords
  <2> QED BY <2>1, <2>2
<1>5. /\ call' \in [Calls -> CallRecords]
      /\ warm' \in [pc : {"off", "check", "write"}, seen : Nat]
  <2>1. CASE WarmWrite
    BY <1>0, <2>1 DEF WarmWrite, SaleTypes
  <2>2. ASSUME NEW c \in Calls, LoadWrite(c)
        PROVE  call' \in [Calls -> CallRecords] /\ warm' = warm
    BY <1>0, <2>2, GotoMoves DEF LoadWrite, CallMoves, CallRecords, Pending
  <2> QED BY <1>0, <2>1, <2>2 DEF SaleTypes
<1>6. SyncTypeOK' /\ ChargedInv'
  <2>1. SaleTypes'
    BY <1>0, <1>2, <1>5 DEF SaleTypes
  <2> QED BY <1>0, <1>2, <1>4, <2>1, SaleTypesNext DEF ChargedInv
<1>7. WritersInv'
  BY <1>1, <1>2 DEF SaleInv, WritersInv
<1> QED BY <1>1, <1>2, <1>4, <1>6, <1>7 DEF SaleInv

LEMMA SaleLapses ==
  ASSUME SaleInv, HashLapses
  PROVE  /\ SaleInv' /\ stock' = stock /\ ~kept' /\ charged' = charged
         /\ hash'.available = Missing
<1>0. /\ SyncTypeOK /\ SaleTypes /\ stock \in Nat \cup {NoProduct} /\ ChargedInv
  BY SaleTypesAre DEF SaleInv, SyncTypeOK
<1>1. /\ hash' \in HashRecords /\ hash'.available = Missing /\ kept' = FALSE
      /\ UNCHANGED <<processed, charged, stock, row, call, sync, tasks, warm>>
  BY DEF HashLapses, HashRecords, NoHash
<1>2. budget' \in Budgets
  BY <1>0 DEF HashLapses, SaleTypes, Budgets
<1>3. SyncTypeOK' /\ ChargedInv'
  <2>1. SaleTypes'
    BY <1>0, <1>1, <1>2 DEF SaleTypes
  <2> QED BY <1>0, <1>1, <2>1, SaleTypesNext DEF ChargedInv
<1>4. WritersInv'
  BY <1>1 DEF SaleInv, WritersInv
<1> QED BY <1>1, <1>3, <1>4 DEF SaleInv

-----------------------------------------------------------------------------
(* What the steps of sagas do to the books.                                *)

Placed  == InState({"placed"})
Holders == InState(Holding)
New     == InState({"new"})

LEMMA SharedFacts ==
  ASSUME SaleInv, OrderTypeOK
  PROVE  /\ Left \in Nat /\ Sold \in Nat /\ InitialStock \in Nat
         /\ hash \in HashRecords /\ hash.available \in Nat \cup {Missing}
         /\ hash.used \in Nat /\ stock \in Nat \cup {NoProduct}
         /\ hash.available # Missing => Left = hash.available
         /\ hash.available = Missing => Left = 0
         /\ out \subseteq Orders /\ Placed \subseteq Holders /\ Holders \subseteq Orders
         /\ New \subseteq Orders
BY SyncAssumption, SoldType
   DEF SaleInv, SyncTypeOK, OrderTypeOK, Left, HashRecords, Placed, Holders, New, InState,
       Holding, Missing

\* A step of a saga as direct sales see it.
LEMMA SaleUnderOrders ==
  ASSUME SaleInv, UNCHANGED saleVars, NEW m \in Nat,
         \/ hash' = hash
         \/ hash' = [hash EXCEPT !.available = m],
         stock' \in Nat \cup {NoProduct}, stock # NoProduct => stock' # NoProduct,
         row' \in Nat \cup {Missing}, budget' \in Budgets
  PROVE  /\ SaleInv' /\ charged' = charged /\ kept' = kept /\ hash'.used = hash.used
         /\ Sold' = Sold
<1>0. SaleTypes /\ hash \in HashRecords /\ ChargedInv /\ hash.used \in Nat
  BY SaleTypesAre DEF SaleInv, SyncTypeOK
<1>1. /\ processed' = processed /\ charged' = charged /\ kept' = kept /\ call' = call
      /\ sync' = sync /\ tasks' = tasks /\ warm' = warm
  BY DEF saleVars
<1>2. /\ hash' \in HashRecords /\ hash'.invalid = hash.invalid /\ hash'.used = hash.used
      /\ hash.available # Missing => hash'.available # Missing
  BY <1>0 DEF HashRecords, Missing
<1>3. SaleTypes' /\ ChargedInv'
  BY <1>0, <1>1 DEF SaleTypes, ChargedInv
<1>4. /\ kept => \A d \in Calls : call'[d].pc \notin {"load", "write", "retry"}
      /\ kept => warm'.pc # "write"
      /\ \A d \in Calls : sync'[d].pc \in {"update", "cas"} =>
             /\ sync'[d].syncUsed < sync'[d].used
             /\ sync'[d].pc = "update" /\ kept => sync'[d].used <= hash.used
  BY <1>1 DEF SaleInv, Unlapsed, WritersInv
<1>5. hash'.used >= hash.used
  BY <1>0, <1>2
<1>6. SaleInv'
  BY <1>1, <1>2, <1>3, <1>4, <1>5, HashKeptOn
<1>7. Sold' = Sold
  BY <1>1 DEF Sold, Sale!Pieces, Sale!Units, Sale!Cardinality
<1> QED BY <1>1, <1>2, <1>6, <1>7

LEMMA PromisedNext ==
  ASSUME NEW S, (out \cup Placed)' = S
  PROVE  Ordered(out \cup Placed)' = Ordered(S)
BY DEF Ordered, Amounts!Pieces, Amounts!Units, Amounts!Cardinality

\* The table's book does not change.
LEMMA TableStays ==
  ASSUME TableBook, stock' = stock, written' = written, Holders' = Holders, New' = New
  PROVE  TableBook'
BY DEF TableBook, Holders, New, Ordered, Amounts!Pieces, Amounts!Units, Amounts!Cardinality

\* Less is offered and promised.
LEMMA PromisesShrink ==
  ASSUME SaleInv, OrderTypeOK, SaleInv', OrderTypeOK', NoPieceTwice, causes \subseteq causes',
         Sold' <= Sold, Left' <= Left, (out \cup Placed)' \subseteq out \cup Placed
  PROVE  NoPieceTwice'
<1> DEFINE A == out \cup Placed
           B == (out \cup Placed)'
<1>1. /\ Left \in Nat /\ Sold \in Nat /\ Left' \in Nat /\ Sold' \in Nat
      /\ A \subseteq Orders /\ B \subseteq A /\ InitialStock \in Nat
  <2>1. Left' \in Nat
    BY DEF SaleInv, SyncTypeOK, Left
  <2> QED BY <2>1, SharedFacts, SoldNext
<1>2. Ordered(A) \in Nat /\ Ordered(B) \in Nat /\ Ordered(B) <= Ordered(A)
  BY <1>1, OrderedPieces, OrderedMonotone
<1>3. causes \subseteq {"lapsed"} => Left + Sold + Ordered(A) <= InitialStock
  BY DEF NoPieceTwice, Placed
<1>4. NoPieceTwice' <=> (causes' \subseteq {"lapsed"} => Left' + Sold' + Ordered(B) <= InitialStock)
  BY DEF NoPieceTwice, Placed, Ordered, Amounts!Pieces, Amounts!Units, Amounts!Cardinality
<1> HIDE DEF A, B
<1> QED BY <1>1, <1>2, <1>3, <1>4

\* The hash's book does not change.
LEMMA HashBookStays ==
  ASSUME HashBook, causes \subseteq causes', kept' => kept /\ hash'.available = hash.available,
         hash'.used = hash.used, kept' => out' = out
  PROVE  HashBook'
BY DEF HashBook, Ordered, Amounts!Pieces, Amounts!Units, Amounts!Cardinality

-----------------------------------------------------------------------------
(* The steps of sagas.                                                     *)

\* What a saga that stays where it is in the books leaves alone.
LEMMA OrderBooksStay ==
  ASSUME SharedInv, SaleInv', OrderTypeOK', Sold' = Sold, kept' = kept,
         hash'.available = hash.available, hash'.used = hash.used,
         stock' = stock, written' = written, out' = out,
         causes \subseteq causes', causes' \subseteq Causes,
         Holders' = Holders, New' = New, Placed' \subseteq out \cup Placed
  PROVE  Books'
<1>1. Left' = Left
  BY DEF Left
<1>2. Left' <= Left /\ Sold' <= Sold
  BY <1>1, SharedFacts DEF SharedInv, OrderInv
<1>3. NoPieceTwice'
  BY <1>2, PromisesShrink DEF SharedInv, OrderInv, Books
<1>4. TableBook'
  BY TableStays DEF SharedInv, Books
<1>5. HashBook'
  BY HashBookStays DEF SharedInv, Books
<1> QED BY <1>3, <1>4, <1>5 DEF SharedInv, Books

\* Steps that change neither the order nor its pieces.
LEMMA IdleSteps ==
  ASSUME SharedInv, NEW o \in Orders, CheckOrder(o) \/ OrderDies(o) \/ KeyLapses(o)
  PROVE  SharedInv'
<1>0. SaleTypes /\ stock \in Nat \cup {NoProduct} /\ SyncTypeOK
  BY SaleTypesAre DEF SharedInv, SaleInv
<1>1. /\ UNCHANGED <<saleVars, hash, stock, order, out, written>>
      /\ causes \subseteq causes' /\ causes' \subseteq Causes
  BY DEF CheckOrder, OrderDies, KeyLapses, Because, SharedInv, Books, Causes
<1>2. row' \in Nat \cup {Missing}
  <2>1. CASE CheckOrder(o)
    <3>1. stock \in Nat
      BY <1>0, <2>1 DEF CheckOrder, SharedInv, Books, TableBook, InState, NoProduct
    <3> QED BY <1>0, <2>1, <3>1 DEF CheckOrder, SaleTypes
  <2> QED BY <1>0, <2>1 DEF OrderDies, KeyLapses, SaleTypes
<1>3. budget' \in Budgets
  <2>1. CASE CheckOrder(o)
    BY <1>0, <2>1 DEF CheckOrder, SaleTypes
  <2>2. CASE OrderDies(o)
    BY <1>0, <2>2, FaultBudget DEF OrderDies, Budgets
  <2>3. CASE KeyLapses(o)
    BY <1>0, <2>3 DEF KeyLapses, SaleTypes, Budgets
  <2> QED BY <2>1, <2>2, <2>3
<1>4. SaleInv' /\ kept' = kept /\ hash'.used = hash.used /\ Sold' = Sold
  BY <1>0, <1>1, <1>2, <1>3, SaleUnderOrders DEF SharedInv
<1>5. /\ OrderTypeOK'
      /\ \A p \in Orders : key'[p] = key[p] \/ (key'[p] = "none" /\ "lapsed" \in causes')
  BY DEF SharedInv, OrderInv, OrderTypeOK, CheckOrder, OrderDies, KeyLapses, SetKey, Move,
         Because
<1>6. OutInv' /\ KeyInv'
  BY <1>1, <1>4, <1>5 DEF SharedInv, OrderInv, OutInv, KeyInv
<1>7. Books'
  BY <1>1, <1>4, <1>5, OrderBooksStay DEF Holders, New, Placed, InState
<1> QED BY <1>4, <1>5, <1>6, <1>7 DEF SharedInv, OrderInv

LEMMA TakeStockStep ==
  ASSUME SharedInv, NEW o \in Orders, TakeStock(o)
  PROVE  SharedInv'
<1>0. /\ SaleTypes /\ SaleInv /\ OrderTypeOK /\ stock \in Nat \cup {NoProduct}
      /\ Pcs[o] \in Nat \ {0}
  BY SaleTypesAre, OrderedPieces DEF SharedInv, SaleInv, OrderInv
<1>1. /\ UNCHANGED <<saleVars, hash, row, budget, key, at, out, written, causes>>
      /\ order[o] = "new" /\ stock >= Pcs[o] /\ stock' = stock - Pcs[o]
      /\ order' = [order EXCEPT ![o] = "taken"]
  BY DEF TakeStock, SetOrder
<1>2. stock \in Nat /\ stock' \in Nat
  BY <1>0, <1>1 DEF NoProduct
<1>3. SaleInv' /\ kept' = kept /\ hash'.used = hash.used /\ Sold' = Sold
  BY <1>0, <1>1, <1>2, SaleUnderOrders DEF NoProduct, SaleTypes
<1>4. OrderInv'
  BY <1>1, <1>3 DEF SharedInv, OrderInv, OrderTypeOK, OutInv, KeyInv, OrderStates
<1>5. /\ Holders' = Holders \cup {o} /\ o \notin Holders /\ Placed' = Placed
  BY <1>0, <1>1 DEF Holders, Placed, InState, Holding, OrderTypeOK
<1>6. TableBook'
  <2>1. Ordered(Holders) \in Nat /\ Ordered(Holders \cup {o}) = Ordered(Holders) + Pcs[o]
    BY <1>0, <1>5, OrderedPieces, SharedFacts
  <2>2. Ordered(Holders)' = Ordered(Holders \cup {o})
    BY <1>5 DEF Ordered, Amounts!Pieces, Amounts!Units, Amounts!Cardinality
  <2>3. stock + written + Ordered(Holders) = InitialStock /\ written \in Nat
    BY <1>2 DEF SharedInv, Books, TableBook, Holders, NoProduct
  <2>4. stock' + written' + Ordered(Holders)' = InitialStock
    BY <1>0, <1>1, <1>2, <2>1, <2>2, <2>3
  <2> QED BY <1>2, <2>4 DEF TableBook, Holders, NoProduct
<1>7. NoPieceTwice'
  <2>1. Left' = Left /\ out' = out /\ causes' = causes
    BY <1>1 DEF Left
  <2>2. Left' <= Left /\ Sold' <= Sold
    BY <1>0, <1>3, <2>1, SharedFacts
  <2> QED BY <1>0, <1>3, <1>4, <1>5, <2>1, <2>2, PromisesShrink DEF SharedInv, Books, OrderInv
<1>8. HashBook'
  BY <1>1, <1>3, HashBookStays DEF SharedInv, Books
<1> QED BY <1>1, <1>3, <1>4, <1>6, <1>7, <1>8 DEF SharedInv, Books

\* The commit of an order, its cancellation and its end: from one state that
\* holds stock to another.
LEMMA HoldingSteps ==
  ASSUME SharedInv, NEW o \in Orders, PlaceOrder(o) \/ RollBack(o)
  PROVE  SharedInv'
<1>0. SaleTypes /\ SaleInv /\ OrderTypeOK /\ stock \in Nat \cup {NoProduct} /\ SyncTypeOK
  BY SaleTypesAre DEF SharedInv, SaleInv, OrderInv
<1>1. UNCHANGED <<saleVars, hash, stock, row, key, out, written, causes>>
  BY DEF PlaceOrder, RollBack
<1>2. budget' \in Budgets
  <2>1. CASE PlaceOrder(o)
    BY <1>0, <2>1, FaultBudget DEF PlaceOrder, SaleTypes, Budgets
  <2> QED BY <1>0, <2>1 DEF RollBack, SaleTypes
<1>3. SaleInv' /\ kept' = kept /\ hash'.used = hash.used /\ Sold' = Sold
  BY <1>0, <1>1, <1>2, SaleUnderOrders DEF SaleTypes
<1>4. \/ order' = order
      \/ /\ order' = [order EXCEPT ![o] = "placed"] /\ order[o] = "taken" /\ o \in out
      \/ /\ order' = [order EXCEPT ![o] = "withdrawn"] /\ order[o] = "taken"
      \/ /\ order' = [order EXCEPT ![o] = "cancelling"] /\ order[o] = "placed"
  BY <1>0 DEF PlaceOrder, RollBack, SetOrder, OrderTypeOK
<1>5. at' \in [Orders -> {"idle", "checked", "locked", "undo"}]
  BY <1>0 DEF PlaceOrder, RollBack, Move, OrderTypeOK
<1>6. \A p \in Orders : at'[p] = "locked" => order'[p] = "taken"
  BY <1>0, <1>4 DEF PlaceOrder, RollBack, Move, SetOrder, OrderTypeOK
<1>7. at'[o] # "locked" /\ \A p \in Orders \ {o} : at'[p] = at[p]
  BY <1>0 DEF PlaceOrder, RollBack, Move, OrderTypeOK
<1>8. OrderTypeOK'
  BY <1>0, <1>1, <1>4, <1>5, <1>6, <1>7 DEF OrderTypeOK, OrderStates
<1>9. OutInv' /\ KeyInv'
  BY <1>0, <1>1, <1>3, <1>4 DEF SharedInv, OrderInv, OrderTypeOK, OutInv, KeyInv
<1>10. /\ Holders' = Holders /\ New' = New /\ Placed' \subseteq out \cup Placed
  BY <1>0, <1>4 DEF Holders, New, Placed, InState, Holding, OrderTypeOK
<1>11. Books'
  BY <1>1, <1>3, <1>8, <1>10, OrderBooksStay DEF SharedInv, Books
<1> QED BY <1>3, <1>8, <1>9, <1>11 DEF SharedInv, OrderInv

LEMMA ReturnStockStep ==
  ASSUME SharedInv, NEW o \in Orders, ReturnStock(o)
  PROVE  SharedInv'
<1>0. /\ SaleTypes /\ SaleInv /\ OrderTypeOK /\ stock \in Nat \cup {NoProduct}
      /\ Pcs[o] \in Nat \ {0}
  BY SaleTypesAre, OrderedPieces DEF SharedInv, SaleInv, OrderInv
<1>1. /\ UNCHANGED <<saleVars, hash, row, budget, key, at, written, causes>>
      /\ order[o] = "withdrawn" /\ stock' = stock + Pcs[o]
      /\ order' = [order EXCEPT ![o] = "returned"]
      /\ out' = IF hash.available = Missing THEN out \ {o} ELSE out
  BY DEF ReturnStock, SetOrder, Returned
<1>2. stock \in Nat /\ stock' \in Nat
  <2>1. stock # NoProduct
    BY <1>1 DEF SharedInv, Books, TableBook, InState
  <2> QED BY <1>0, <1>1, <2>1
<1>3. SaleInv' /\ kept' = kept /\ hash'.used = hash.used /\ Sold' = Sold
  BY <1>0, <1>1, <1>2, SaleUnderOrders DEF NoProduct, SaleTypes
<1>4. OrderTypeOK'
  BY <1>0, <1>1 DEF OrderTypeOK, OrderStates
<1>5. OutInv' /\ KeyInv'
  BY <1>0, <1>1, <1>3 DEF SharedInv, OrderInv, OrderTypeOK, OutInv, KeyInv
<1>6. /\ Holders' = Holders \ {o} /\ o \in Holders /\ Placed' = Placed
  BY <1>0, <1>1 DEF Holders, Placed, InState, Holding, OrderTypeOK
<1>7. TableBook'
  <2>1. Ordered(Holders) \in Nat /\ Ordered(Holders \ {o}) = Ordered(Holders) - Pcs[o]
    BY <1>0, <1>6, OrderedPieces, SharedFacts
  <2>2. Ordered(Holders)' = Ordered(Holders \ {o})
    BY <1>6 DEF Ordered, Amounts!Pieces, Amounts!Units, Amounts!Cardinality
  <2>3. stock + written + Ordered(Holders) = InitialStock /\ written \in Nat
    BY <1>2 DEF SharedInv, Books, TableBook, Holders, NoProduct
  <2>4. stock' + written' + Ordered(Holders)' = InitialStock
    BY <1>0, <1>1, <1>2, <2>1, <2>2, <2>3
  <2> QED BY <1>2, <2>4 DEF TableBook, Holders, NoProduct
<1>8. NoPieceTwice'
  <2>1. Left' = Left /\ causes' = causes /\ (out \cup Placed)' \subseteq out \cup Placed
    BY <1>1, <1>6 DEF Left
  <2>2. Left' <= Left /\ Sold' <= Sold
    BY <1>0, <1>3, <2>1, SharedFacts
  <2> QED BY <1>0, <1>3, <1>4, <2>1, <2>2, PromisesShrink DEF SharedInv, Books
<1>9. HashBook'
  <2>1. kept' => out' = out
    BY <1>1, <1>3 DEF SharedInv, SaleInv, Unlapsed
  <2> QED BY <1>1, <1>3, <2>1, HashBookStays DEF SharedInv, Books
<1> QED BY <1>1, <1>3, <1>4, <1>5, <1>7, <1>8, <1>9 DEF SharedInv, OrderInv, Books

\* What luaRevertStock changes, or leaves.
LEMMA RevertEffect ==
  ASSUME SharedInv, NEW o \in Orders, RevertOrder(o)
  PROVE  \/ UNCHANGED <<hash, key, out, causes>>
         \/ /\ hash' = [hash EXCEPT !.available = Left + Pcs[o]]
            /\ key' = [key EXCEPT ![o] = "reverted"] /\ out' = out \ {o}
            /\ causes \subseteq causes' /\ causes' \subseteq Causes
            /\ causes' \subseteq {"lapsed"} => o \in out /\ order[o] # "placed"
            /\ hash'.available = Left + Pcs[o] /\ hash'.used = hash.used
            /\ Left' = Left + Pcs[o]
<1>0. hash \in HashRecords /\ Left \in Nat /\ Pcs[o] \in Nat
  BY SharedFacts, OrderedPieces DEF SharedInv, OrderInv
<1>1. CASE key[o] = "reverted"
  BY <1>1 DEF RevertOrder
<1>2. CASE key[o] # "reverted"
  <2>1. /\ hash' = [hash EXCEPT !.available = Left + Pcs[o]]
        /\ key' = [key EXCEPT ![o] = "reverted"] /\ out' = out \ {o}
        /\ causes' = causes \cup (When("phantom", o \notin out)
                                  \cup When("undone", o \in out /\ order[o] = "placed"))
    BY <1>2 DEF RevertOrder, Offer, SetKey, Because
  <2>2. causes \subseteq causes' /\ causes' \subseteq Causes
    BY <2>1 DEF When, Causes, SharedInv, Books
  <2>3. causes' \subseteq {"lapsed"} => o \in out /\ order[o] # "placed"
    <3>1. CASE o \notin out
      <4>1. "phantom" \in causes'
        BY <2>1, <3>1 DEF When
      <4> QED BY <4>1
    <3>2. CASE o \in out /\ order[o] = "placed"
      <4>1. "undone" \in causes'
        BY <2>1, <3>2 DEF When
      <4> QED BY <4>1
    <3> QED BY <3>1, <3>2
  <2>4. hash'.available = Left + Pcs[o] /\ hash'.used = hash.used /\ Left + Pcs[o] \in Nat
    BY <1>0, <2>1 DEF HashRecords
  <2>5. Left' = Left + Pcs[o]
    BY <2>4 DEF Left, Missing
  <2> QED BY <2>1, <2>2, <2>3, <2>4, <2>5
<1> QED BY <1>1, <1>2

LEMMA RevertSteps ==
  ASSUME SharedInv, NEW o \in Orders, UndoOrder(o) \/ CancelReverts(o)
  PROVE  SharedInv'
<1>0. /\ SaleTypes /\ SaleInv /\ OrderTypeOK /\ stock \in Nat \cup {NoProduct}
      /\ SyncTypeOK /\ Pcs[o] \in Nat \ {0} /\ Left \in Nat
  BY SaleTypesAre, OrderedPieces, SharedFacts DEF SharedInv, SaleInv, OrderInv
<1>1. UNCHANGED <<saleVars, stock, row, written>>
  BY DEF UndoOrder, CancelReverts
<1>2. budget' \in Budgets
  BY <1>0, FaultBudget DEF UndoOrder, CancelReverts, SaleTypes, Budgets
<1>3. \/ order' = order /\ at[o] = "undo" /\ at' = [at EXCEPT ![o] = "idle"]
      \/ /\ order[o] = "cancelling" /\ at' = at
         /\ order' = order \/ order' = [order EXCEPT ![o] = "withdrawn"]
  BY DEF UndoOrder, CancelReverts, Move, SetOrder
<1>4. /\ order' \in [Orders -> OrderStates]
      /\ at' \in [Orders -> {"idle", "checked", "locked", "undo"}]
      /\ at'[o] # "locked"
      /\ \A p \in Orders \ {o} : order'[p] = order[p] /\ at'[p] = at[p]
      /\ order'[o] = "new" <=> order[o] = "new"
      /\ order'[o] = "returned" <=> order[o] = "returned"
      /\ order'[o] = "placed" <=> order[o] = "placed"
  BY <1>0, <1>3 DEF OrderTypeOK, OrderStates
<1>5. /\ Holders' = Holders /\ New' = New /\ Placed' = Placed
  BY <1>0, <1>3 DEF Holders, New, Placed, InState, Holding, OrderTypeOK
<1>6. CASE UNCHANGED <<hash, key, out, causes>>
  <2>1. SaleInv' /\ kept' = kept /\ hash'.used = hash.used /\ Sold' = Sold
    BY <1>0, <1>1, <1>2, <1>6, SaleUnderOrders DEF SaleTypes
  <2>2. OrderTypeOK'
    BY <1>0, <1>4, <1>6 DEF OrderTypeOK
  <2>3. OutInv' /\ KeyInv'
    BY <1>0, <1>4, <1>6, <2>1 DEF SharedInv, OrderInv, OrderTypeOK, OutInv, KeyInv
  <2>4. Books'
    BY <1>1, <1>5, <1>6, <2>1, <2>2, OrderBooksStay DEF SharedInv, Books
  <2> QED BY <2>1, <2>2, <2>3, <2>4 DEF SharedInv, OrderInv
<1>7. CASE /\ hash' = [hash EXCEPT !.available = Left + Pcs[o]]
           /\ key' = [key EXCEPT ![o] = "reverted"] /\ out' = out \ {o}
           /\ causes \subseteq causes' /\ causes' \subseteq Causes
           /\ causes' \subseteq {"lapsed"} => o \in out /\ order[o] # "placed"
           /\ hash'.available = Left + Pcs[o] /\ hash'.used = hash.used
           /\ Left' = Left + Pcs[o]
  <2>0. Left + Pcs[o] \in Nat
    BY <1>0
  <2>1. SaleInv' /\ kept' = kept /\ Sold' = Sold
    BY <1>0, <1>1, <1>2, <1>7, <2>0, SaleUnderOrders DEF SaleTypes
  <2>2. OrderTypeOK'
    BY <1>0, <1>4, <1>7 DEF OrderTypeOK
  <2>3. OutInv' /\ KeyInv'
    BY <1>0, <1>4, <1>7, <2>0, <2>1
       DEF SharedInv, OrderInv, OrderTypeOK, OutInv, KeyInv, Missing
  <2>4. TableBook'
    BY <1>1, <1>5, TableStays DEF SharedInv, Books
  <2>5. NoPieceTwice'
    <3>1. CASE ~(causes' \subseteq {"lapsed"})
      BY <3>1 DEF NoPieceTwice
    <3>2. CASE causes' \subseteq {"lapsed"}
      <4> DEFINE A == out \cup Placed
      <4>1. o \in A /\ (out \cup Placed)' = A \ {o} /\ A \in SUBSET Orders
        BY <1>0, <1>5, <1>7, <3>2, SharedFacts DEF Placed, InState
      <4>2. Left + Sold + Ordered(A) <= InitialStock
        BY <1>7, <3>2 DEF SharedInv, Books, NoPieceTwice, Placed
      <4> HIDE DEF A
      <4>3. Ordered(A) \in Nat /\ Ordered(A \ {o}) = Ordered(A) - Pcs[o]
        BY <4>1, OrderedPieces
      <4>4. Ordered(out \cup Placed)' = Ordered(A \ {o})
        BY <4>1 DEF Ordered, Amounts!Pieces, Amounts!Units, Amounts!Cardinality
      <4>5. Left' + Sold' + Ordered(out \cup Placed)' <= InitialStock
        BY <1>0, <1>7, <2>1, <4>2, <4>3, <4>4, SoldType, SharedFacts
      <4> QED BY <4>5 DEF NoPieceTwice, Placed
    <3> QED BY <3>1, <3>2
  <2>6. HashBook'
    <3> SUFFICES ASSUME kept', causes' = {}
                 PROVE  (hash.available + hash.used + Ordered(out) = InitialStock)'
      BY DEF HashBook
    <3>1. /\ kept /\ causes = {} /\ o \in out /\ out \in SUBSET Orders
          /\ Left = hash.available
      BY <1>0, <1>7, <2>1, SharedFacts DEF SaleInv, Unlapsed
    <3>2. Ordered(out) \in Nat /\ Ordered(out \ {o}) = Ordered(out) - Pcs[o]
      BY <3>1, OrderedPieces
    <3>3. Ordered(out)' = Ordered(out \ {o})
      BY <1>7 DEF Ordered, Amounts!Pieces, Amounts!Units, Amounts!Cardinality
    <3>4. hash.available + hash.used + Ordered(out) = InitialStock /\ hash.used \in Nat
      BY <1>0, <3>1, SharedFacts DEF SharedInv, Books, HashBook
    <3> QED BY <1>0, <1>7, <3>1, <3>2, <3>3, <3>4
  <2> QED BY <1>1, <1>7, <2>1, <2>2, <2>3, <2>4, <2>5, <2>6 DEF SharedInv, OrderInv, Books
<1> QED BY <1>6, <1>7, RevertEffect DEF UndoOrder, CancelReverts

\* The pre-lock takes the pieces: the hash offers less, the saga has more.
LEMMA PreLockTakes ==
  ASSUME SharedInv, NEW o \in Orders, PreLockOrder(o), order[o] = "taken",
         Takes(o), TakePieces(o), causes' = causes,
         at' = [at EXCEPT ![o] = "locked"] \/ at' = [at EXCEPT ![o] = "undo"],
         budget' \in Budgets
  PROVE  SharedInv'
<1>0. /\ SaleTypes /\ SaleInv /\ OrderTypeOK /\ stock \in Nat \cup {NoProduct}
      /\ Pcs[o] \in Nat \ {0} /\ hash \in HashRecords /\ Left \in Nat
      /\ hash.available \in Nat \cup {Missing} /\ hash.used \in Nat
  BY SaleTypesAre, OrderedPieces, SharedFacts DEF SharedInv, SaleInv, OrderInv
<1>1. UNCHANGED <<saleVars, stock, row, order, written>>
  BY DEF PreLockOrder
<1>2. /\ hash.available \in Nat /\ hash.available >= Pcs[o] /\ key[o] = "none"
      /\ Left = hash.available
  BY <1>0 DEF Takes, Left
<1>3. /\ hash' = [hash EXCEPT !.available = hash.available - Pcs[o]]
      /\ key' = [key EXCEPT ![o] = "held"] /\ out' = out \cup {o}
  BY <1>0 DEF TakePieces, TakenFrom, SetKey, HashRecords
<1>4. /\ hash'.available = hash.available - Pcs[o] /\ hash'.used = hash.used
      /\ hash'.available \in Nat /\ Left' = Left - Pcs[o]
  <2>1. hash.available - Pcs[o] \in Nat
    BY <1>0, <1>2
  <2>2. hash'.available = hash.available - Pcs[o] /\ hash'.used = hash.used
    BY <1>0, <1>3 DEF HashRecords
  <2> QED BY <1>2, <2>1, <2>2 DEF Left, Missing
<1>5. SaleInv' /\ kept' = kept /\ Sold' = Sold
  BY <1>0, <1>1, <1>3, <1>4, SaleUnderOrders DEF SaleTypes
<1>6. OrderTypeOK'
  BY <1>0, <1>1, <1>3 DEF OrderTypeOK
<1>7. OutInv' /\ KeyInv'
  BY <1>0, <1>1, <1>3, <1>4, <1>5
     DEF SharedInv, OrderInv, OrderTypeOK, OutInv, KeyInv, Missing
<1>8. Holders' = Holders /\ New' = New /\ Placed' = Placed
  BY <1>1 DEF Holders, New, Placed, InState
<1>9. TableBook'
  BY <1>1, <1>8, TableStays DEF SharedInv, Books
<1>10. NoPieceTwice'
  <2> SUFFICES ASSUME causes \subseteq {"lapsed"}
               PROVE  Left' + Sold' + Ordered(out \cup Placed)' <= InitialStock
    BY DEF NoPieceTwice, Placed
  <2> DEFINE A == out \cup Placed
  <2>0. Pcs[o] \in Nat
    BY <1>0
  <2>1. A \in SUBSET Orders
    BY <1>0, SharedFacts
  <2>5. (out \cup Placed)' = A \cup {o}
    BY <1>3, <1>8
  <2>2. Left + Sold + Ordered(A) <= InitialStock
    BY DEF SharedInv, Books, NoPieceTwice, Placed
  <2> HIDE DEF A
  <2>3. Ordered(A) \in Nat /\ Ordered(A \cup {o}) <= Ordered(A) + Pcs[o]
    <3>1. CASE o \in A
      <4>1. A \cup {o} = A
        BY <3>1
      <4>2. Ordered(A) \in Nat
        BY <2>1, OrderedPieces
      <4>3. Ordered(A) <= Ordered(A) + Pcs[o]
        BY <2>0, <4>2
      <4> QED BY <4>1, <4>2, <4>3
    <3>2. CASE o \notin A
      <4>1. Ordered(A) \in Nat /\ Ordered(A \cup {o}) = Ordered(A) + Pcs[o]
        BY <2>1, <3>2, OrderedPieces
      <4> QED BY <2>0, <4>1
    <3> QED BY <3>1, <3>2
  <2>4. Ordered(out \cup Placed)' = Ordered(A \cup {o}) /\ Ordered(A \cup {o}) \in Nat
    <3>1. Ordered(out \cup Placed)' = Ordered(A \cup {o})
      BY <2>5, PromisedNext
    <3>2. A \cup {o} \in SUBSET Orders
      BY <2>1
    <3> QED BY <3>1, <3>2, OrderedPieces
  <2> QED BY <1>0, <1>4, <1>5, <2>2, <2>3, <2>4, SharedFacts
<1>11. HashBook'
  <2> SUFFICES ASSUME kept', causes' = {}
               PROVE  (hash.available + hash.used + Ordered(out) = InitialStock)'
    BY DEF HashBook
  <2>1. kept /\ causes = {} /\ o \notin out /\ out \in SUBSET Orders
    BY <1>0, <1>2, <1>5, SharedFacts DEF SharedInv, OrderInv, KeyInv
  <2>2. Ordered(out) \in Nat /\ Ordered(out \cup {o}) = Ordered(out) + Pcs[o]
    BY <2>1, OrderedPieces
  <2>3. Ordered(out)' = Ordered(out \cup {o})
    BY <1>3 DEF Ordered, Amounts!Pieces, Amounts!Units, Amounts!Cardinality
  <2>4. hash.available + hash.used + Ordered(out) = InitialStock
    BY <2>1 DEF SharedInv, Books, HashBook
  <2> QED BY <1>0, <1>2, <1>4, <2>2, <2>3, <2>4
<1> QED BY <1>1, <1>5, <1>6, <1>7, <1>9, <1>10, <1>11 DEF SharedInv, OrderInv, Books

\* What is promised when a load, or a pre-lock without a hash, has no cause of
\* its own: the table still holds all of it.
LEMMA TableCovers ==
  ASSUME SaleInv, OrderTypeOK, TableBook, written \in Nat, ~Unwritten, stock # NoProduct,
         NEW A \in SUBSET Holders
  PROVE  /\ Ordered(A) \in Nat
         /\ stock + Sold + Ordered(A) <= InitialStock
<1>1. Ordered(A) \in Nat /\ Ordered(Holders) \in Nat /\ Ordered(A) <= Ordered(Holders)
  BY OrderedPieces, OrderedMonotone, SharedFacts
<1>2. stock + written + Ordered(Holders) = InitialStock
  BY DEF TableBook, Holders
<1>3. Sold <= written /\ Sold \in Nat /\ stock \in Nat
  BY SharedFacts DEF Unwritten
<1> QED BY <1>1, <1>2, <1>3

\* A pre-lock without a hash: the saga goes on, and holds its pieces in the
\* table only.
LEMMA PreLockUnseen ==
  ASSUME SharedInv, NEW o \in Orders, PreLockOrder(o), order[o] = "taken", Unseen(o),
         at' = [at EXCEPT ![o] = "locked"], out' = out \cup {o},
         Because(When("unwritten", Unwritten)), UNCHANGED <<hash, budget, key>>
  PROVE  SharedInv'
<1>0. /\ SaleTypes /\ SaleInv /\ OrderTypeOK /\ stock \in Nat \cup {NoProduct}
      /\ hash.available = Missing /\ ~kept
  BY SaleTypesAre DEF SharedInv, SaleInv, OrderInv, Unseen, Unlapsed
<1>1. UNCHANGED <<saleVars, stock, row, order, written>>
  BY DEF PreLockOrder
<1>2. SaleInv' /\ kept' = kept /\ Sold' = Sold
  BY <1>0, <1>1, SaleUnderOrders DEF SaleTypes
<1>3. OrderTypeOK'
  BY <1>0, <1>1 DEF OrderTypeOK
<1>4. OutInv' /\ KeyInv'
  BY <1>0, <1>1, <1>2 DEF SharedInv, OrderInv, OrderTypeOK, OutInv, KeyInv
<1>5. Holders' = Holders /\ New' = New /\ Placed' = Placed
  BY <1>1 DEF Holders, New, Placed, InState
<1>6. TableBook' /\ HashBook'
  BY <1>0, <1>1, <1>2, <1>5, TableStays DEF SharedInv, Books, HashBook
<1>7. causes \subseteq causes' /\ causes' \subseteq Causes
  BY DEF Because, When, Causes, SharedInv, Books
<1>8. NoPieceTwice'
  <2> SUFFICES ASSUME causes' \subseteq {"lapsed"}
               PROVE  Left' + Sold' + Ordered(out \cup Placed)' <= InitialStock
    BY DEF NoPieceTwice, Placed
  <2>1. ~Unwritten
    <3>1. Unwritten => "unwritten" \in causes'
      BY DEF Because, When
    <3> QED BY <3>1
  <2>2. stock # NoProduct
    BY DEF SharedInv, Books, TableBook, InState
  <2>3. out \cup {o} \cup Placed \in SUBSET Holders
    BY <1>0, SharedFacts DEF SharedInv, OrderInv, OutInv, OrderTypeOK, Holders, InState,
                             Holding, OrderStates
  <2>4. Ordered(out \cup Placed)' = Ordered(out \cup {o} \cup Placed)
    BY <1>5 DEF Ordered, Amounts!Pieces, Amounts!Units, Amounts!Cardinality
  <2>5. Left' = 0
    BY <1>0 DEF Left
  <2>6. /\ Ordered(out \cup {o} \cup Placed) \in Nat
        /\ stock + Sold + Ordered(out \cup {o} \cup Placed) <= InitialStock
    BY <1>0, <2>1, <2>2, <2>3, TableCovers DEF SharedInv, Books
  <2> QED BY <1>0, <1>2, <2>2, <2>4, <2>5, <2>6, SharedFacts
<1> QED BY <1>1, <1>2, <1>3, <1>4, <1>6, <1>7, <1>8 DEF SharedInv, OrderInv, Books

LEMMA SagaPreLocks ==
  ASSUME SharedInv, NEW o \in Orders, PreLockOrder(o)
  PROVE  SharedInv'
<1>0. /\ SaleTypes /\ SaleInv /\ OrderTypeOK /\ stock \in Nat \cup {NoProduct} /\ SyncTypeOK
  BY SaleTypesAre DEF SharedInv, SaleInv, OrderInv
<1>1. budget' \in Budgets
  BY <1>0, FaultBudget DEF PreLockOrder, SaleTypes, Budgets
<1>2. CASE order[o] = "taken" /\ Takes(o) /\ TakePieces(o)
  BY <1>1, <1>2, PreLockTakes DEF PreLockOrder, Move, Unseen, Takes, Repeats
<1>3. CASE /\ order[o] = "taken" /\ Unseen(o) /\ Move(o, "locked")
           /\ out' = out \cup {o} /\ Because(When("unwritten", Unwritten))
           /\ UNCHANGED <<hash, budget, key>>
  BY <1>3, PreLockUnseen DEF Move
<1>4. CASE UNCHANGED <<hash, key, out, causes>>
  <2>1. UNCHANGED <<saleVars, stock, row, order, written>>
    BY DEF PreLockOrder
  <2>2. SaleInv' /\ kept' = kept /\ hash'.used = hash.used /\ Sold' = Sold
    BY <1>0, <1>1, <1>4, <2>1, SaleUnderOrders DEF SaleTypes
  <2>3. \/ at' = [at EXCEPT ![o] = "idle"] \/ at' = [at EXCEPT ![o] = "undo"]
        \/ at' = [at EXCEPT ![o] = "locked"] /\ order[o] = "taken" /\ Repeats(o)
        \/ at' = [at EXCEPT ![o] = "locked"] /\ order[o] = "taken" /\ Takes(o) /\ TakePieces(o)
        \/ at' = [at EXCEPT ![o] = "locked"] /\ order[o] = "taken" /\ o \in out'
    BY DEF PreLockOrder, Move
  <2>4. at'[o] = "locked" => order[o] = "taken" /\ o \in out
    BY <1>0, <1>4, <2>3 DEF OrderTypeOK, Repeats, SharedInv, OrderInv, KeyInv, TakePieces
  <2>5. OrderTypeOK'
    BY <1>0, <1>4, <2>1, <2>3, <2>4 DEF OrderTypeOK
  <2>6. OutInv' /\ KeyInv'
    BY <1>4, <2>1, <2>2 DEF SharedInv, OrderInv, OutInv, KeyInv
  <2>7. Books'
    BY <1>4, <2>1, <2>2, <2>5, OrderBooksStay DEF SharedInv, Books, Holders, New, Placed, InState
  <2> QED BY <2>2, <2>5, <2>6, <2>7 DEF SharedInv, OrderInv
<1> QED BY <1>2, <1>3, <1>4 DEF PreLockOrder

-----------------------------------------------------------------------------
(* The steps of direct sales, in the books of the sagas.                   *)

\* A step that keeps the hash, or only what it offers.
LEMMA SaleOrders ==
  ASSUME SharedInv, UNCHANGED <<order, key, at, out, causes>>, kept' = kept,
         hash.available # Missing => hash'.available # Missing
  PROVE  OrderInv'
<1>1. OrderTypeOK'
  BY DEF SharedInv, OrderInv, OrderTypeOK
<1>2. OutInv' /\ KeyInv'
  <2>1. hash'.available = Missing => hash.available = Missing
    OBVIOUS
  <2> QED BY <2>1 DEF SharedInv, OrderInv, OutInv, KeyInv
<1> QED BY <1>1, <1>2 DEF OrderInv

LEMMA StillBooks ==
  ASSUME SharedInv, SaleInv', UNCHANGED <<order, key, at, out, causes>>, kept' = kept,
         hash'.available = hash.available, hash'.used = hash.used, charged' = charged
  PROVE  /\ OrderInv' /\ NoPieceTwice' /\ HashBook'
         /\ Holders' = Holders /\ New' = New
<1>1. OrderInv'
  BY SaleOrders
<1>2. Sold' = Sold /\ Left' = Left
  BY DEF Sold, Left, Sale!Pieces, Sale!Units, Sale!Cardinality
<1>3. Holders' = Holders /\ New' = New /\ Placed' = Placed
  BY DEF Holders, New, Placed, InState
<1>4. Left' <= Left /\ Sold' <= Sold
  BY <1>2, SharedFacts DEF SharedInv, OrderInv
<1>5. NoPieceTwice'
  BY <1>1, <1>3, <1>4, PromisesShrink DEF SharedInv, OrderInv, Books
<1>6. HashBook'
  BY HashBookStays DEF SharedInv, Books
<1> QED BY <1>1, <1>3, <1>5, <1>6

LEMMA QuietShared ==
  ASSUME SharedInv, \/ SaleQuiet
                    \/ \E c \in Calls : SyncCas(c),
         UNCHANGED <<order, key, at, out, written, causes>>
  PROVE  SharedInv'
<1>1. /\ SaleInv' /\ stock' = stock /\ kept' = kept /\ charged' = charged
      /\ hash'.available = hash.available /\ hash'.used = hash.used
  BY SaleStaysQuiet, SaleSetsSynced DEF SharedInv, redisVars
<1>2. /\ OrderInv' /\ NoPieceTwice' /\ HashBook' /\ Holders' = Holders /\ New' = New
  BY <1>1, StillBooks
<1>3. TableBook'
  BY <1>1, <1>2, TableStays DEF SharedInv, Books
<1> QED BY <1>1, <1>2, <1>3 DEF SharedInv, Books

LEMMA WrittenGrows ==
  \A w, before, after \in Nat : after < before => w + (before - after) \in Nat
OBVIOUS

\* What is written back leaves the table and is booked as written.
LEMMA WriteBackShared ==
  ASSUME SharedInv, NEW c \in Calls, SyncUpdate(c), written' = written + (stock - stock'),
         UNCHANGED <<order, key, at, out, causes>>
  PROVE  SharedInv'
<1>1. /\ SaleInv' /\ kept' = kept /\ charged' = charged
      /\ hash'.available = hash.available /\ hash'.used = hash.used
      /\ \/ stock' = stock
         \/ stock \in Nat /\ stock' \in Nat /\ stock' < stock
  BY SaleWritesBack DEF SharedInv, redisVars
<1>2. /\ OrderInv' /\ NoPieceTwice' /\ HashBook' /\ Holders' = Holders /\ New' = New
  BY <1>1, StillBooks
<1>3. /\ written \in Nat /\ stock \in Nat \cup {NoProduct} /\ Ordered(Holders) \in Nat
      /\ InitialStock \in Nat
  BY SharedFacts, OrderedPieces DEF SharedInv, OrderInv, Books
<1>4. CASE stock' = stock
  <2>1. written' = written
    BY <1>3, <1>4 DEF NoProduct
  <2>2. TableBook'
    BY <1>2, <1>4, <2>1, TableStays DEF SharedInv, Books
  <2> QED BY <1>1, <1>2, <2>1, <2>2 DEF SharedInv, Books
<1>5. CASE stock \in Nat /\ stock' \in Nat /\ stock' < stock
  <2>1. written' \in Nat
    BY <1>3, <1>5, WrittenGrows, Zenon
  <2>2. Ordered(Holders)' = Ordered(Holders)
    BY <1>2 DEF Ordered, Amounts!Pieces, Amounts!Units, Amounts!Cardinality
  <2>3. stock + written + Ordered(Holders) = InitialStock
    BY <1>5 DEF SharedInv, Books, TableBook, Holders, NoProduct
  <2>4. stock' + written' + Ordered(Holders)' = InitialStock
    BY <1>3, <1>5, <2>2, <2>3
  <2>5. TableBook'
    BY <1>5, <2>4 DEF TableBook, Holders, NoProduct
  <2> QED BY <1>1, <1>2, <2>1, <2>5 DEF SharedInv, Books
<1> QED BY <1>1, <1>4, <1>5

\* A sale moves pieces from what is offered to what is sold.
LEMMA SellShared ==
  ASSUME SharedInv, NEW c \in Calls,
         CheckSells(c) \/ (Retry(c) /\ SaleCode(RequestOf[c]) = 1),
         UNCHANGED <<order, key, at, out, written, causes>>
  PROVE  SharedInv'
<1> DEFINE r == RequestOf[c]
<1>1. /\ SaleInv' /\ stock' = stock /\ SaleCode(r) = 1 /\ Sell(r) /\ r \in Requests
      /\ SyncTypeOK /\ ChargedInv
  BY SaleSells DEF SharedInv, SaleInv
<1> HIDE DEF r
<1>2. /\ r \notin processed /\ hash.available \in Nat /\ Num[r] \in Nat
      /\ hash'.available = hash.available - Num[r] /\ hash'.available \in Nat
      /\ hash'.used = hash.used + Num[r] /\ kept' = kept
      /\ charged' = [charged EXCEPT ![r] = @ + 1]
  BY <1>1, SellEffect
<1>3. Sold' = Sold + Num[r]
  BY <1>1, <1>2, SoldAdd DEF SharedInv
<1>4. Left = hash.available /\ Left' = hash'.available
  BY <1>2 DEF Left, Missing
<1>5. OrderInv'
  BY <1>2, SaleOrders DEF Missing
<1>6. Holders' = Holders /\ New' = New /\ Placed' = Placed
  BY DEF Holders, New, Placed, InState
<1>7. TableBook'
  BY <1>1, <1>6, TableStays DEF SharedInv, Books
<1>8. /\ Sold \in Nat /\ InitialStock \in Nat /\ hash.used \in Nat
      /\ Ordered(out \cup Placed) \in Nat /\ Ordered(out) \in Nat
  <2>1. out \cup Placed \in SUBSET Orders /\ out \in SUBSET Orders
    BY SharedFacts DEF SharedInv, OrderInv
  <2> QED BY <2>1, SharedFacts, OrderedPieces DEF SharedInv, OrderInv
<1>9. Ordered(out \cup Placed)' = Ordered(out \cup Placed) /\ Ordered(out)' = Ordered(out)
  BY <1>6 DEF Ordered, Amounts!Pieces, Amounts!Units, Amounts!Cardinality
<1>10. NoPieceTwice'
  <2> SUFFICES ASSUME causes \subseteq {"lapsed"}
               PROVE  Left' + Sold' + Ordered(out \cup Placed)' <= InitialStock
    BY DEF NoPieceTwice, Placed
  <2>1. Left + Sold + Ordered(out \cup Placed) <= InitialStock
    BY DEF SharedInv, Books, NoPieceTwice, Placed
  <2> QED BY <1>2, <1>3, <1>4, <1>8, <1>9, <2>1
<1>11. HashBook'
  <2> SUFFICES ASSUME kept', causes = {}
               PROVE  hash'.available + hash'.used + Ordered(out)' = InitialStock
    BY DEF HashBook
  <2>1. hash.available + hash.used + Ordered(out) = InitialStock
    BY <1>2 DEF SharedInv, Books, HashBook
  <2> QED BY <1>2, <1>8, <1>9, <2>1
<1> QED BY <1>1, <1>5, <1>7, <1>10, <1>11 DEF SharedInv, Books

\* A hash that is loaded, or gone, offers again what sagas have returned.
LEMMA OfferedAgain ==
  ASSUME SharedInv, OfferReturned, UNCHANGED <<order, key, at>>, kept' = FALSE
  PROVE  /\ OrderInv' /\ HashBook'
         /\ out' \subseteq out /\ (out \cup Placed)' \subseteq Holders
         /\ Holders' = Holders /\ New' = New /\ Placed' = Placed
<1>1. out' = out \ InState({"returned"})
  BY DEF OfferReturned
<1>2. OrderTypeOK'
  BY <1>1 DEF SharedInv, OrderInv, OrderTypeOK, InState
<1>3. OutInv' /\ KeyInv'
  BY <1>1 DEF SharedInv, OrderInv, OutInv, KeyInv, InState, OrderTypeOK
<1>4. Holders' = Holders /\ New' = New /\ Placed' = Placed
  BY DEF Holders, New, Placed, InState
<1>5. (out \cup Placed)' \subseteq Holders
  BY <1>1 DEF SharedInv, OrderInv, OutInv, OrderTypeOK, Holders, Placed, InState,
              Holding, OrderStates
<1> QED BY <1>1, <1>2, <1>3, <1>4, <1>5 DEF OrderInv, HashBook

LEMMA LoadShared ==
  ASSUME SharedInv, NEW n \in Nat \cup {NoProduct},
         \/ \E c \in Calls : LoadWrite(c) /\ n = call[c].seen
         \/ WarmWrite /\ n = warm.seen,
         Loads(n), OfferReturned, UNCHANGED <<order, key, at, written>>
  PROVE  SharedInv'
<1>1. /\ SaleInv' /\ stock' = stock /\ kept' = FALSE /\ charged' = charged
      /\ hash'.available = IF n = NoProduct THEN 0 ELSE n
  BY SaleLoads DEF SharedInv, SaleInv, SyncTypeOK
<1>2. /\ OrderInv' /\ HashBook' /\ out' \subseteq out
      /\ (out \cup Placed)' \subseteq Holders
      /\ Holders' = Holders /\ New' = New /\ Placed' = Placed
  BY <1>1, OfferedAgain
<1>3. TableBook'
  BY <1>1, <1>2, TableStays DEF SharedInv, Books
<1>4. causes \subseteq causes' /\ causes' \subseteq Causes
  BY DEF Loads, Because, When, Causes, SharedInv, Books
<1>5. Sold' = Sold
  BY <1>1 DEF Sold, Sale!Pieces, Sale!Units, Sale!Cardinality
<1>6. /\ Sold \in Nat /\ Left \in Nat /\ stock \in Nat \cup {NoProduct}
      /\ InitialStock \in Nat
  BY SharedFacts DEF SharedInv, OrderInv
<1>7. NoPieceTwice'
  <2>1. CASE n = NoProduct
    <3>1. Left' = 0
      BY <1>1, <2>1 DEF Left, Missing
    <3>2. Left' <= Left /\ Sold' <= Sold
      BY <1>5, <1>6, <3>1
    <3>3. (out \cup Placed)' \subseteq out \cup Placed
      BY <1>2
    <3> QED BY <1>1, <1>2, <1>4, <3>2, <3>3, PromisesShrink DEF SharedInv, OrderInv, Books
  <2>2. CASE n \in Nat
    <3> SUFFICES ASSUME causes' \subseteq {"lapsed"}
                 PROVE  Left' + Sold' + Ordered(out \cup Placed)' <= InitialStock
      BY DEF NoPieceTwice, Placed
    <3>1. ~(n > stock) /\ ~Unwritten
      <4>1. (n > stock => "stale" \in causes') /\ (Unwritten => "unwritten" \in causes')
        BY DEF Loads, Because, When
      <4> QED BY <4>1
    <3>2. stock \in Nat /\ n <= stock /\ Left' = n /\ stock # NoProduct
      BY <1>1, <1>6, <2>2, <3>1 DEF Left, Missing, NoProduct
    <3> DEFINE B == (out \cup Placed)'
    <3>3. B \subseteq Holders
      BY <1>2
    <3>4. Ordered(out \cup Placed)' = Ordered(B)
      BY DEF Ordered, Amounts!Pieces, Amounts!Units, Amounts!Cardinality
    <3> HIDE DEF B
    <3>5. Ordered(B) \in Nat /\ stock + Sold + Ordered(B) <= InitialStock
      BY <3>1, <3>2, <3>3, TableCovers DEF SharedInv, OrderInv, Books
    <3> QED BY <1>5, <1>6, <2>2, <3>2, <3>4, <3>5
  <2> QED BY <2>1, <2>2
<1> QED BY <1>1, <1>2, <1>3, <1>4, <1>7 DEF SharedInv, Books

LEMMA LapseShared ==
  ASSUME SharedInv, HashLapses, OfferReturned, UNCHANGED <<order, key, at, written, causes>>
  PROVE  SharedInv'
<1>1. /\ SaleInv' /\ stock' = stock /\ kept' = FALSE /\ charged' = charged
      /\ hash'.available = Missing
  BY SaleLapses DEF SharedInv, HashLapses
<1>2. /\ OrderInv' /\ HashBook' /\ out' \subseteq out
      /\ Holders' = Holders /\ New' = New /\ Placed' = Placed
  BY <1>1, OfferedAgain
<1>3. TableBook'
  BY <1>1, <1>2, TableStays DEF SharedInv, Books
<1>4. Sold' = Sold /\ Left' = 0
  BY <1>1 DEF Left, Sold, Sale!Pieces, Sale!Units, Sale!Cardinality
<1>5. Left' <= Left /\ Sold' <= Sold
  BY <1>4, SharedFacts DEF SharedInv, OrderInv
<1>6. (out \cup Placed)' \subseteq out \cup Placed
  BY <1>2
<1>7. NoPieceTwice'
  BY <1>1, <1>2, <1>5, <1>6, PromisesShrink DEF SharedInv, OrderInv, Books
<1> QED BY <1>1, <1>2, <1>3, <1>7 DEF SharedInv, Books

LEMMA SharedSaleStep ==
  ASSUME SharedInv, SaleStep, UNCHANGED <<order, key, at>>
  PROVE  SharedInv'
<1>0. SyncTypeOK
  BY DEF SharedInv, SaleInv
<1>1. ASSUME NEW c \in Calls, SyncUpdate(c), written' = written + (stock - stock'),
             UNCHANGED <<out, causes>>
      PROVE  SharedInv'
  BY <1>1, WriteBackShared
<1>2. ASSUME NEW c \in Calls, LoadWrite(c), Loads(call[c].seen), OfferReturned,
             UNCHANGED written
      PROVE  SharedInv'
  <2>1. call[c].seen \in Nat \cup {NoProduct}
    BY <1>0 DEF SyncTypeOK
  <2> QED BY <1>2, <2>1, LoadShared
<1>3. ASSUME WarmWrite, Loads(warm.seen), OfferReturned, UNCHANGED written
      PROVE  SharedInv'
  <2>1. warm.seen \in Nat \cup {NoProduct}
    BY <1>0 DEF SyncTypeOK
  <2> QED BY <1>3, <2>1, LoadShared
<1>4. ASSUME HashLapses, OfferReturned, UNCHANGED <<written, causes>> PROVE SharedInv'
  BY <1>4, LapseShared
<1>5. ASSUME WarmRead \/ WarmCheck \/ RowLapses, UNCHANGED <<out, written, causes>>
      PROVE  SharedInv'
  BY <1>5, QuietShared DEF SaleQuiet
<1>6. ASSUME NEW c \in Calls, UNCHANGED <<out, written, causes>>,
             \/ CheckSells(c) \/ CheckAnswers(c) \/ CheckMisses(c) \/ LoadRead(c) \/ Retry(c)
             \/ CallFails(c) \/ SyncRead(c) \/ SyncCas(c) \/ SyncStops(c)
      PROVE  SharedInv'
  <2>1. CASE CheckSells(c) \/ (Retry(c) /\ SaleCode(RequestOf[c]) = 1)
    BY <1>6, <2>1, SellShared
  <2>2. CASE SaleQuiet \/ SyncCas(c)
    BY <1>6, <2>2, QuietShared
  <2> QED BY <1>6, <2>1, <2>2 DEF SaleQuiet
<1> QED BY <1>1, <1>2, <1>3, <1>4, <1>5, <1>6 DEF SaleStep

LEMMA SharedStart == SharedInit => SharedInv
<1> SUFFICES ASSUME SharedInit PROVE SharedInv
  OBVIOUS
<1>1. /\ Init /\ order = [o \in Orders |-> "new"] /\ key = [o \in Orders |-> "none"]
      /\ at = [o \in Orders |-> "idle"] /\ out = {} /\ written = 0 /\ causes = {}
  BY DEF SharedInit
<1>2. DirectInv
  BY <1>1, InitDirect
<1>3. SaleInv
  <2>1. SyncTypeOK /\ ChargedInv
    BY <1>2 DEF DirectInv, ProcessedInv, ChargedInv
  <2>2. WritersInv
    BY <1>1 DEF WritersInv, Init
  <2>3. kept => Unlapsed
    BY <1>2 DEF DirectInv, KeptInv, Unlapsed
  <2> QED BY <2>1, <2>2, <2>3 DEF SaleInv
<1>4. OrderInv
  BY <1>1 DEF OrderInv, OrderTypeOK, OutInv, KeyInv, OrderStates
<1>5. /\ out = {} /\ Placed = {} /\ Holders = {} /\ New = Orders /\ Ordered({}) = 0
  <2>1. {} \in SUBSET Orders
    OBVIOUS
  <2> QED BY <1>1, <2>1, OrderedPieces DEF Placed, Holders, New, InState, Holding
<1>6. /\ InitialStock \in Nat
      /\ hash.available \in {InitialStock, Missing} /\ hash.used = 0
      /\ stock \in {InitialStock, NoProduct}
      /\ kept => hash.available = InitialStock
  <2>1. /\ HashOf(InitialStock).available = InitialStock /\ NoHash.available = Missing
        /\ HashOf(InitialStock).used = 0 /\ NoHash.used = 0
    BY DEF HashOf, NoHash
  <2>2. \/ hash = HashOf(InitialStock) /\ stock = InitialStock
        \/ hash = NoHash /\ stock \in {InitialStock, NoProduct}
    BY <1>1 DEF Init
  <2>3. kept => hash = HashOf(InitialStock)
    BY <1>1 DEF Init
  <2> QED BY <2>1, <2>2, <2>3, SyncAssumption
<1>7. Sold = 0
  <2>1. {r \in Requests : charged[r] > 0} = {}
    BY <1>1 DEF Init
  <2>2. SaleLemmas!Pieces({}, Product) = 0
    BY SaleLemmas!PiecesNone, SaleAssumptions
  <2> QED BY <2>1, <2>2, SalePieces DEF Sold
<1>8. TableBook
  BY <1>1, <1>5, <1>6 DEF TableBook, Holders, New
<1>9. NoPieceTwice
  <2>1. Left \in {InitialStock, 0}
    BY <1>6 DEF Left
  <2>2. out \cup InState({"placed"}) = {}
    BY <1>5 DEF Placed
  <2> QED BY <1>5, <1>6, <1>7, <2>1, <2>2 DEF NoPieceTwice
<1>10. HashBook
  BY <1>5, <1>6 DEF HashBook
<1> QED BY <1>1, <1>3, <1>4, <1>8, <1>9, <1>10 DEF SharedInv, Books, Causes

LEMMA SharedStep == SharedInv /\ [SharedNext]_sharedVars => SharedInv'
<1> SUFFICES ASSUME SharedInv, [SharedNext]_sharedVars PROVE SharedInv'
  OBVIOUS
<1>1. ASSUME NEW o \in Orders, OrderStep(o) PROVE SharedInv'
  BY <1>1, IdleSteps, TakeStockStep, HoldingSteps, ReturnStockStep, RevertSteps, SagaPreLocks
     DEF OrderStep
<1>2. CASE SaleStep /\ UNCHANGED <<order, key, at>>
  BY <1>2, SharedSaleStep
<1>3. CASE UNCHANGED sharedVars
  <2>1. /\ UNCHANGED redisVars /\ UNCHANGED <<stock, row, call, sync, tasks, warm, budget>>
        /\ UNCHANGED <<order, key, at, out, written, causes>>
    BY <1>3 DEF sharedVars, vars, orderVars
  <2>2. SaleTypes' /\ stock' \in Nat \cup {NoProduct}
    BY <2>1, SaleTypesAre DEF SharedInv, SaleInv, SaleTypes, redisVars
  <2>3. SaleInv'
    <3>1. /\ kept => \A c \in Calls : call'[c].pc \notin {"load", "write", "retry"}
          /\ kept => warm'.pc # "write"
          /\ \A c \in Calls : sync'[c].pc \in {"update", "cas"} =>
               /\ sync'[c].syncUsed < sync'[c].used
               /\ sync'[c].pc = "update" /\ kept => sync'[c].used <= hash.used
      BY <2>1 DEF SharedInv, SaleInv, Unlapsed, WritersInv
    <3> QED BY <2>1, <2>2, <3>1, QuietTypes DEF SharedInv
  <2>4. /\ OrderInv' /\ NoPieceTwice' /\ HashBook' /\ Holders' = Holders /\ New' = New
    BY <2>1, <2>3, StillBooks DEF redisVars
  <2>5. TableBook'
    BY <2>1, <2>4, TableStays DEF SharedInv, Books
  <2> QED BY <2>1, <2>3, <2>4, <2>5 DEF SharedInv, Books
<1> QED BY <1>1, <1>2, <1>3 DEF SharedNext

\* The inductive invariant of the shared stock: the types and the three books.
THEOREM SharedInvariant == SharedSpec => []SharedInv
BY SharedStart, SharedStep, PTL DEF SharedSpec

LEMMA SharedTypes == SharedInv => SharedTypeOK
BY DEF SharedInv, SaleInv, OrderInv, OrderTypeOK, Books, SharedTypeOK

\* No piece is sold twice, by a direct sale and through a saga, unless a load
\* of an old stock, a revert without a pre-lock, or a pre-lock or load that
\* overlooks sold pieces has told the hash more than there is.
THEOREM NothingSoldTwice == SharedSpec => []NoPieceTwice
<1>1. SharedInv => NoPieceTwice
  BY DEF SharedInv, Books
<1> QED BY <1>1, SharedInvariant, PTL

\* While the hash is kept and nothing has misled it, it and the table tell the
\* same stock, and a write-back is refused only for what sagas hold in the
\* table alone or for sales that were written back already.
THEOREM HashAndTableAgreed == SharedSpec => []HashAndTableAgree
<1>1. SharedInv => HashAndTableAgree
  <2> SUFFICES ASSUME SharedInv, kept, causes = {}
               PROVE  /\ hash.available + hash.used - written + Ordered(out)
                           = stock + Ordered(InState(Holding))
                      /\ \A c \in Calls :
                           sync[c].pc = "update" /\ stock < sync[c].used - sync[c].syncUsed =>
                             \/ InState(Holding) \ out # {}
                             \/ written > sync[c].syncUsed
    BY DEF HashAndTableAgree, HashTellsTable, RefusalHasCause
  <2>1. /\ hash.available \in Nat /\ hash.used \in Nat /\ stock \in Nat /\ written \in Nat
        /\ InitialStock \in Nat /\ out \in SUBSET Orders /\ Holders \in SUBSET Orders
        /\ stock # NoProduct
    BY SharedFacts DEF SharedInv, OrderInv, SaleInv, Unlapsed, Books
  <2>2. Ordered(out) \in Nat /\ Ordered(Holders) \in Nat
    BY <2>1, OrderedPieces
  <2>3. /\ hash.available + hash.used + Ordered(out) = InitialStock
        /\ stock + written + Ordered(Holders) = InitialStock
    BY <2>1 DEF SharedInv, Books, HashBook, TableBook, Holders
  <2>4. hash.available + hash.used - written + Ordered(out) = stock + Ordered(Holders)
    BY <2>1, <2>2, <2>3
  <2>5. ASSUME NEW c \in Calls, sync[c].pc = "update",
               stock < sync[c].used - sync[c].syncUsed,
               Holders \ out = {}, ~(written > sync[c].syncUsed)
        PROVE  FALSE
    <3>1. /\ sync[c].used \in Nat /\ sync[c].syncUsed \in Nat
          /\ sync[c].used <= hash.used
      BY <2>5 DEF SharedInv, SaleInv, SyncTypeOK, WritersInv
    <3>2. Ordered(Holders) <= Ordered(out)
      BY <2>1, <2>5, OrderedMonotone
    <3> QED BY <2>1, <2>2, <2>4, <2>5, <3>1, <3>2
  <2> QED BY <2>4, <2>5 DEF Holders
<1> QED BY <1>1, SharedInvariant, PTL

\* Whoever shares the stock hashes, the scripts of three sagas or sagas and
\* direct sales: everything keeps its type, so that neither what a hash offers
\* nor the stock of the table is ever negative.
THEOREM StockTypeCorrect == StockSpec => []StockTypeOK
<1>1. StockInit => LedgerInit /\ SharedInit
  BY DEF StockInit
<1>2. [ScriptsOnly \/ Shared]_AllVars => [LedgerNext]_ledgerVars /\ [SharedNext]_sharedVars
  BY DEF ScriptsOnly, Shared, AllVars
<1>3. StockSpec => LedgerSpec /\ SharedSpec
  BY <1>1, <1>2, PTL DEF StockSpec, LedgerSpec, SharedSpec
<1>4. LedgerTypeOK /\ SharedInv => StockTypeOK
  BY SharedTypes DEF StockTypeOK
<1> QED BY <1>3, <1>4, LedgerTypeCorrect, SharedInvariant, PTL
=============================================================================
