-------------------------- MODULE OrderSagaProofs --------------------------
(***************************************************************************)
(* The order saga for any number of sagas, products, quantities, handler   *)
(* goroutines and faults.                                                  *)
(*                                                                         *)
(* SagaInv is the inductive invariant.  It relates what DTM has called and *)
(* heard, the barrier rows, the order rows and the handlers at work: a row *)
(* exists only for an operation that was called, an answer only where a    *)
(* row exists, and the compensations follow the reverse order of their     *)
(* actions.  From it follow atomicity, and that every step of the saga is  *)
(* a step of Reservation and a step of the ledger (or leaves them alone).  *)
(***************************************************************************)
EXTENDS OrderSaga, PreLockProofs

\* What DTM has called and heard.  The second branch is called after the
\* first one committed, and undone before it.
SentInv(g) ==
    /\ acked[g] \subseteq sent[g]
    /\ "create" \in sent[g] => "decr" \in sent[g] /\ barrier[g]["decr"] = "done"
    /\ "createRevert" \in sent[g] =>
          "create" \in sent[g] /\ saga[g] \in {"aborting", "failed"}
    /\ "decrRevert" \in sent[g] =>
          /\ "decr" \in sent[g]
          /\ saga[g] \in {"aborting", "failed"}
          /\ "create" \in sent[g] => "createRevert" \in acked[g]
    /\ saga[g] = "succeed" => {"decr", "create"} \subseteq acked[g]
    /\ saga[g] = "failed" /\ "decr" \in sent[g] => "decrRevert" \in acked[g]

\* The barrier rows of an action and its compensation.
RowPair(g, act, comp) ==
    /\ barrier[g][act] # "absent" =>
          act \in sent[g] /\ (barrier[g][act] = "void" => comp \in sent[g])
    /\ barrier[g][comp] # "absent" => comp \in sent[g]
    /\ barrier[g][comp] = "done" => barrier[g][act] = "done"
    /\ barrier[g][comp] = "void" <=> barrier[g][act] = "void"

BarrierInv(g) ==
    /\ RowPair(g, "decr", "decrRevert")
    /\ RowPair(g, "create", "createRevert")
    /\ \A op \in acked[g] : barrier[g][op] # "absent"

\* The order row comes and goes with the barrier rows of its branch.
OrderInv(g) ==
    /\ orders[g] = IF barrier[g]["create"] = "done" THEN 1 ELSE 0
    /\ live[g] <=> /\ barrier[g]["create"] = "done"
                   /\ barrier[g]["createRevert"] = "absent"

\* A handler at work was called, handles items of its order only, and while
\* it is in a transaction no other one moves the barrier rows it looked at.
WorkerInv(x) ==
    x.pc # "idle" =>
        /\ "create" \in sent[x.gid]
        /\ x.todo \subseteq Items(x.gid)
        /\ x.locked \subseteq Items(x.gid)
        /\ x.pc \in {"prelock", "unlock"} => FirstRun(x.gid, "create")
        /\ x.pc = "publish" => ~FirstRun(x.gid, "create")
        /\ x.pc = "revert" => /\ "createRevert" \in sent[x.gid]
                              /\ Undoes(x.gid, "create", "createRevert")

Exclusive ==
    \A v, w \in Workers :
        worker[v].pc \in InTx /\ worker[w].pc \in InTx
            /\ worker[v].gid = worker[w].gid => v = w

SagaInv ==
    /\ SagaTypeOK
    /\ \A g \in Gids : SentInv(g) /\ BarrierInv(g) /\ OrderInv(g)
    /\ \A w \in Workers : WorkerInv(worker[w])
    /\ Exclusive

-----------------------------------------------------------------------------
(* The invariant is inductive.                                             *)

LEMMA SagaInitInv == Init => SagaInv
<1> SUFFICES ASSUME Init PROVE SagaInv
  OBVIOUS
<1> USE DEF Init
<1>1. SagaTypeOK
  BY QuantityAssumption, SagaAssumption
     DEF SagaTypeOK, BarrierRows, NoRow, WorkerStates, Idle, InTx
<1>2. ASSUME NEW g \in Gids PROVE SentInv(g) /\ BarrierInv(g) /\ OrderInv(g)
  BY DEF SentInv, BarrierInv, RowPair, OrderInv, Ops
<1>3. \A w \in Workers : worker[w].pc = "idle"
  BY DEF Idle
<1>4. Exclusive
  BY <1>3 DEF Exclusive, InTx
<1> QED BY <1>1, <1>2, <1>3, <1>4 DEF SagaInv, WorkerInv

\* DTM moves on.
LEMMA CoordinatorStep ==
  ASSUME SagaInv, NEW g \in Gids, Coordinator(g)
  PROVE  SagaInv'
<1>0. UNCHANGED <<acked, barrier, stock, orders, live, row, onSale, changes, published, worker, faults>>
  BY DEF Coordinator, Submit, Call, Timeout, Finish, dbVars
<1>1. CASE Submit(g) \/ Timeout(g) \/ Finish(g)
  <2>0. /\ sent' = sent
        /\ \E s \in {"submitted", "aborting", "succeed", "failed"} :
              saga' = [saga EXCEPT ![g] = s]
    BY <1>1 DEF Submit, Timeout, Finish
  <2>1. SagaTypeOK'
    BY <1>0, <2>0 DEF SagaInv, SagaTypeOK
  <2>2. ASSUME NEW h \in Gids PROVE SentInv(h)'
    BY <1>0, <1>1, <2>0
       DEF Submit, Timeout, Finish, SagaInv, SentInv, SagaTypeOK
  <2>3. ASSUME NEW h \in Gids PROVE BarrierInv(h)' /\ OrderInv(h)'
    BY <1>0, <2>0 DEF SagaInv, BarrierInv, RowPair, OrderInv
  <2>4. ASSUME NEW w \in Workers PROVE WorkerInv(worker[w])'
    BY <1>0, <2>0 DEF SagaInv, WorkerInv, FirstRun, Undoes
  <2>5. Exclusive'
    BY <1>0 DEF SagaInv, Exclusive
  <2> QED BY <2>1, <2>2, <2>3, <2>4, <2>5 DEF SagaInv
<1>2. ASSUME NEW op \in Ops, Call(g, op) PROVE SagaInv'
  <2>0. saga' = saga /\ sent' = [sent EXCEPT ![g] = @ \cup {op}]
    BY <1>2 DEF Call
  <2>1. SagaTypeOK'
    BY <1>0, <2>0 DEF SagaInv, SagaTypeOK
  <2>a. \A h \in Gids : sent[h] \subseteq sent'[h]
    BY <2>0 DEF SagaInv, SagaTypeOK
  <2>2. ASSUME NEW h \in Gids PROVE SentInv(h)'
    BY <1>0, <1>2, <2>0
       DEF Call, Due, SagaInv, SentInv, BarrierInv, RowPair, SagaTypeOK, BarrierRows, Ops
  <2>3. ASSUME NEW h \in Gids PROVE BarrierInv(h)' /\ OrderInv(h)'
    BY <1>0, <2>a DEF SagaInv, BarrierInv, RowPair, OrderInv
  <2>4. ASSUME NEW w \in Workers PROVE WorkerInv(worker[w])'
    BY <1>0, <2>a DEF SagaInv, SagaTypeOK, WorkerInv, FirstRun, Undoes
  <2>5. Exclusive'
    BY <1>0 DEF SagaInv, Exclusive
  <2> QED BY <2>1, <2>2, <2>3, <2>4, <2>5 DEF SagaInv
<1> QED BY <1>1, <1>2 DEF Coordinator

\* Writing one barrier row.
LEMMA OneRow ==
  ASSUME NEW b \in [Gids -> [Ops -> BarrierRows]], NEW g \in Gids, NEW op \in Ops,
         NEW v \in BarrierRows, NEW c, c = [b EXCEPT ![g][op] = v]
  PROVE  /\ c \in [Gids -> [Ops -> BarrierRows]]
         /\ \A h \in Gids, o \in Ops :
               c[h][o] = IF h = g /\ o = op THEN v ELSE b[h][o]
OBVIOUS

\* Ruling an action out writes two of them.
LEMMA TwoRows ==
  ASSUME NEW b \in [Gids -> [Ops -> BarrierRows]], NEW g \in Gids,
         NEW act \in Ops, NEW comp \in Ops, NEW c,
         c = [b EXCEPT ![g][act] = "void", ![g][comp] = "void"]
  PROVE  /\ c \in [Gids -> [Ops -> BarrierRows]]
         /\ \A h \in Gids, o \in Ops :
               c[h][o] = IF h = g /\ o \in {act, comp} THEN "void" ELSE b[h][o]
<1> DEFINE m == [b EXCEPT ![g][act] = "void"]
<1>0. "void" \in BarrierRows
  BY DEF BarrierRows
<1>1. /\ m \in [Gids -> [Ops -> BarrierRows]]
      /\ \A h \in Gids, o \in Ops :
            m[h][o] = IF h = g /\ o = act THEN "void" ELSE b[h][o]
  BY <1>0, OneRow
<1>2. c = [m EXCEPT ![g][comp] = "void"]
  OBVIOUS
<1> HIDE DEF m
<1>3. /\ c \in [Gids -> [Ops -> BarrierRows]]
      /\ \A h \in Gids, o \in Ops :
            c[h][o] = IF h = g /\ o = comp THEN "void" ELSE m[h][o]
  BY <1>0, <1>1, <1>2, OneRow
<1> QED BY <1>1, <1>3

\* An answer that is heard comes from an operation that has a row.
LEMMA AnswerInv ==
  ASSUME SagaInv, NEW g \in Gids, NEW op \in Ops, NEW d \in BOOLEAN,
         Answer(g, op, d), op \in sent[g], UNCHANGED <<saga, sent>>,
         barrier'[g][op] # "absent",
         \A h \in Gids : \A o \in Ops :
            barrier[h][o] # "absent" => barrier'[h][o] = barrier[h][o]
  PROVE  /\ acked' \in [Gids -> SUBSET Ops]
         /\ \A h \in Gids :
               SentInv(h)' /\ \A o \in acked'[h] : barrier'[h][o] # "absent"
<1>0. SagaTypeOK
  BY DEF SagaInv
<1>1. /\ acked' \in [Gids -> SUBSET Ops]
      /\ \A h \in Gids : /\ acked[h] \subseteq acked'[h]
                         /\ acked'[h] \subseteq acked[h] \cup (IF h = g THEN {op} ELSE {})
  <2>0. acked \in [Gids -> SUBSET Ops]
    BY <1>0 DEF SagaTypeOK
  <2>1. CASE d
    <3>1. acked' = [acked EXCEPT ![g] = acked[g] \cup {op}]
      BY <2>1 DEF Answer
    <3>2. acked[g] \cup {op} \in SUBSET Ops
      BY <2>0
    <3> QED BY <2>0, <3>1, <3>2
  <2>2. CASE ~d
    BY <2>0, <2>2 DEF Answer
  <2> QED BY <2>1, <2>2
<1>2. ASSUME NEW h \in Gids PROVE SentInv(h)'
  BY <1>0, <1>1 DEF SagaInv, SentInv, SagaTypeOK, Ops
<1>3. ASSUME NEW h \in Gids PROVE \A o \in acked'[h] : barrier'[h][o] # "absent"
  BY <1>0, <1>1 DEF SagaInv, BarrierInv, SagaTypeOK
<1> QED BY <1>1, <1>2, <1>3

LEMMA DecrStockStep ==
  ASSUME SagaInv, NEW g \in Gids, NEW d \in BOOLEAN, DecrStock(g, d)
  PROVE  SagaInv'
<1>0. SagaTypeOK /\ "decr" \in Ops
  BY DEF SagaInv, Ops
<1>a. UNCHANGED <<saga, sent, orders, live, row, onSale, changes, published, worker, faults>>
  BY DEF DecrStock
<1>b. /\ stock' \in [Products -> Nat]
      /\ barrier' = barrier \/ /\ barrier[g]["decr"] = "absent"
                               /\ barrier' = [barrier EXCEPT ![g]["decr"] = "done"]
  <2>1. ASSUME NEW p \in Products, Covered(g) PROVE stock[p] - Qty[g][p] \in Nat
    BY <1>0, <2>1, QtyType DEF Covered, SagaTypeOK
  <2>2. CASE /\ FirstRun(g, "decr")
             /\ Covered(g)
             /\ stock' = [p \in Products |-> stock[p] - Qty[g][p]]
             /\ barrier' = [barrier EXCEPT ![g]["decr"] = "done"]
    <3>1. \A p \in Products : stock[p] - Qty[g][p] \in Nat
      BY <2>1, <2>2
    <3>2. stock' \in [Products -> Nat]
      BY <2>2, <3>1
    <3> QED BY <2>2, <3>2 DEF FirstRun
  <2>3. CASE UNCHANGED <<stock, barrier>>
    BY <1>0, <2>3 DEF SagaTypeOK
  <2> QED BY <2>2, <2>3 DEF DecrStock
<1>c. /\ barrier' \in [Gids -> [Ops -> BarrierRows]]
      /\ \A h \in Gids, o \in Ops :
            barrier'[h][o] # barrier[h][o] =>
               h = g /\ o = "decr" /\ barrier[h][o] = "absent" /\ barrier'[h][o] = "done"
  <2>1. CASE barrier' = barrier
    BY <1>0, <2>1 DEF SagaTypeOK
  <2>2. CASE /\ barrier[g]["decr"] = "absent"
             /\ barrier' = [barrier EXCEPT ![g]["decr"] = "done"]
    BY <1>0, <2>2, OneRow DEF SagaTypeOK, BarrierRows
  <2> QED BY <1>b, <2>1, <2>2
<1>d. /\ barrier'[g]["decr"] # "absent"
      /\ \A h \in Gids : \A o \in Ops :
            barrier[h][o] # "absent" => barrier'[h][o] = barrier[h][o]
  BY <1>0, <1>b, <1>c DEF DecrStock, SagaTypeOK
<1>e. /\ acked' \in [Gids -> SUBSET Ops]
      /\ \A h \in Gids :
            SentInv(h)' /\ \A o \in acked'[h] : barrier'[h][o] # "absent"
  BY <1>0, <1>a, <1>d, AnswerInv DEF DecrStock
<1>1. SagaTypeOK'
  BY <1>0, <1>a, <1>b, <1>c, <1>e DEF SagaTypeOK
<1>2. ASSUME NEW h \in Gids PROVE BarrierInv(h)'
  BY <1>0, <1>a, <1>b, <1>e DEF DecrStock, SagaInv, BarrierInv, RowPair, SagaTypeOK, Ops
<1>3. \A h \in Gids : \A o \in {"create", "createRevert"} :
         barrier'[h][o] = barrier[h][o]
  BY <1>c DEF Ops
<1>4. ASSUME NEW h \in Gids PROVE OrderInv(h)'
  BY <1>a, <1>3 DEF SagaInv, OrderInv
<1>5. ASSUME NEW w \in Workers PROVE WorkerInv(worker[w])'
  BY <1>0, <1>a, <1>3 DEF SagaInv, SagaTypeOK, WorkerInv, FirstRun, Undoes
<1>6. Exclusive'
  BY <1>a DEF SagaInv, Exclusive
<1> QED BY <1>1, <1>e, <1>2, <1>4, <1>5, <1>6 DEF SagaInv

LEMMA DecrStockRevertStep ==
  ASSUME SagaInv, NEW g \in Gids, NEW d \in BOOLEAN, DecrStockRevert(g, d)
  PROVE  SagaInv'
<1>0. SagaTypeOK /\ "decrRevert" \in Ops /\ "decrRevert" \in sent[g]
  BY DEF SagaInv, Ops, DecrStockRevert
<1>a. UNCHANGED <<saga, sent, orders, live, row, onSale, changes, published, worker, faults>>
  BY DEF DecrStockRevert
<1>b. /\ stock' \in [Products -> Nat]
      /\ \/ barrier' = barrier
         \/ /\ barrier[g]["decrRevert"] = "absent" /\ barrier[g]["decr"] = "done"
            /\ barrier' = [barrier EXCEPT ![g]["decrRevert"] = "done"]
         \/ /\ barrier[g]["decrRevert"] = "absent" /\ barrier[g]["decr"] = "absent"
            /\ barrier' = [barrier EXCEPT ![g]["decr"] = "void",
                                          ![g]["decrRevert"] = "void"]
  <2>1. ASSUME NEW p \in Products PROVE stock[p] + Qty[g][p] \in Nat
    BY <1>0, QtyType DEF SagaTypeOK
  <2>0. stock \in [Products -> Nat]
    BY <1>0 DEF SagaTypeOK
  <2>2. CASE /\ Undoes(g, "decr", "decrRevert")
             /\ stock' = [p \in Products |-> stock[p] + Qty[g][p]]
             /\ barrier' = [barrier EXCEPT ![g]["decrRevert"] = "done"]
    BY <2>1, <2>2 DEF Undoes
  <2>3. CASE /\ UndoesNothing(g, "decr", "decrRevert")
             /\ RuleOut(g, "decr", "decrRevert")
             /\ stock' = stock
    BY <2>0, <2>3 DEF UndoesNothing, RuleOut
  <2>4. CASE stock' = stock /\ barrier' = barrier
    BY <2>0, <2>4
  <2> QED BY <2>2, <2>3, <2>4 DEF DecrStockRevert
<1>c. /\ barrier' \in [Gids -> [Ops -> BarrierRows]]
      /\ \A h \in Gids, o \in Ops :
            barrier'[h][o] # barrier[h][o] =>
               h = g /\ o \in {"decr", "decrRevert"} /\ barrier[h][o] = "absent"
  <2>1. CASE barrier' = barrier
    BY <1>0, <2>1 DEF SagaTypeOK
  <2>2. CASE /\ barrier[g]["decrRevert"] = "absent"
             /\ barrier' = [barrier EXCEPT ![g]["decrRevert"] = "done"]
    BY <1>0, <2>2, OneRow DEF SagaTypeOK, BarrierRows
  <2>3. CASE /\ barrier[g]["decrRevert"] = "absent" /\ barrier[g]["decr"] = "absent"
             /\ barrier' = [barrier EXCEPT ![g]["decr"] = "void",
                                           ![g]["decrRevert"] = "void"]
    <3>1. barrier \in [Gids -> [Ops -> BarrierRows]] /\ "decr" \in Ops
      BY <1>0 DEF SagaTypeOK, Ops
    <3>2. /\ barrier' \in [Gids -> [Ops -> BarrierRows]]
          /\ \A h \in Gids, o \in Ops :
                barrier'[h][o] = IF h = g /\ o \in {"decr", "decrRevert"}
                                   THEN "void" ELSE barrier[h][o]
      BY <1>0, <2>3, <3>1, TwoRows
    <3> QED BY <2>3, <3>2
  <2> QED BY <1>b, <2>1, <2>2, <2>3
<1>d. /\ barrier'[g]["decrRevert"] # "absent"
      /\ \A h \in Gids : \A o \in Ops :
            barrier[h][o] # "absent" => barrier'[h][o] = barrier[h][o]
  BY <1>0, <1>b, <1>c DEF DecrStockRevert, Undoes, UndoesNothing, RuleOut, SagaTypeOK, Ops
<1>e. /\ acked' \in [Gids -> SUBSET Ops]
      /\ \A h \in Gids :
            SentInv(h)' /\ \A o \in acked'[h] : barrier'[h][o] # "absent"
  BY <1>0, <1>a, <1>d, AnswerInv DEF DecrStockRevert
<1>1. SagaTypeOK'
  BY <1>0, <1>a, <1>b, <1>c, <1>e DEF SagaTypeOK
<1>3. \A h \in Gids : \A o \in {"create", "createRevert"} :
         barrier'[h][o] = barrier[h][o]
  BY <1>c DEF Ops
<1>f. /\ g \in Gids /\ {"decr", "decrRevert"} \subseteq Ops
      /\ "decr" \in sent[g] /\ sent' = sent
  BY <1>0, <1>a DEF SagaInv, SentInv, Ops
<1>2. ASSUME NEW h \in Gids PROVE BarrierInv(h)'
  <2>0. BarrierInv(h)
    BY DEF SagaInv
  <2>1. RowPair(h, "create", "createRevert")'
    BY <1>f, <1>3, <2>0 DEF BarrierInv, RowPair
  <2>2. RowPair(h, "decr", "decrRevert")'
    <3>1. CASE h # g
      BY <1>c, <1>f, <2>0, <3>1 DEF BarrierInv, RowPair
    <3>2. CASE h = g /\ barrier' = barrier
      BY <1>f, <2>0, <3>2 DEF BarrierInv, RowPair
    <3>3. CASE /\ h = g /\ barrier[g]["decr"] = "done"
               /\ barrier' = [barrier EXCEPT ![g]["decrRevert"] = "done"]
      <4>1. barrier'[g]["decr"] = "done" /\ barrier'[g]["decrRevert"] = "done"
        BY <1>0, <1>f, <3>3 DEF SagaTypeOK
      <4> QED BY <1>0, <1>f, <3>3, <4>1 DEF RowPair
    <3>4. CASE /\ h = g
               /\ barrier' = [barrier EXCEPT ![g]["decr"] = "void",
                                             ![g]["decrRevert"] = "void"]
      <4>1. barrier'[g]["decr"] = "void" /\ barrier'[g]["decrRevert"] = "void"
        BY <1>0, <1>f, <3>4 DEF SagaTypeOK
      <4> QED BY <1>0, <1>f, <3>4, <4>1 DEF RowPair
    <3> QED BY <1>b, <3>1, <3>2, <3>3, <3>4
  <2> QED BY <1>e, <2>1, <2>2 DEF BarrierInv
<1>4. ASSUME NEW h \in Gids PROVE OrderInv(h)'
  BY <1>a, <1>3 DEF SagaInv, OrderInv
<1>5. ASSUME NEW w \in Workers PROVE WorkerInv(worker[w])'
  BY <1>0, <1>a, <1>3 DEF SagaInv, SagaTypeOK, WorkerInv, FirstRun, Undoes
<1>6. Exclusive'
  BY <1>a DEF SagaInv, Exclusive
<1> QED BY <1>1, <1>e, <1>2, <1>4, <1>5, <1>6 DEF SagaInv

\* Handler w moves and no other one.
Moves(w) ==
    /\ worker' \in [Workers -> WorkerStates]
    /\ \A v \in Workers \ {w} : worker'[v] = worker[v]

\* A handler that moves, working for g, may write absent rows of g, unless
\* another handler is in a transaction of g.
LEMMA WorkerMove ==
  ASSUME SagaInv, NEW w \in Workers, NEW g \in Gids, Moves(w),
         UNCHANGED sent,
         worker'[w].pc # "idle" => worker'[w].gid = g /\ WorkerInv(worker[w])',
         \A h \in Gids, o \in Ops : barrier'[h][o] # barrier[h][o] =>
            h = g /\ barrier[h][o] = "absent",
         \/ barrier' = barrier /\ worker'[w].pc \notin InTx
         \/ \A v \in Workers \ {w} : worker[v].pc \in InTx => worker[v].gid # g
  PROVE  /\ \A v \in Workers :
              /\ worker'[v].pc # "idle" => worker'[v].gid \in Gids
              /\ WorkerInv(worker[v])'
         /\ Exclusive'
<1>0. SagaTypeOK
  BY DEF SagaInv
<1>1. \A v \in Workers \ {w} : worker'[v] = worker[v]
  BY DEF Moves
<1>2. ASSUME NEW v \in Workers
      PROVE  worker'[v].pc # "idle" => worker'[v].gid \in Gids
  <2>1. CASE v = w
    BY <2>1
  <2>2. CASE v # w
    <3>1. worker'[v] = worker[v]
      BY <1>1, <2>2
    <3>2. worker[v].pc # "idle" => worker[v].gid \in Gids
      BY <1>0 DEF SagaTypeOK
    <3> QED BY <3>1, <3>2
  <2> QED BY <2>1, <2>2
<1>3. ASSUME NEW v \in Workers
      PROVE  WorkerInv(worker[v])'
  <2>1. CASE v = w
    BY <2>1 DEF WorkerInv
  <2>2. CASE v # w
    <3>1. worker'[v] = worker[v] /\ WorkerInv(worker[v])
      BY <1>1, <2>2 DEF SagaInv
    <3>2. ASSUME worker[v].pc # "idle"
          PROVE  /\ worker[v].gid \in Gids
                 /\ barrier[worker[v].gid]["create"] # "absent" =>
                       barrier'[worker[v].gid]["create"] # "absent"
                 /\ worker[v].pc \in InTx => \A o \in Ops :
                       barrier'[worker[v].gid][o] = barrier[worker[v].gid][o]
      BY <1>0, <2>2, <3>2 DEF SagaTypeOK, Ops
    <3> QED BY <3>1, <3>2 DEF WorkerInv, FirstRun, Undoes, InTx, Ops
  <2> QED BY <2>1, <2>2
<1>4. Exclusive'
  <2>1. worker'[w].pc \in InTx => worker'[w].gid = g
    BY DEF InTx
  <2> QED BY <1>1, <2>1 DEF SagaInv, Exclusive
<1> QED BY <1>2, <1>3, <1>4

\* As before, with no row written and nothing heard.
LEMMA WorkerOnly ==
  ASSUME SagaInv, NEW w \in Workers, NEW g \in Gids, Moves(w),
         UNCHANGED <<saga, sent, acked, barrier, stock, orders, live, onSale, changes>>,
         row' \in [Products -> Int],
         published' \in [Gids -> {"no", "lost", "yes"}],
         faults' \in 0 .. MaxFaults,
         worker'[w].pc # "idle" => worker'[w].gid = g /\ WorkerInv(worker[w])',
         \/ worker'[w].pc \notin InTx
         \/ \A v \in Workers \ {w} : worker[v].pc \in InTx => worker[v].gid # g
  PROVE  SagaInv'
<1>1. /\ \A v \in Workers :
           /\ worker'[v].pc # "idle" => worker'[v].gid \in Gids
           /\ WorkerInv(worker[v])'
      /\ Exclusive'
  BY WorkerMove
<1>2. SagaTypeOK'
  BY <1>1 DEF SagaInv, SagaTypeOK, Moves
<1>3. ASSUME NEW h \in Gids PROVE SentInv(h)' /\ BarrierInv(h)' /\ OrderInv(h)'
  BY DEF SagaInv, SentInv, BarrierInv, RowPair, OrderInv
<1> QED BY <1>1, <1>2, <1>3 DEF SagaInv

LEMMA IdleType ==
  /\ Idle \in WorkerStates /\ Idle.pc = "idle" /\ "idle" \notin InTx
BY DEF Idle, WorkerStates, InTx

LEMMA FaultType ==
  ASSUME SagaTypeOK, Fault
  PROVE  faults' \in 0 .. MaxFaults
BY SagaAssumption DEF SagaTypeOK, Fault

\* What the invariant says of a handler at work.
LEMMA WorkerAt ==
  ASSUME SagaInv, NEW w \in Workers, worker[w].pc # "idle"
  PROVE  /\ worker[w] \in WorkerStates /\ worker[w].gid \in Gids
         /\ worker[w].todo \subseteq Items(worker[w].gid)
         /\ worker[w].locked \subseteq Items(worker[w].gid)
         /\ Items(worker[w].gid) \subseteq Products
         /\ WorkerInv(worker[w])
BY DEF SagaInv, SagaTypeOK, WorkerInv, Items

\* A handler moves on in its call and writes nothing to the database.
LEMMA HandlerMoves ==
  ASSUME SagaInv, NEW w \in Workers, Moves(w), worker[w].pc # "idle",
         worker'[w].gid = worker[w].gid,
         worker'[w].pc \in InTx \cup {"undo", "publish"},
         worker'[w].todo \subseteq Items(worker[w].gid),
         worker'[w].locked \subseteq Items(worker[w].gid),
         UNCHANGED <<saga, sent, acked, barrier, stock, orders, live, row, onSale, changes, published>>,
         faults' \in 0 .. MaxFaults,
         worker'[w].pc \in {"prelock", "unlock"} => FirstRun(worker[w].gid, "create"),
         worker'[w].pc = "publish" => ~FirstRun(worker[w].gid, "create"),
         worker'[w].pc = "revert" => worker[w].pc = "revert",
         worker'[w].pc \notin InTx \/ worker[w].pc \in InTx \/ ~Locked(worker[w].gid)
  PROVE  SagaInv'
<1>1. PICK g \in Gids : g = worker[w].gid
  BY WorkerAt
<1>2. WorkerInv(worker[w])'
  BY WorkerAt DEF WorkerInv, FirstRun, Undoes
<1>3. \/ worker'[w].pc \notin InTx
      \/ \A v \in Workers \ {w} : worker[v].pc \in InTx => worker[v].gid # g
  BY <1>1 DEF SagaInv, Exclusive, Locked
<1>4. row' \in [Products -> Int] /\ published' \in [Gids -> {"no", "lost", "yes"}]
  BY DEF SagaInv, SagaTypeOK
<1> QED BY <1>1, <1>2, <1>3, <1>4, WorkerOnly

\* A handler ends without an answer that is heard.
LEMMA HandlerEnds ==
  ASSUME SagaInv, NEW w \in Workers, worker[w].pc # "idle",
         worker' = [worker EXCEPT ![w] = Idle],
         UNCHANGED <<saga, sent, acked, barrier, stock, orders, live, row, onSale, changes, published>>,
         faults' \in 0 .. MaxFaults
  PROVE  SagaInv'
<1>1. PICK g \in Gids : worker[w].gid = g
  BY WorkerAt
<1>2. row' \in [Products -> Int] /\ published' \in [Gids -> {"no", "lost", "yes"}]
  BY DEF SagaInv, SagaTypeOK
<1>3. Moves(w) /\ worker'[w].pc = "idle" /\ worker'[w].pc \notin InTx
  BY IdleType DEF Moves, SagaInv, SagaTypeOK
<1> QED BY <1>1, <1>2, <1>3, WorkerOnly

LEMMA CreateStartStep ==
  ASSUME SagaInv, NEW g \in Gids, NEW w \in Workers, CreateStart(w, g)
  PROVE  SagaInv'
<1>0. SagaTypeOK
  BY DEF SagaInv
<1>1. UNCHANGED <<saga, sent, acked, barrier, stock, orders, live, onSale, changes, published,
                 faults>>
  BY DEF CreateStart, sagaVars, dbVars
<1>2. /\ row' \in [Products -> Int]
      /\ published' \in [Gids -> {"no", "lost", "yes"}] /\ faults' \in 0 .. MaxFaults
  BY <1>0, <1>1 DEF CreateStart, SagaTypeOK, StockRead
<1>3. /\ Moves(w)
      /\ worker'[w].pc \in {"idle", "checked"}
      /\ worker'[w].pc = "checked" =>
            /\ worker'[w].gid = g
            /\ worker'[w].todo = {} /\ worker'[w].locked = {}
  <2>1. [Idle EXCEPT !.pc = "checked", !.gid = g]
          = [pc |-> "checked", gid |-> g, todo |-> {}, locked |-> {}]
    <3> DEFINE i == [Idle EXCEPT !.pc = "checked"]
    <3>1. i = [pc |-> "checked", gid |-> NoGid, todo |-> {}, locked |-> {}]
      BY DEF Idle
    <3> HIDE DEF i
    <3>2. [i EXCEPT !.gid = g]
            = [pc |-> "checked", gid |-> g, todo |-> {}, locked |-> {}]
      BY <3>1
    <3> QED BY <3>2 DEF i
  <2> DEFINE c == [pc |-> "checked", gid |-> g, todo |-> {}, locked |-> {}]
  <2>2. \/ worker' = worker /\ worker'[w].pc = "idle"
        \/ worker' = [worker EXCEPT ![w] = c]
    BY <2>1 DEF CreateStart
  <2>3. c \in WorkerStates
    BY DEF WorkerStates
  <2>4. CASE worker' = worker /\ worker'[w].pc = "idle"
    BY <1>0, <2>4 DEF Moves, SagaTypeOK
  <2>5. CASE worker' = [worker EXCEPT ![w] = c]
    <3>1. Moves(w) /\ worker'[w] = c
      BY <1>0, <2>3, <2>5 DEF Moves, SagaTypeOK
    <3> QED BY <3>1
  <2> QED BY <2>2, <2>4, <2>5
<1>4. worker'[w].pc # "idle" => worker'[w].gid = g /\ WorkerInv(worker[w])'
  BY <1>1, <1>3 DEF WorkerInv, CreateStart
<1>5. worker'[w].pc \notin InTx
  BY <1>3 DEF InTx
<1> QED BY <1>1, <1>2, <1>3, <1>4, <1>5, WorkerOnly

LEMMA CreateBeginStep ==
  ASSUME SagaInv, NEW w \in Workers, CreateBegin(w)
  PROVE  SagaInv'
<1>1. /\ worker[w].pc = "checked" /\ ~Locked(worker[w].gid)
      /\ UNCHANGED <<saga, sent, acked, barrier, stock, orders, live, row, onSale, changes, published>>
      /\ faults' \in 0 .. MaxFaults
  BY DEF CreateBegin, sagaVars, dbVars, SagaInv, SagaTypeOK
<1>2. /\ worker[w] \in WorkerStates
      /\ worker[w].todo \subseteq Items(worker[w].gid)
      /\ worker[w].locked \subseteq Items(worker[w].gid)
      /\ Items(worker[w].gid) \subseteq Products
  BY <1>1, WorkerAt
<1>3. /\ Moves(w) /\ worker'[w].gid = worker[w].gid
      /\ worker'[w].todo \subseteq Items(worker[w].gid)
      /\ worker'[w].locked \subseteq Items(worker[w].gid)
      /\ worker'[w].pc = IF FirstRun(worker[w].gid, "create") THEN "prelock" ELSE "publish"
  <2>1. CASE FirstRun(worker[w].gid, "create")
    BY <1>2, <2>1 DEF CreateBegin, Moves, SagaInv, SagaTypeOK, WorkerStates, InTx
  <2>2. CASE ~FirstRun(worker[w].gid, "create")
    BY <1>2, <2>2 DEF CreateBegin, Moves, SagaInv, SagaTypeOK, WorkerStates, InTx
  <2> QED BY <2>1, <2>2
<1> QED BY <1>1, <1>3, HandlerMoves DEF InTx

LEMMA CreatePreLockStep ==
  ASSUME SagaInv, NEW w \in Workers, CreatePreLock(w)
  PROVE  SagaInv'
<1>1. /\ worker[w].pc = "prelock"
      /\ UNCHANGED <<saga, sent, acked, barrier, stock, orders, live, row, onSale, changes, published>>
      /\ faults' \in 0 .. MaxFaults
  BY FaultType DEF CreatePreLock, sagaVars, dbVars, SagaInv, SagaTypeOK
<1>2. /\ worker[w] \in WorkerStates
      /\ worker[w].todo \subseteq Items(worker[w].gid)
      /\ worker[w].locked \subseteq Items(worker[w].gid)
      /\ Items(worker[w].gid) \subseteq Products
      /\ FirstRun(worker[w].gid, "create")
  BY <1>1, WorkerAt DEF WorkerInv
<1>3. /\ Moves(w) /\ worker'[w].gid = worker[w].gid
      /\ worker'[w].todo \subseteq Items(worker[w].gid)
      /\ worker'[w].locked \subseteq Items(worker[w].gid)
      /\ worker'[w].pc \in {"prelock", "unlock"}
  <2>1. CASE \E p \in worker[w].todo :
               worker' = [worker EXCEPT ![w].todo = @ \ {p}, ![w].locked = @ \cup {p}]
    <3>1. PICK p \in worker[w].todo :
             worker' = [worker EXCEPT ![w].todo = @ \ {p}, ![w].locked = @ \cup {p}]
      BY <2>1
    <3> DEFINE m == [worker EXCEPT ![w].todo = @ \ {p}]
    <3>2. /\ m \in [Workers -> WorkerStates]
          /\ \A v \in Workers \ {w} : m[v] = worker[v]
          /\ m[w].todo = worker[w].todo \ {p} /\ m[w].locked = worker[w].locked
          /\ m[w].gid = worker[w].gid /\ m[w].pc = worker[w].pc
      BY <1>2 DEF SagaInv, SagaTypeOK, WorkerStates
    <3>3. worker' = [m EXCEPT ![w].locked = @ \cup {p}]
      BY <3>1
    <3> HIDE DEF m
    <3>4. p \in Products /\ p \in Items(worker[w].gid)
      BY <1>2
    <3> QED BY <1>1, <1>2, <3>2, <3>3, <3>4 DEF Moves, WorkerStates
  <2>2. CASE worker' = [worker EXCEPT ![w].pc = "unlock", ![w].todo = worker[w].locked]
    BY <1>1, <1>2, <2>2 DEF Moves, SagaInv, SagaTypeOK, WorkerStates, InTx
  <2> QED BY <2>1, <2>2 DEF CreatePreLock
<1> QED BY <1>1, <1>2, <1>3, HandlerMoves DEF InTx

\* A handler takes an item off its list, or goes to pc k with T to do.
LEMMA TakeOff ==
  ASSUME SagaInv, NEW w \in Workers, worker[w].pc # "idle",
         NEW p \in worker[w].todo, worker' = [worker EXCEPT ![w].todo = @ \ {p}]
  PROVE  /\ Moves(w) /\ worker'[w].gid = worker[w].gid /\ worker'[w].pc = worker[w].pc
         /\ worker'[w].todo \subseteq Items(worker[w].gid)
         /\ worker'[w].locked \subseteq Items(worker[w].gid)
BY WorkerAt DEF Moves, SagaInv, SagaTypeOK, WorkerStates

LEMMA GoTo ==
  ASSUME SagaInv, NEW w \in Workers, worker[w].pc # "idle",
         NEW k \in InTx \cup {"undo", "publish"},
         NEW T, T \subseteq Items(worker[w].gid),
         worker' = [worker EXCEPT ![w].pc = k, ![w].todo = T]
  PROVE  /\ Moves(w) /\ worker'[w].gid = worker[w].gid /\ worker'[w].pc = k
         /\ worker'[w].todo \subseteq Items(worker[w].gid)
         /\ worker'[w].locked \subseteq Items(worker[w].gid)
<1> DEFINE m == [worker EXCEPT ![w].pc = k]
<1>1. /\ m \in [Workers -> WorkerStates]
      /\ \A v \in Workers \ {w} : m[v] = worker[v]
      /\ m[w].todo = worker[w].todo /\ m[w].locked = worker[w].locked
      /\ m[w].gid = worker[w].gid /\ m[w].pc = k
  BY WorkerAt DEF SagaInv, SagaTypeOK, WorkerStates, InTx
<1>2. worker' = [m EXCEPT ![w].todo = T]
  OBVIOUS
<1>3. T \subseteq Products /\ worker[w].locked \subseteq Items(worker[w].gid)
  BY WorkerAt
<1> HIDE DEF m
<1>5. m[w] \in WorkerStates /\ T \in SUBSET Products
  BY <1>1, <1>3
<1> DEFINE e == [m[w] EXCEPT !.todo = T]
<1>a. e \in WorkerStates
  BY <1>5 DEF WorkerStates
<1>b. worker' = [m EXCEPT ![w] = e]
  BY <1>1, <1>2
<1>c. e.todo = T /\ e.locked = m[w].locked /\ e.gid = m[w].gid /\ e.pc = m[w].pc
  BY <1>5 DEF WorkerStates
<1> HIDE DEF e
<1>4. /\ worker' \in [Workers -> WorkerStates]
      /\ worker'[w] = e
      /\ \A v \in Workers \ {w} : worker'[v] = m[v]
  <2>0. m \in [Workers -> WorkerStates]
    BY <1>1
  <2>1. worker' \in [Workers -> WorkerStates]
    BY ONLY <2>0, <1>a, <1>b
  <2>2. worker'[w] = e
    BY ONLY <2>0, <1>b, w \in Workers
  <2>3. \A v \in Workers \ {w} : worker'[v] = m[v]
    BY ONLY <2>0, <1>b
  <2> QED BY <2>1, <2>2, <2>3
<1>6. /\ worker'[w].todo = T /\ worker'[w].locked = m[w].locked
      /\ worker'[w].gid = m[w].gid /\ worker'[w].pc = m[w].pc
  BY <1>4, <1>c
<1> QED BY <1>1, <1>3, <1>4, <1>6 DEF Moves

LEMMA UndoingStep ==
  ASSUME SagaInv, NEW w \in Workers, CreateUnlock(w) \/ CreateUndo(w)
  PROVE  SagaInv'
<1>1. /\ worker[w].pc \in {"unlock", "undo"} /\ worker[w].pc # "idle"
      /\ UNCHANGED <<saga, sent, acked, barrier, stock, orders, live, row, onSale, changes, published>>
  BY DEF CreateUnlock, CreateUndo, sagaVars, dbVars
<1>2. faults' \in 0 .. MaxFaults
  BY FaultType DEF CreateUnlock, CreateUndo, RevertIgnoringErrors, SagaInv, SagaTypeOK
<1>3. worker[w].pc = "unlock" => FirstRun(worker[w].gid, "create")
  BY <1>1, WorkerAt DEF WorkerInv
<1>4. ASSUME NEW p \in worker[w].todo, worker' = [worker EXCEPT ![w].todo = @ \ {p}]
      PROVE  SagaInv'
  <2>1. /\ Moves(w) /\ worker'[w].gid = worker[w].gid /\ worker'[w].pc = worker[w].pc
        /\ worker'[w].todo \subseteq Items(worker[w].gid)
        /\ worker'[w].locked \subseteq Items(worker[w].gid)
    BY <1>1, <1>4, TakeOff
  <2> QED BY <1>1, <1>2, <1>3, <2>1, HandlerMoves DEF InTx
<1>5. CASE worker' = [worker EXCEPT ![w].pc = "undo", ![w].todo = Items(worker[w].gid)]
  <2>1. /\ Moves(w) /\ worker'[w].gid = worker[w].gid /\ worker'[w].pc = "undo"
        /\ worker'[w].todo \subseteq Items(worker[w].gid)
        /\ worker'[w].locked \subseteq Items(worker[w].gid)
    BY <1>1, <1>5, GoTo
  <2> QED BY <1>1, <1>2, <2>1, HandlerMoves DEF InTx
<1>6. CASE worker' = [worker EXCEPT ![w] = Idle]
  BY <1>1, <1>2, <1>6, HandlerEnds
<1> QED BY <1>4, <1>5, <1>6 DEF CreateUnlock, CreateUndo

LEMMA RevertItemStep ==
  ASSUME SagaInv, NEW w \in Workers, RevertItem(w)
  PROVE  SagaInv'
<1>1. /\ worker[w].pc = "revert" /\ worker[w].pc # "idle"
      /\ UNCHANGED <<saga, sent, acked, barrier, stock, orders, live, row, onSale, changes, published>>
      /\ faults' \in 0 .. MaxFaults
  BY FaultType DEF RevertItem, sagaVars, dbVars, SagaInv, SagaTypeOK
<1>2. ASSUME NEW p \in worker[w].todo, worker' = [worker EXCEPT ![w].todo = @ \ {p}]
      PROVE  SagaInv'
  <2>1. /\ Moves(w) /\ worker'[w].gid = worker[w].gid /\ worker'[w].pc = worker[w].pc
        /\ worker'[w].todo \subseteq Items(worker[w].gid)
        /\ worker'[w].locked \subseteq Items(worker[w].gid)
    BY <1>1, <1>2, TakeOff
  <2> QED BY <1>1, <2>1, HandlerMoves DEF InTx
<1>3. CASE worker' = [worker EXCEPT ![w] = Idle]
  BY <1>1, <1>3, HandlerEnds
<1> QED BY <1>2, <1>3 DEF RevertItem

LEMMA CrashStep ==
  ASSUME SagaInv, NEW w \in Workers, Crash(w)
  PROVE  SagaInv'
<1>1. faults' \in 0 .. MaxFaults
  BY FaultType DEF Crash, SagaInv
<1> QED BY <1>1, HandlerEnds DEF Crash, sagaVars, dbVars

\* The order row and the barrier row are committed together.
LEMMA CommitStep ==
  ASSUME SagaInv, NEW w \in Workers, worker[w].pc = "prelock", Moves(w),
         WriteOrder(worker[w].gid),
         worker'[w].gid = worker[w].gid,
         worker'[w].pc \in {"publish", "undo"},
         worker'[w].todo \subseteq Items(worker[w].gid),
         worker'[w].locked \subseteq Items(worker[w].gid),
         UNCHANGED <<saga, sent, acked, row, onSale, changes, published>>,
         faults' \in 0 .. MaxFaults
  PROVE  SagaInv'
<1>1. PICK g \in Gids : g = worker[w].gid
  BY WorkerAt
<1>0. SagaTypeOK /\ "create" \in Ops /\ "done" \in BarrierRows
  BY DEF SagaInv, Ops, BarrierRows
<1>2. /\ barrier[g]["create"] = "absent" /\ "create" \in sent[g]
  BY <1>1, WorkerAt DEF WorkerInv, FirstRun
<1>3. /\ stock' = stock
      /\ barrier' = [barrier EXCEPT ![g]["create"] = "done"]
      /\ orders' = [orders EXCEPT ![g] = @ + 1]
      /\ live' = [live EXCEPT ![g] = TRUE]
  BY <1>1 DEF WriteOrder
<1>4. /\ barrier' \in [Gids -> [Ops -> BarrierRows]]
      /\ \A h \in Gids, o \in Ops :
            barrier'[h][o] = IF h = g /\ o = "create" THEN "done" ELSE barrier[h][o]
  BY <1>0, <1>3, OneRow DEF SagaTypeOK
<1>5. ASSUME NEW h \in Gids PROVE SentInv(h)' /\ BarrierInv(h)'
  <2>0. SentInv(h) /\ BarrierInv(h) /\ acked[h] \subseteq Ops
    BY <1>0 DEF SagaInv, SagaTypeOK
  <2>a. \A o \in Ops : o # "create" => barrier'[h][o] = barrier[h][o]
    BY <1>4
  <2>b. barrier'[h]["create"] = IF h = g THEN "done" ELSE barrier[h]["create"]
    BY <1>0, <1>4
  <2>c. {"decr", "decrRevert", "createRevert"} \subseteq Ops
    BY DEF Ops
  <2>1. SentInv(h)'
    BY <2>0, <2>a, <2>c DEF SentInv
  <2>2. RowPair(h, "decr", "decrRevert")'
    BY <2>0, <2>a, <2>c DEF BarrierInv, RowPair
  <2>3. RowPair(h, "create", "createRevert")'
    <3>1. CASE h = g
      BY <1>2, <2>0, <2>a, <2>b, <2>c, <3>1 DEF BarrierInv, RowPair
    <3>2. CASE h # g
      BY <2>0, <2>a, <2>b, <2>c, <3>2 DEF BarrierInv, RowPair
    <3> QED BY <3>1, <3>2
  <2>4. \A o \in acked[h] : barrier'[h][o] # "absent"
    BY <2>0, <2>a, <2>b DEF BarrierInv
  <2> QED BY <2>1, <2>2, <2>3, <2>4 DEF BarrierInv
<1>6. ASSUME NEW h \in Gids PROVE OrderInv(h)'
  <2>1. barrier[h]["createRevert"] # "absent" => barrier[h]["create"] # "absent"
    BY <1>0 DEF SagaInv, BarrierInv, RowPair, SagaTypeOK, BarrierRows, Ops
  <2> QED BY <1>0, <1>2, <1>3, <1>4, <2>1 DEF SagaInv, OrderInv, SagaTypeOK, Ops
<1>7. /\ worker'[w].pc # "idle"
      /\ worker'[w].gid = g /\ WorkerInv(worker[w])'
  BY <1>0, <1>1, <1>2, <1>4 DEF WorkerInv, FirstRun
<1>8. \A v \in Workers \ {w} : worker[v].pc \in InTx => worker[v].gid # g
  BY <1>1 DEF SagaInv, Exclusive, InTx
<1>9. /\ \A v \in Workers :
           /\ worker'[v].pc # "idle" => worker'[v].gid \in Gids
           /\ WorkerInv(worker[v])'
      /\ Exclusive'
  BY <1>2, <1>4, <1>7, <1>8, WorkerMove
<1>10. SagaTypeOK'
  BY <1>0, <1>3, <1>4, <1>9 DEF SagaTypeOK, Moves
<1> QED BY <1>5, <1>6, <1>9, <1>10 DEF SagaInv

LEMMA CreateCommitStep ==
  ASSUME SagaInv, NEW w \in Workers, CreateCommit(w)
  PROVE  SagaInv'
<1>1. /\ worker[w].pc = "prelock" /\ worker[w].pc # "idle"
      /\ UNCHANGED <<saga, sent, acked, row, onSale, changes, published>>
      /\ faults' \in 0 .. MaxFaults
  BY FaultType DEF CreateCommit, sagaVars, SagaInv, SagaTypeOK
<1>2. /\ FirstRun(worker[w].gid, "create")
      /\ worker[w].locked \subseteq Items(worker[w].gid)
      /\ worker[w].todo \subseteq Items(worker[w].gid)
  BY <1>1, WorkerAt DEF WorkerInv
<1>3. CASE /\ WriteOrder(worker[w].gid)
           /\ worker' = [worker EXCEPT ![w].pc = "publish"]
  <2>1. /\ Moves(w) /\ worker'[w].gid = worker[w].gid
        /\ worker'[w].pc = "publish"
        /\ worker'[w].todo = worker[w].todo /\ worker'[w].locked = worker[w].locked
    BY <1>1, <1>3 DEF Moves, SagaInv, SagaTypeOK, WorkerStates, InTx
  <2> QED BY <1>1, <1>2, <1>3, <2>1, CommitStep
<1>4. CASE /\ UNCHANGED dbVars
           /\ worker' = [worker EXCEPT ![w].pc = "unlock", ![w].todo = worker[w].locked]
  <2>1. /\ Moves(w) /\ worker'[w].gid = worker[w].gid /\ worker'[w].pc = "unlock"
        /\ worker'[w].todo \subseteq Items(worker[w].gid)
        /\ worker'[w].locked \subseteq Items(worker[w].gid)
    BY <1>1, <1>2, <1>4, GoTo DEF InTx
  <2> QED BY <1>1, <1>2, <1>4, <2>1, HandlerMoves DEF InTx, dbVars
<1>5. CASE /\ WriteOrder(worker[w].gid) \/ UNCHANGED dbVars
           /\ worker' = [worker EXCEPT ![w].pc = "undo", ![w].todo = Items(worker[w].gid)]
  <2>1. /\ Moves(w) /\ worker'[w].gid = worker[w].gid /\ worker'[w].pc = "undo"
        /\ worker'[w].todo \subseteq Items(worker[w].gid)
        /\ worker'[w].locked \subseteq Items(worker[w].gid)
    BY <1>1, <1>5, GoTo
  <2>2. CASE WriteOrder(worker[w].gid)
    BY <1>1, <2>1, <2>2, CommitStep
  <2>3. CASE UNCHANGED dbVars
    BY <1>1, <2>1, <2>3, HandlerMoves DEF InTx, dbVars
  <2> QED BY <1>5, <2>2, <2>3
<1> QED BY <1>3, <1>4, <1>5 DEF CreateCommit

LEMMA CreatePublishStep ==
  ASSUME SagaInv, NEW w \in Workers, NEW d \in BOOLEAN, CreatePublish(w, d)
  PROVE  SagaInv'
<1>1. PICK g \in Gids : /\ g = worker[w].gid /\ "create" \in sent[g]
                        /\ barrier[g]["create"] # "absent"
  BY WorkerAt DEF CreatePublish, WorkerInv, FirstRun
<1>0. SagaTypeOK /\ "create" \in Ops
  BY DEF SagaInv, Ops
<1>2. UNCHANGED <<saga, sent, barrier, stock, orders, live, row, onSale, changes>>
  BY DEF CreatePublish, dbVars
<1>3. /\ published' \in [Gids -> {"no", "lost", "yes"}]
      /\ faults' \in 0 .. MaxFaults
  BY <1>0, <1>1, FaultType DEF CreatePublish, SagaTypeOK
<1>4. /\ acked' \in [Gids -> SUBSET Ops]
      /\ \A h \in Gids :
            SentInv(h)' /\ \A o \in acked'[h] : barrier'[h][o] # "absent"
  BY <1>0, <1>1, <1>2, AnswerInv DEF CreatePublish
<1>5. Moves(w) /\ worker'[w].pc = "idle" /\ worker'[w].pc \notin InTx
  BY <1>0, IdleType DEF CreatePublish, Moves, SagaTypeOK
<1>6. /\ \A v \in Workers :
           /\ worker'[v].pc # "idle" => worker'[v].gid \in Gids
           /\ WorkerInv(worker[v])'
      /\ Exclusive'
  BY <1>1, <1>2, <1>5, WorkerMove
<1>7. SagaTypeOK'
  BY <1>0, <1>2, <1>3, <1>4, <1>5, <1>6 DEF SagaTypeOK, Moves
<1>8. ASSUME NEW h \in Gids PROVE BarrierInv(h)' /\ OrderInv(h)'
  BY <1>2, <1>4 DEF SagaInv, BarrierInv, RowPair, OrderInv
<1> QED BY <1>4, <1>6, <1>7, <1>8 DEF SagaInv

LEMMA RevertBeginStep ==
  ASSUME SagaInv, NEW g \in Gids, NEW w \in Workers, NEW d \in BOOLEAN,
         RevertBegin(w, g, d)
  PROVE  SagaInv'
<1>0. /\ SagaTypeOK /\ "createRevert" \in Ops /\ "create" \in Ops
      /\ "createRevert" \in sent[g] /\ "create" \in sent[g]
  BY DEF SagaInv, SentInv, Ops, RevertBegin
<1>1. UNCHANGED <<saga, sent, stock, orders, live, row, onSale, changes, published, faults>>
  BY DEF RevertBegin
<1>2. \A v \in Workers : worker[v].pc \in InTx => worker[v].gid # g
  BY DEF RevertBegin, Locked
<1>3. CASE /\ Undoes(g, "create", "createRevert")
           /\ worker' = [worker EXCEPT ![w] = [Idle EXCEPT !.pc = "revert",
                                               !.gid = g, !.todo = Items(g)]]
           /\ UNCHANGED <<barrier, acked>>
  <2>1. [Idle EXCEPT !.pc = "revert", !.gid = g, !.todo = Items(g)]
          = [pc |-> "revert", gid |-> g, todo |-> Items(g), locked |-> {}]
    <3> DEFINE i == [Idle EXCEPT !.pc = "revert"]
               j == [i EXCEPT !.gid = g]
    <3>1. i = [pc |-> "revert", gid |-> NoGid, todo |-> {}, locked |-> {}]
      BY DEF Idle
    <3> HIDE DEF i
    <3>2. j = [pc |-> "revert", gid |-> g, todo |-> {}, locked |-> {}]
      BY <3>1
    <3> HIDE DEF j
    <3>3. [j EXCEPT !.todo = Items(g)]
            = [pc |-> "revert", gid |-> g, todo |-> Items(g), locked |-> {}]
      BY <3>2
    <3> QED BY <3>3 DEF i, j
  <2>2. [pc |-> "revert", gid |-> g, todo |-> Items(g), locked |-> {}] \in WorkerStates
    BY DEF WorkerStates, InTx, Items
  <2>3. /\ Moves(w) /\ worker'[w].pc = "revert" /\ worker'[w].gid = g
        /\ worker'[w].todo = Items(g) /\ worker'[w].locked = {}
    <3>1. worker' = [worker EXCEPT ![w] =
             [pc |-> "revert", gid |-> g, todo |-> Items(g), locked |-> {}]]
      BY <1>3, <2>1, Zenon
    <3> QED BY <1>0, <2>2, <3>1 DEF Moves, SagaTypeOK
  <2>4. WorkerInv(worker[w])'
    BY <1>0, <1>1, <1>3, <2>3 DEF WorkerInv, FirstRun, Undoes
  <2>5. /\ row' \in [Products -> Int] /\ faults' \in 0 .. MaxFaults
        /\ published' \in [Gids -> {"no", "lost", "yes"}]
    BY <1>0, <1>1 DEF SagaTypeOK
  <2> QED BY <1>1, <1>2, <1>3, <2>3, <2>4, <2>5, WorkerOnly
<1>4. CASE /\ worker' = worker
           /\ Answer(g, "createRevert", d)
           /\ \/ UndoesNothing(g, "create", "createRevert")
                 /\ RuleOut(g, "create", "createRevert")
              \/ barrier[g]["createRevert"] # "absent" /\ barrier' = barrier
  <2>1. /\ barrier' \in [Gids -> [Ops -> BarrierRows]]
        /\ \A h \in Gids, o \in Ops : barrier'[h][o] # barrier[h][o] =>
              /\ h = g /\ o \in {"create", "createRevert"}
              /\ barrier[h][o] = "absent" /\ barrier'[h][o] = "void"
              /\ barrier'[h]["create"] = "void" /\ barrier'[h]["createRevert"] = "void"
        /\ barrier'[g]["createRevert"] # "absent"
    <3>1. CASE barrier' = barrier /\ barrier[g]["createRevert"] # "absent"
      BY <1>0, <3>1 DEF SagaTypeOK
    <3>2. CASE /\ UndoesNothing(g, "create", "createRevert")
               /\ RuleOut(g, "create", "createRevert")
      <4>1. /\ barrier' \in [Gids -> [Ops -> BarrierRows]]
            /\ \A h \in Gids, o \in Ops :
                 barrier'[h][o] = IF h = g /\ o \in {"create", "createRevert"}
                                    THEN "void" ELSE barrier[h][o]
        <5>1. barrier' = [barrier EXCEPT ![g]["create"] = "void",
                                         ![g]["createRevert"] = "void"]
          BY <3>2 DEF RuleOut
        <5>2. barrier \in [Gids -> [Ops -> BarrierRows]]
          BY <1>0 DEF SagaTypeOK
        <5>3. "create" \in Ops /\ "createRevert" \in Ops
          BY <1>0
        <5> QED BY <5>1, <5>2, <5>3, TwoRows
      <4> QED BY <1>0, <3>2, <4>1 DEF UndoesNothing
    <3> QED BY <1>4, <3>1, <3>2
  <2>2. /\ acked' \in [Gids -> SUBSET Ops]
        /\ \A h \in Gids :
              SentInv(h)' /\ \A o \in acked'[h] : barrier'[h][o] # "absent"
    <3>1. \A h \in Gids : \A o \in Ops :
             barrier[h][o] # "absent" => barrier'[h][o] = barrier[h][o]
      BY <2>1
    <3> QED BY <1>0, <1>1, <1>4, <2>1, <3>1, AnswerInv
  <2>3. ASSUME NEW h \in Gids PROVE BarrierInv(h)'
    BY <1>0, <1>1, <2>1, <2>2 DEF SagaInv, BarrierInv, RowPair, SagaTypeOK, Ops
  <2>4. ASSUME NEW h \in Gids PROVE OrderInv(h)'
    BY <1>0, <1>1, <2>1 DEF SagaInv, OrderInv, BarrierInv, RowPair, SagaTypeOK, Ops
  <2>5. ASSUME NEW v \in Workers PROVE WorkerInv(worker[v])'
    <3>1. ASSUME worker[v].pc # "idle"
          PROVE  /\ worker[v].gid \in Gids
                 /\ barrier[worker[v].gid]["create"] # "absent" =>
                       barrier'[worker[v].gid]["create"] # "absent"
                 /\ worker[v].pc \in InTx => \A o \in Ops :
                       barrier'[worker[v].gid][o] = barrier[worker[v].gid][o]
      BY <1>0, <1>2, <2>1, <3>1 DEF SagaTypeOK, Ops
    <3> QED BY <1>1, <1>4, <3>1 DEF SagaInv, WorkerInv, FirstRun, Undoes, InTx, Ops
  <2>6. Exclusive'
    BY <1>4 DEF SagaInv, Exclusive
  <2>7. SagaTypeOK'
    BY <1>0, <1>1, <1>4, <2>1, <2>2 DEF SagaTypeOK
  <2> QED BY <2>2, <2>3, <2>4, <2>5, <2>6, <2>7 DEF SagaInv
<1> QED BY <1>3, <1>4 DEF RevertBegin

LEMMA RevertCommitStep ==
  ASSUME SagaInv, NEW w \in Workers, NEW d \in BOOLEAN, RevertCommit(w, d)
  PROVE  SagaInv'
<1>1. PICK g \in Gids : g = worker[w].gid
  BY WorkerAt DEF RevertCommit
<1>0. /\ SagaTypeOK /\ "createRevert" \in Ops /\ "create" \in Ops
      /\ "done" \in BarrierRows
      /\ worker[w].pc = "revert" /\ worker[w].pc # "idle"
  BY DEF SagaInv, Ops, BarrierRows, RevertCommit
<1>2. /\ barrier[g]["create"] = "done" /\ barrier[g]["createRevert"] = "absent"
      /\ "createRevert" \in sent[g]
  BY <1>0, <1>1, WorkerAt DEF WorkerInv, Undoes
<1>3. /\ UNCHANGED <<saga, sent, stock, orders, row, onSale, changes, published>>
      /\ worker' = [worker EXCEPT ![w] = Idle]
  BY DEF RevertCommit
<1>4. CASE Fault /\ UNCHANGED <<live, barrier, acked>>
  <2>1. faults' \in 0 .. MaxFaults
    BY <1>0, <1>4, FaultType
  <2> QED BY <1>0, <1>3, <1>4, <2>1, HandlerEnds
<1>5. CASE CancelOrder(g) /\ Answer(g, "createRevert", d) /\ UNCHANGED faults
  <2>1. /\ barrier' \in [Gids -> [Ops -> BarrierRows]]
        /\ \A h \in Gids, o \in Ops :
              barrier'[h][o] = IF h = g /\ o = "createRevert" THEN "done"
                                                             ELSE barrier[h][o]
    <3>1. barrier' = [barrier EXCEPT ![g]["createRevert"] = "done"]
      BY <1>5 DEF CancelOrder
    <3> QED BY <1>0, <3>1, OneRow DEF SagaTypeOK
  <2>2. /\ acked' \in [Gids -> SUBSET Ops]
        /\ \A h \in Gids :
              SentInv(h)' /\ \A o \in acked'[h] : barrier'[h][o] # "absent"
    <3>1. \A h \in Gids : \A o \in Ops :
             barrier[h][o] # "absent" => barrier'[h][o] = barrier[h][o]
      BY <1>2, <2>1
    <3>2. barrier'[g]["createRevert"] # "absent"
      BY <1>0, <2>1
    <3> QED BY <1>0, <1>2, <1>3, <1>5, <3>1, <3>2, AnswerInv
  <2>3. ASSUME NEW h \in Gids PROVE BarrierInv(h)'
    BY <1>0, <1>2, <1>3, <2>1, <2>2 DEF SagaInv, BarrierInv, RowPair, SagaTypeOK, Ops
  <2>4. ASSUME NEW h \in Gids PROVE OrderInv(h)'
    BY <1>0, <1>3, <1>5, <2>1 DEF CancelOrder, SagaInv, OrderInv, SagaTypeOK, Ops
  <2>5. Moves(w) /\ worker'[w].pc = "idle" /\ worker'[w].pc \notin InTx
    BY <1>0, <1>3, IdleType DEF Moves, SagaTypeOK
  <2>6. \A v \in Workers \ {w} : worker[v].pc \in InTx => worker[v].gid # g
    BY <1>0, <1>1 DEF SagaInv, Exclusive, InTx
  <2>7. /\ \A v \in Workers :
             /\ worker'[v].pc # "idle" => worker'[v].gid \in Gids
             /\ WorkerInv(worker[v])'
        /\ Exclusive'
    BY <1>2, <1>3, <2>1, <2>5, <2>6, WorkerMove
  <2>8. SagaTypeOK'
    <3>1. live' \in [Gids -> BOOLEAN]
      BY <1>0, <1>5 DEF CancelOrder, SagaTypeOK
    <3> QED BY <1>0, <1>3, <1>5, <2>1, <2>2, <2>5, <2>7, <3>1 DEF SagaTypeOK, Moves
  <2> QED BY <2>2, <2>3, <2>4, <2>7, <2>8 DEF SagaInv
<1> QED BY <1>1, <1>4, <1>5 DEF RevertCommit

LEMMA ChangeType ==
  ASSUME SagaTypeOK, Change
  PROVE  changes' \in 0 .. MaxChanges
BY SagaAssumption DEF SagaTypeOK, Change

\* The ledger, the cached product row and what is on sale are not part of it.
LEMMA ElsewhereStep ==
  ASSUME SagaInv, UNCHANGED <<saga, sent, acked, barrier, stock, orders, live, published,
                              worker, faults>>,
         row' \in [Products -> Int], onSale' \in [Products -> BOOLEAN],
         changes' \in 0 .. MaxChanges
  PROVE  SagaInv'
BY DEF SagaInv, SagaTypeOK, SentInv, BarrierInv, RowPair, OrderInv, WorkerInv,
       FirstRun, Undoes, Exclusive

LEMMA SagaStepInv == SagaInv /\ [Next]_vars => SagaInv'
<1> SUFFICES ASSUME SagaInv, [Next]_vars PROVE SagaInv'
  OBVIOUS
<1>1. ASSUME NEW g \in Gids, Coordinator(g) PROVE SagaInv'
  BY <1>1, CoordinatorStep
<1>2. ASSUME NEW g \in Gids, NEW w \in Workers, CreateStart(w, g) PROVE SagaInv'
  BY <1>2, CreateStartStep
<1>3. ASSUME NEW g \in Gids, NEW d \in BOOLEAN, Handler(g, d) PROVE SagaInv'
  BY <1>3, DecrStockStep, DecrStockRevertStep, RevertBeginStep DEF Handler
<1>4. ASSUME NEW w \in Workers, NEW d \in BOOLEAN, Worker(w, d) PROVE SagaInv'
  BY <1>4, CreateBeginStep, CreatePreLockStep, CreateCommitStep, UndoingStep,
     CreatePublishStep, RevertItemStep, RevertCommitStep, CrashStep DEF Worker
<1>5. ASSUME NEW g \in Gids, NEW p \in Items(g), Lapse(g, p) PROVE SagaInv'
  <2>1. changes' \in 0 .. MaxChanges
    BY <1>5, ChangeType DEF Lapse, SagaInv
  <2>2. row' \in [Products -> Int] /\ onSale' \in [Products -> BOOLEAN]
    BY <1>5 DEF Lapse, SagaInv, SagaTypeOK
  <2>3. UNCHANGED <<saga, sent, acked, barrier, stock, orders, live, published, worker, faults>>
    BY <1>5 DEF Lapse, sagaVars, dbVars
  <2> QED BY <2>1, <2>2, <2>3, ElsewhereStep
<1>6. ASSUME NEW p \in Products, Load(p) \/ CacheRow(p) \/ ChangeSale(p) PROVE SagaInv'
  <2>1. row' \in [Products -> Int] /\ onSale' \in [Products -> BOOLEAN]
    <3>0. row \in [Products -> Int] /\ onSale \in [Products -> BOOLEAN]
          /\ stock[p] \in Int /\ NoRow \in Int
      BY DEF SagaInv, SagaTypeOK, NoRow
    <3>1. CASE Load(p)
      BY <3>0, <3>1 DEF Load
    <3>2. CASE CacheRow(p)
      BY <3>0, <3>2 DEF CacheRow
    <3>3. CASE ChangeSale(p)
      BY <3>0, <3>3 DEF ChangeSale
    <3> QED BY <1>6, <3>1, <3>2, <3>3
  <2>2. changes' \in 0 .. MaxChanges
    <3>1. Change \/ changes' = changes
      BY <1>6 DEF Load, CacheRow, ChangeSale
    <3> QED BY <3>1, ChangeType DEF SagaInv, SagaTypeOK
  <2> QED BY <1>6, <2>1, <2>2, ElsewhereStep DEF Load, CacheRow, ChangeSale, sagaVars, dbVars
<1>7. CASE UNCHANGED vars
  BY <1>7, ElsewhereStep DEF vars, sagaVars, dbVars, SagaInv, SagaTypeOK
<1> QED BY <1>1, <1>2, <1>3, <1>4, <1>5, <1>6, <1>7 DEF Next

\* The invariant holds, for any number of sagas, handlers and faults.
THEOREM SagaInvariant == Spec => []SagaInv
BY SagaInitInv, SagaStepInv, PTL DEF Spec

-----------------------------------------------------------------------------
(* What follows.                                                           *)

LEMMA PairFacts ==
  ASSUME SagaInv, NEW g \in Gids
  PROVE  /\ \A op \in Ops : barrier[g][op] \in BarrierRows
         /\ "decr" \in Ops /\ "decrRevert" \in Ops
         /\ "create" \in Ops /\ "createRevert" \in Ops
         /\ SentInv(g) /\ BarrierInv(g) /\ OrderInv(g)
BY DEF SagaInv, SagaTypeOK, Ops

\* Atomicity across the product and the order service: a saga that
\* succeeded has its stock and one live order, one that failed has neither,
\* whatever calls are repeated, late or lost and whichever handlers die.
THEOREM SagaAlwaysAtomic == Spec => []SagaAtomic
<1>1. SagaInv => SagaAtomic
  <2> SUFFICES ASSUME SagaInv, NEW g \in Gids
               PROVE  /\ saga[g] = "succeed" => Taken(g) /\ orders[g] = 1 /\ live[g]
                      /\ saga[g] = "failed" => ~Taken(g) /\ ~live[g]
    BY DEF SagaAtomic
  <2> QED BY PairFacts
          DEF SentInv, BarrierInv, RowPair, OrderInv, Taken, BarrierRows
<1> QED BY <1>1, SagaInvariant, PTL

\* At most one order row per saga, and a live order has its stock.
THEOREM OrdersAlwaysBacked == Spec => []OrdersBacked
<1>1. SagaInv => OrdersBacked
  <2> SUFFICES ASSUME SagaInv, NEW g \in Gids
               PROVE  orders[g] <= 1 /\ (live[g] => Taken(g))
    BY DEF OrdersBacked
  <2> QED BY PairFacts
          DEF SentInv, BarrierInv, RowPair, OrderInv, Taken, BarrierRows
<1> QED BY <1>1, SagaInvariant, PTL

LEMMA ResInitMap == Init => Res!ResInit
<1> SUFFICES ASSUME Init PROVE Res!ResInit
  OBVIOUS
<1>1. \A g \in Gids : Progress(g) = "new"
  BY DEF Init, Progress, Ops
<1> QED BY <1>1 DEF Init, Res!ResInit

\* A step that writes no barrier row and moves no stock.
LEMMA ResStutter ==
  ASSUME UNCHANGED <<barrier, stock>>
  PROVE  UNCHANGED Res!resVars
BY DEF Res!resVars, Progress, Taken

\* A step after which only g has moved on.
LEMMA ResMove ==
  ASSUME NEW g \in Gids, NEW s, Progress(g)' = s,
         \A h \in Gids \ {g} : Progress(h)' = Progress(h)
  PROVE  [h \in Gids |-> Progress(h)]' = [[h \in Gids |-> Progress(h)] EXCEPT ![g] = s]
OBVIOUS

\* Rows of other sagas do not matter to Progress.
LEMMA ProgressOf ==
  ASSUME NEW g \in Gids, \A o \in Ops : barrier'[g][o] = barrier[g][o]
  PROVE  Progress(g)' = Progress(g)
BY DEF Progress, Taken, Ops

LEMMA DecrMap ==
  ASSUME SagaInv, NEW g \in Gids, NEW d \in BOOLEAN, DecrStock(g, d)
  PROVE  Res!Reserve(g) \/ UNCHANGED Res!resVars
<1>0. barrier \in [Gids -> [Ops -> BarrierRows]] /\ "done" \in BarrierRows
  BY DEF SagaInv, SagaTypeOK, BarrierRows
<1>1. CASE UNCHANGED <<stock, barrier>>
  BY <1>1, ResStutter
<1>2. CASE /\ FirstRun(g, "decr") /\ Covered(g)
           /\ stock' = [p \in Products |-> stock[p] - Qty[g][p]]
           /\ barrier' = [barrier EXCEPT ![g]["decr"] = "done"]
  <2>1. \A h \in Gids, o \in Ops :
           barrier'[h][o] = IF h = g /\ o = "decr" THEN "done" ELSE barrier[h][o]
    BY <1>0, <1>2, PairFacts, OneRow
  <2>2. Progress(g) = "new" /\ Progress(g)' = "reserved"
    <3>1. /\ barrier[g]["decr"] = "absent" /\ barrier[g]["decrRevert"] = "absent"
          /\ barrier[g]["create"] = "absent" /\ barrier[g]["createRevert"] = "absent"
      BY <1>2, PairFacts DEF FirstRun, SentInv, BarrierInv, RowPair, BarrierRows
    <3>2. /\ barrier'[g]["decr"] = "done" /\ barrier'[g]["decrRevert"] = "absent"
          /\ barrier'[g]["create"] = "absent" /\ barrier'[g]["createRevert"] = "absent"
      BY <2>1, <3>1 DEF Ops
    <3> QED BY <3>1, <3>2 DEF Progress, Taken
  <2>3. \A h \in Gids \ {g} : Progress(h)' = Progress(h)
    BY <2>1, ProgressOf
  <2>4. [h \in Gids |-> Progress(h)]'
          = [[h \in Gids |-> Progress(h)] EXCEPT ![g] = "reserved"]
    BY <2>2, <2>3, ResMove
  <2> QED BY <1>2, <2>2, <2>4 DEF Res!Reserve, Covered
<1> QED BY <1>1, <1>2 DEF DecrStock

LEMMA DecrRevertMap ==
  ASSUME SagaInv, NEW g \in Gids, NEW d \in BOOLEAN, DecrStockRevert(g, d)
  PROVE  Res!Release(g) \/ Res!GiveUp(g) \/ UNCHANGED Res!resVars
<1>0. /\ barrier \in [Gids -> [Ops -> BarrierRows]]
      /\ "done" \in BarrierRows /\ "void" \in BarrierRows
      /\ "decrRevert" \in sent[g]
  BY DEF SagaInv, SagaTypeOK, BarrierRows, DecrStockRevert
<1>1. CASE UNCHANGED <<stock, barrier>>
  BY <1>1, ResStutter
<1>2. CASE /\ Undoes(g, "decr", "decrRevert")
           /\ stock' = [p \in Products |-> stock[p] + Qty[g][p]]
           /\ barrier' = [barrier EXCEPT ![g]["decrRevert"] = "done"]
  <2>1. \A h \in Gids, o \in Ops :
           barrier'[h][o] = IF h = g /\ o = "decrRevert" THEN "done" ELSE barrier[h][o]
    BY <1>0, <1>2, PairFacts, OneRow
  <2>2. Progress(g) \in {"reserved", "withdrawn"} /\ Progress(g)' = "released"
    <3>1. /\ barrier[g]["decr"] = "done" /\ barrier[g]["decrRevert"] = "absent"
          /\ barrier[g]["create"] = "done" => barrier[g]["createRevert"] # "absent"
      BY <1>0, <1>2, PairFacts DEF Undoes, SentInv, BarrierInv, RowPair, BarrierRows
    <3>2. barrier'[g]["decr"] = "done" /\ barrier'[g]["decrRevert"] # "absent"
      BY <2>1, <3>1 DEF Ops
    <3> QED BY <3>1, <3>2 DEF Progress, Taken
  <2>3. \A h \in Gids \ {g} : Progress(h)' = Progress(h)
    BY <2>1, ProgressOf
  <2>4. [h \in Gids |-> Progress(h)]'
          = [[h \in Gids |-> Progress(h)] EXCEPT ![g] = "released"]
    BY <2>2, <2>3, ResMove
  <2> QED BY <1>2, <2>2, <2>4 DEF Res!Release
<1>3. CASE /\ UndoesNothing(g, "decr", "decrRevert")
           /\ RuleOut(g, "decr", "decrRevert") /\ UNCHANGED stock
  <2>1. \A h \in Gids, o \in Ops :
           barrier'[h][o] = IF h = g /\ o \in {"decr", "decrRevert"}
                              THEN "void" ELSE barrier[h][o]
    <3>1. barrier' = [barrier EXCEPT ![g]["decr"] = "void", ![g]["decrRevert"] = "void"]
      BY <1>3 DEF RuleOut
    <3>2. "decr" \in Ops /\ "decrRevert" \in Ops
      BY DEF Ops
    <3> QED BY <1>0, <3>1, <3>2, TwoRows
  <2>2. Progress(g) = "new" /\ Progress(g)' = "void"
    <3>1. barrier[g]["decr"] = "absent" /\ barrier'[g]["decr"] = "void"
      BY <1>3, <2>1 DEF UndoesNothing, Ops
    <3> QED BY <3>1 DEF Progress, Taken
  <2>3. \A h \in Gids \ {g} : Progress(h)' = Progress(h)
    BY <2>1, ProgressOf
  <2>4. [h \in Gids |-> Progress(h)]'
          = [[h \in Gids |-> Progress(h)] EXCEPT ![g] = "void"]
    BY <2>2, <2>3, ResMove
  <2> QED BY <1>3, <2>2, <2>4 DEF Res!GiveUp
<1> QED BY <1>1, <1>2, <1>3 DEF DecrStockRevert

LEMMA CommitMap ==
  ASSUME SagaInv, NEW w \in Workers, CreateCommit(w)
  PROVE  (\E g \in Gids : Res!Place(g)) \/ UNCHANGED Res!resVars
<1>1. CASE UNCHANGED dbVars
  BY <1>1, ResStutter DEF dbVars
<1>2. CASE WriteOrder(worker[w].gid)
  <2>1. PICK g \in Gids : g = worker[w].gid
    BY WorkerAt DEF CreateCommit
  <2>2. /\ "create" \in sent[g] /\ barrier[g]["create"] = "absent"
    BY <2>1, WorkerAt DEF CreateCommit, WorkerInv, FirstRun
  <2>3. /\ stock' = stock
        /\ \A h \in Gids, o \in Ops :
              barrier'[h][o] = IF h = g /\ o = "create" THEN "done" ELSE barrier[h][o]
    <3>1. /\ stock' = stock /\ barrier' = [barrier EXCEPT ![g]["create"] = "done"]
          /\ barrier \in [Gids -> [Ops -> BarrierRows]] /\ "done" \in BarrierRows
          /\ "create" \in Ops
      BY <1>2, <2>1 DEF WriteOrder, SagaInv, SagaTypeOK, BarrierRows, Ops
    <3> QED BY <3>1, OneRow
  <2>4. Progress(g) = "reserved" /\ Progress(g)' = "placed"
    <3>1. /\ barrier[g]["decr"] = "done" /\ barrier[g]["decrRevert"] = "absent"
          /\ barrier[g]["createRevert"] = "absent"
      BY <2>2, PairFacts DEF SentInv, BarrierInv, RowPair, BarrierRows
    <3>2. /\ barrier'[g]["decr"] = "done" /\ barrier'[g]["decrRevert"] = "absent"
          /\ barrier'[g]["createRevert"] = "absent" /\ barrier'[g]["create"] = "done"
      BY <2>3, <3>1 DEF Ops
    <3> QED BY <2>2, <3>1, <3>2 DEF Progress, Taken
  <2>5. \A h \in Gids \ {g} : Progress(h)' = Progress(h)
    BY <2>3, ProgressOf
  <2>6. [h \in Gids |-> Progress(h)]'
          = [[h \in Gids |-> Progress(h)] EXCEPT ![g] = "placed"]
    BY <2>4, <2>5, ResMove
  <2> QED BY <2>3, <2>4, <2>6 DEF Res!Place
<1> QED BY <1>1, <1>2 DEF CreateCommit

\* Both ways in which the order branch is undone.
LEMMA WithdrawMap ==
  ASSUME SagaInv, NEW g \in Gids, stock' = stock, "createRevert" \in sent[g],
         barrier[g]["createRevert"] = "absent", barrier'[g]["createRevert"] # "absent",
         \A h \in Gids, o \in Ops : barrier'[h][o] # barrier[h][o] =>
            h = g /\ o \in {"create", "createRevert"}
  PROVE  Res!Withdraw(g)
<1>1. /\ barrier[g]["decr"] = "done" /\ barrier[g]["decrRevert"] = "absent"
      /\ barrier[g]["createRevert"] = "absent"
  BY PairFacts DEF SentInv, BarrierInv, RowPair, BarrierRows
<1>2. /\ barrier'[g]["decr"] = "done" /\ barrier'[g]["decrRevert"] = "absent"
  BY <1>1 DEF Ops
<1>3. Progress(g) \in {"reserved", "placed"} /\ Progress(g)' = "withdrawn"
  BY <1>1, <1>2 DEF Progress, Taken
<1>4. \A h \in Gids \ {g} : Progress(h)' = Progress(h)
  BY ProgressOf
<1>5. [h \in Gids |-> Progress(h)]'
        = [[h \in Gids |-> Progress(h)] EXCEPT ![g] = "withdrawn"]
  BY <1>3, <1>4, ResMove
<1> QED BY <1>3, <1>5 DEF Res!Withdraw

LEMMA RevertBeginMap ==
  ASSUME SagaInv, NEW g \in Gids, NEW w \in Workers, NEW d \in BOOLEAN,
         RevertBegin(w, g, d)
  PROVE  Res!Withdraw(g) \/ UNCHANGED Res!resVars
<1>1. stock' = stock /\ "createRevert" \in sent[g]
  BY DEF RevertBegin
<1>2. CASE UNCHANGED barrier
  BY <1>1, <1>2, ResStutter
<1>3. CASE /\ UndoesNothing(g, "create", "createRevert")
           /\ RuleOut(g, "create", "createRevert")
  <2>1. /\ barrier' = [barrier EXCEPT ![g]["create"] = "void",
                                      ![g]["createRevert"] = "void"]
        /\ barrier[g]["createRevert"] = "absent"
    BY <1>3 DEF RuleOut, UndoesNothing
  <2>2. barrier \in [Gids -> [Ops -> BarrierRows]]
    BY DEF SagaInv, SagaTypeOK
  <2>3. "create" \in Ops /\ "createRevert" \in Ops
    BY DEF Ops
  <2>4. \A h \in Gids, o \in Ops :
           barrier'[h][o] = IF h = g /\ o \in {"create", "createRevert"}
                              THEN "void" ELSE barrier[h][o]
    BY <2>1, <2>2, <2>3, TwoRows
  <2>5. barrier'[g]["createRevert"] # "absent"
    BY <2>3, <2>4
  <2>6. \A h \in Gids, o \in Ops : barrier'[h][o] # barrier[h][o] =>
           h = g /\ o \in {"create", "createRevert"}
    BY <2>4
  <2> QED BY <1>1, <2>1, <2>5, <2>6, WithdrawMap
<1> QED BY <1>2, <1>3 DEF RevertBegin

LEMMA RevertCommitMap ==
  ASSUME SagaInv, NEW w \in Workers, NEW d \in BOOLEAN, RevertCommit(w, d)
  PROVE  (\E g \in Gids : Res!Withdraw(g)) \/ UNCHANGED Res!resVars
<1>1. stock' = stock
  BY DEF RevertCommit
<1>2. CASE UNCHANGED barrier
  BY <1>1, <1>2, ResStutter
<1>3. CASE CancelOrder(worker[w].gid)
  <2>1. PICK g \in Gids : g = worker[w].gid
    BY WorkerAt DEF RevertCommit
  <2>2. "createRevert" \in sent[g] /\ barrier[g]["createRevert"] = "absent"
    BY <2>1, WorkerAt DEF RevertCommit, WorkerInv, Undoes
  <2>3. \A h \in Gids, o \in Ops :
           barrier'[h][o] = IF h = g /\ o = "createRevert" THEN "done" ELSE barrier[h][o]
    <3>1. /\ barrier' = [barrier EXCEPT ![g]["createRevert"] = "done"]
          /\ barrier \in [Gids -> [Ops -> BarrierRows]] /\ "done" \in BarrierRows
          /\ "createRevert" \in Ops
      BY <1>3, <2>1 DEF CancelOrder, SagaInv, SagaTypeOK, BarrierRows, Ops
    <3> QED BY <3>1, OneRow
  <2>4. barrier'[g]["createRevert"] # "absent"
    BY <2>3 DEF Ops
  <2>5. \A h \in Gids, o \in Ops : barrier'[h][o] # barrier[h][o] =>
           h = g /\ o \in {"create", "createRevert"}
    BY <2>3
  <2> QED BY <1>1, <2>2, <2>4, <2>5, WithdrawMap
<1> QED BY <1>2, <1>3 DEF RevertCommit

LEMMA ResStepMap == SagaInv /\ [Next]_vars => [Res!ResNext]_(Res!resVars)
<1> SUFFICES ASSUME SagaInv, [Next]_vars
             PROVE  Res!ResNext \/ UNCHANGED Res!resVars
  OBVIOUS
<1>1. ASSUME NEW g \in Gids, Coordinator(g) PROVE UNCHANGED Res!resVars
  BY <1>1, ResStutter DEF Coordinator, Submit, Call, Timeout, Finish, dbVars
<1>2. ASSUME NEW g \in Gids, NEW w \in Workers, CreateStart(w, g)
      PROVE  UNCHANGED Res!resVars
  BY <1>2, ResStutter DEF CreateStart, dbVars
<1>3. ASSUME NEW g \in Gids, NEW d \in BOOLEAN, Handler(g, d)
      PROVE  Res!ResNext \/ UNCHANGED Res!resVars
  BY <1>3, DecrMap, DecrRevertMap, RevertBeginMap DEF Handler, Res!ResNext
<1>4. ASSUME NEW w \in Workers, NEW d \in BOOLEAN, Worker(w, d)
      PROVE  Res!ResNext \/ UNCHANGED Res!resVars
  <2>1. CASE CreateCommit(w) \/ RevertCommit(w, d)
    BY <2>1, CommitMap, RevertCommitMap DEF Res!ResNext
  <2>2. CASE \/ CreateBegin(w) \/ CreatePreLock(w) \/ CreateUnlock(w) \/ CreateUndo(w)
             \/ CreatePublish(w, d) \/ RevertItem(w) \/ Crash(w)
    BY <2>2, ResStutter DEF CreateBegin, CreatePreLock, CreateUnlock, CreateUndo,
                            CreatePublish, RevertItem, Crash, dbVars
  <2> QED BY <1>4, <2>1, <2>2 DEF Worker
<1>5. ASSUME NEW g \in Gids, NEW p \in Items(g), Lapse(g, p)
      PROVE  UNCHANGED Res!resVars
  BY <1>5, ResStutter DEF Lapse, dbVars
<1>6. ASSUME NEW p \in Products, Load(p) \/ CacheRow(p) \/ ChangeSale(p)
      PROVE  UNCHANGED Res!resVars
  BY <1>6, ResStutter DEF Load, CacheRow, ChangeSale, dbVars
<1>7. CASE UNCHANGED vars
  BY <1>7, ResStutter DEF vars, dbVars
<1> QED BY <1>1, <1>2, <1>3, <1>4, <1>5, <1>6, <1>7 DEF Next

\* The saga implements Reservation: with the barrier, calls that are lost,
\* repeated or late, and handlers that die, move stock and orders as if
\* each operation ran once and in order.
THEOREM SagaImplementsReservation == Spec => ImplementsReservation
BY ResInitMap, ResStepMap, SagaInvariant, PTL
   DEF Spec, ImplementsReservation, Res!ResSpec

\* The lemmas about Reservation, for the saga.
ResLemmas == INSTANCE ReservationProofs WITH res <- [g \in Gids |-> Progress(g)]

\* No piece is sold twice, lost or given back twice: every piece is in
\* product.stock or taken by exactly one saga.
THEOREM SagaConservesStock == Spec => []StockConserved
<1> DEFINE I == ResLemmas!ResInv
<1>1. Init => I
  <2>1. Init => ResLemmas!ResInit
    BY ResInitMap DEF Res!ResInit, ResLemmas!ResInit
  <2>2. ResLemmas!ResInit => I
    BY ResLemmas!ResInitInv, GidsAssumption, QuantityAssumption
       DEF ResLemmas!IsFiniteSet, IsFiniteSet
  <2> QED BY <2>1, <2>2
<1>2. SagaInv /\ I /\ [Next]_vars => I'
  <2>1. SagaInv /\ [Next]_vars => [ResLemmas!ResNext]_(ResLemmas!resVars)
    BY ResStepMap
       DEF Res!ResNext, ResLemmas!ResNext, Res!resVars, ResLemmas!resVars,
           Res!Reserve, ResLemmas!Reserve, Res!Release, ResLemmas!Release,
           Res!Place, ResLemmas!Place, Res!Withdraw, ResLemmas!Withdraw,
           Res!GiveUp, ResLemmas!GiveUp
  <2>2. I /\ [ResLemmas!ResNext]_(ResLemmas!resVars) => I'
    BY ResLemmas!ResStepInv, GidsAssumption, QuantityAssumption
       DEF ResLemmas!IsFiniteSet, IsFiniteSet
  <2> QED BY <2>1, <2>2
<1>3. I => StockConserved
  <2>1. I => ResLemmas!StockConserved
    BY DEF ResLemmas!ResInv
  <2>2. ResLemmas!StockConserved => StockConserved
    <3>1. Res!Holding = ResLemmas!Holding
      BY DEF Res!Holding, ResLemmas!Holding
    <3>2. ASSUME NEW G, NEW p PROVE Res!Pieces(G, p) = ResLemmas!Pieces(G, p)
      BY DEF Res!Pieces, ResLemmas!Pieces, Res!Units, ResLemmas!Units,
             Res!Cardinality, ResLemmas!Cardinality
    <3> QED BY <3>1, <3>2 DEF StockConserved, Res!StockConserved, ResLemmas!StockConserved
  <2> QED BY <2>1, <2>2
<1> HIDE DEF I
<1> QED BY <1>1, <1>2, <1>3, SagaInvariant, PTL DEF Spec

LEMMA LedgerStepMap == SagaInv /\ [Next]_vars => [LedgerNext]_ledgerVars
<1> SUFFICES ASSUME SagaInv, [Next]_vars
             PROVE  LedgerNext \/ UNCHANGED ledgerVars
  OBVIOUS
<1>1. ASSUME NEW g \in Gids, Coordinator(g) PROVE UNCHANGED ledgerVars
  BY <1>1 DEF Coordinator, Submit, Call, Timeout, Finish
<1>2. ASSUME NEW g \in Gids, NEW w \in Workers, CreateStart(w, g)
      PROVE  UNCHANGED ledgerVars
  BY <1>2 DEF CreateStart
<1>3. ASSUME NEW g \in Gids, NEW d \in BOOLEAN, Handler(g, d)
      PROVE  UNCHANGED ledgerVars
  BY <1>3 DEF Handler, DecrStock, DecrStockRevert, RevertBegin
<1>4. ASSUME NEW w \in Workers, NEW d \in BOOLEAN, Worker(w, d)
      PROVE  LedgerNext \/ UNCHANGED ledgerVars
  <2>1. CASE \/ CreateBegin(w) \/ CreateCommit(w) \/ CreatePublish(w, d)
             \/ RevertCommit(w, d) \/ Crash(w)
    BY <2>1 DEF CreateBegin, CreateCommit, CreatePublish, RevertCommit, Crash
  <2>2. CASE CreatePreLock(w) \/ CreateUnlock(w) \/ CreateUndo(w) \/ RevertItem(w)
    <3>1. PICK g \in Gids : g = worker[w].gid
      BY <2>2, WorkerAt DEF CreatePreLock, CreateUnlock, CreateUndo, RevertItem
    <3>2. worker[w].todo \subseteq Items(g)
      BY <2>2, <3>1, WorkerAt DEF CreatePreLock, CreateUnlock, CreateUndo, RevertItem
    <3>3. \/ UNCHANGED ledgerVars
          \/ \E p \in worker[w].todo : PreLock(g, p) \/ Revert(g, p)
      BY <2>2, <3>1 DEF CreatePreLock, CreateUnlock, CreateUndo, RevertItem,
                        RevertIgnoringErrors, RunPreLock, RunRevert
    <3> QED BY <3>2, <3>3 DEF LedgerNext
  <2> QED BY <1>4, <2>1, <2>2 DEF Worker
<1>5. ASSUME NEW g \in Gids, NEW p \in Items(g), Lapse(g, p) PROVE LedgerNext
  BY <1>5 DEF Lapse, LedgerNext
<1>6. ASSUME NEW p \in Products, Load(p) PROVE LedgerNext
  BY <1>6 DEF Load, LedgerNext
<1>7. ASSUME NEW p \in Products, CacheRow(p) \/ ChangeSale(p) PROVE UNCHANGED ledgerVars
  BY <1>7 DEF CacheRow, ChangeSale
<1>8. CASE UNCHANGED vars
  BY <1>8 DEF vars
<1> QED BY <1>1, <1>2, <1>3, <1>4, <1>5, <1>6, <1>7, <1>8 DEF Next

\* All that the saga does to the Redis hash and keys is what the scripts do;
\* for the rest, hash and keys expire and the hash is loaded over.
THEOREM SagaKeepsLedger == Spec => LedgerSpec
<1>1. Init => LedgerInit
  BY DEF Init
<1> QED BY <1>1, LedgerStepMap, SagaInvariant, PTL
        DEF Spec, LedgerSpec

\* Every variable keeps its type; the stock, in the database and in Redis,
\* never goes below zero.
THEOREM SagaTypeCorrect == Spec => []TypeOK
<1>1. SagaInv /\ LedgerTypeOK => TypeOK
  BY DEF SagaInv, TypeOK
<1> QED BY <1>1, SagaInvariant, SagaKeepsLedger, LedgerTypeCorrect, PTL

\* The hash of every product is accounted for by the keys of the sagas,
\* whatever fails, is repeated, is overwritten or expires.
THEOREM SagaLedgerBalanced == Spec => []LedgerBalanced
BY SagaKeepsLedger, LedgerAlwaysBalanced, PTL

-----------------------------------------------------------------------------
(* The announcement of an order.                                           *)

\* An event is published, and the order branch answered, only once the
\* barrier row of the branch is there; the answer follows the event.
AnnouncedInv ==
    \A g \in Gids :
        /\ published[g] # "no" => barrier[g]["create"] # "absent"
        /\ "create" \in acked[g] => published[g] # "no"

\* Steps that write no barrier row of an order branch, and those that do.
LEMMA CreateRowStep ==
  ASSUME SagaInv, [Next]_vars, NEW g \in Gids
  PROVE  \/ /\ barrier'[g]["create"] = barrier[g]["create"]
            /\ barrier'[g]["createRevert"] = barrier[g]["createRevert"]
         \/ /\ \E w \in Workers : CreateCommit(w) /\ worker[w].gid = g
            /\ barrier[g]["create"] = "absent" /\ barrier'[g]["create"] = "done"
            /\ barrier'[g]["createRevert"] = barrier[g]["createRevert"]
         \/ /\ barrier[g]["create"] = "absent" /\ barrier'[g]["create"] = "void"
            /\ barrier'[g]["createRevert"] = "void"
         \/ /\ \E w \in Workers : /\ worker[w].pc = "revert" /\ worker[w].gid = g
                                  /\ worker[w].todo = {}
            /\ barrier'[g]["create"] = barrier[g]["create"]
            /\ barrier'[g]["createRevert"] = "done"
<1>0. /\ barrier \in [Gids -> [Ops -> BarrierRows]]
      /\ {"create", "createRevert", "decr", "decrRevert"} = Ops
      /\ {"absent", "done", "void"} = BarrierRows
  BY DEF SagaInv, SagaTypeOK, Ops, BarrierRows
<1>1. CASE UNCHANGED barrier
  BY <1>1
<1>2. ASSUME NEW h \in Gids, NEW d \in BOOLEAN, DecrStock(h, d) \/ DecrStockRevert(h, d)
      PROVE  /\ barrier'[g]["create"] = barrier[g]["create"]
             /\ barrier'[g]["createRevert"] = barrier[g]["createRevert"]
  BY <1>0, <1>2 DEF DecrStock, DecrStockRevert, RuleOut
<1>3. ASSUME NEW h \in Gids, NEW w \in Workers, NEW d \in BOOLEAN, RevertBegin(w, h, d),
             barrier' # barrier
      PROVE  \/ h = g /\ barrier[g]["create"] = "absent" /\ barrier'[g]["create"] = "void"
                      /\ barrier'[g]["createRevert"] = "void"
             \/ /\ barrier'[g]["create"] = barrier[g]["create"]
                /\ barrier'[g]["createRevert"] = barrier[g]["createRevert"]
  BY <1>0, <1>3 DEF RevertBegin, RuleOut, UndoesNothing
<1>4. ASSUME NEW w \in Workers, CreateCommit(w), barrier' # barrier
      PROVE  \/ /\ worker[w].gid = g
                /\ barrier[g]["create"] = "absent" /\ barrier'[g]["create"] = "done"
                /\ barrier'[g]["createRevert"] = barrier[g]["createRevert"]
             \/ /\ barrier'[g]["create"] = barrier[g]["create"]
                /\ barrier'[g]["createRevert"] = barrier[g]["createRevert"]
  <2>1. worker[w].gid \in Gids /\ barrier[worker[w].gid]["create"] = "absent"
    BY <1>4, WorkerAt DEF CreateCommit, WorkerInv, FirstRun
  <2>2. barrier' = [barrier EXCEPT ![worker[w].gid]["create"] = "done"]
    BY <1>4 DEF CreateCommit, WriteOrder, dbVars
  <2> QED BY <1>0, <2>1, <2>2
<1>5. ASSUME NEW w \in Workers, NEW d \in BOOLEAN, RevertCommit(w, d), barrier' # barrier
      PROVE  \/ /\ worker[w].pc = "revert" /\ worker[w].gid = g /\ worker[w].todo = {}
                /\ barrier'[g]["create"] = barrier[g]["create"]
                /\ barrier'[g]["createRevert"] = "done"
             \/ /\ barrier'[g]["create"] = barrier[g]["create"]
                /\ barrier'[g]["createRevert"] = barrier[g]["createRevert"]
  <2>1. worker[w].gid \in Gids /\ worker[w].pc = "revert" /\ worker[w].todo = {}
    BY <1>5, WorkerAt DEF RevertCommit
  <2>2. barrier' = [barrier EXCEPT ![worker[w].gid]["createRevert"] = "done"]
    BY <1>5 DEF RevertCommit, CancelOrder
  <2> QED BY <1>0, <2>1, <2>2
<1>6. \/ UNCHANGED barrier
      \/ \E h \in Gids, d \in BOOLEAN : DecrStock(h, d) \/ DecrStockRevert(h, d)
      \/ \E h \in Gids, w \in Workers, d \in BOOLEAN : RevertBegin(w, h, d)
      \/ \E w \in Workers : CreateCommit(w)
      \/ \E w \in Workers, d \in BOOLEAN : RevertCommit(w, d)
  <2>1. ASSUME NEW h \in Gids, Coordinator(h) PROVE UNCHANGED barrier
    BY <2>1 DEF Coordinator, Submit, Call, Timeout, Finish, dbVars
  <2>2. ASSUME NEW h \in Gids, NEW w \in Workers, CreateStart(w, h) PROVE UNCHANGED barrier
    BY <2>2 DEF CreateStart, dbVars
  <2>3. ASSUME NEW w \in Workers, NEW d \in BOOLEAN, Worker(w, d)
        PROVE  UNCHANGED barrier \/ CreateCommit(w) \/ RevertCommit(w, d)
    BY <2>3 DEF Worker, CreateBegin, CreatePreLock, CreateUnlock, CreateUndo,
                CreatePublish, RevertItem, Crash, dbVars
  <2>4. ASSUME NEW h \in Gids, NEW p \in Items(h), Lapse(h, p) PROVE UNCHANGED barrier
    BY <2>4 DEF Lapse, dbVars
  <2>5. ASSUME NEW p \in Products, Load(p) \/ CacheRow(p) \/ ChangeSale(p)
      PROVE  UNCHANGED barrier
    BY <2>5 DEF Load, CacheRow, ChangeSale, dbVars
  <2>6. CASE UNCHANGED vars
    BY <2>6 DEF vars, dbVars
  <2> QED BY <2>1, <2>2, <2>3, <2>4, <2>5, <2>6 DEF Next, Handler
<1> QED BY <1>1, <1>2, <1>3, <1>4, <1>5, <1>6

\* Events are published, and the answer of the order branch is heard, in
\* CreatePublish alone.
LEMMA PublishStep ==
  ASSUME SagaInv, [Next]_vars, NEW g \in Gids
  PROVE  \/ /\ published'[g] = published[g]
            /\ "create" \in acked'[g] => "create" \in acked[g]
         \/ barrier[g]["create"] # "absent" /\ published'[g] # "no"
<1>0. /\ published \in [Gids -> {"no", "lost", "yes"}] /\ acked \in [Gids -> SUBSET Ops]
  BY DEF SagaInv, SagaTypeOK
<1>1. ASSUME NEW w \in Workers, NEW d \in BOOLEAN, CreatePublish(w, d)
      PROVE  \/ /\ published'[g] = published[g]
                /\ "create" \in acked'[g] => "create" \in acked[g]
             \/ barrier[g]["create"] # "absent" /\ published'[g] # "no"
  <2>1. /\ worker[w].gid \in Gids /\ barrier[worker[w].gid]["create"] # "absent"
    BY <1>1, WorkerAt DEF CreatePublish, WorkerInv, FirstRun
  <2>2. CASE g = worker[w].gid
    BY <1>0, <1>1, <2>1, <2>2 DEF CreatePublish
  <2>3. CASE g # worker[w].gid
    BY <1>0, <1>1, <2>1, <2>3 DEF CreatePublish, Answer
  <2> QED BY <2>2, <2>3
<1>2. ASSUME NEW op \in {"decr", "decrRevert", "createRevert"}, NEW h \in Gids,
             NEW d \in BOOLEAN, Answer(h, op, d), "create" \in acked'[g]
      PROVE  "create" \in acked[g]
  BY <1>0, <1>2 DEF Answer
<1>3. ASSUME NEW h \in Gids, NEW d \in BOOLEAN, Handler(h, d)
      PROVE  /\ published' = published
             /\ "create" \in acked'[g] => "create" \in acked[g]
  BY <1>2, <1>3 DEF Handler, DecrStock, DecrStockRevert, RevertBegin
<1>4. ASSUME NEW w \in Workers, NEW d \in BOOLEAN, RevertCommit(w, d)
      PROVE  /\ published' = published
             /\ "create" \in acked'[g] => "create" \in acked[g]
  <2>1. worker[w].gid \in Gids
    BY <1>4, WorkerAt DEF RevertCommit
  <2> QED BY <1>2, <1>4, <2>1 DEF RevertCommit
<1>5. ASSUME NEW w \in Workers, NEW d \in BOOLEAN, Worker(w, d)
      PROVE  UNCHANGED <<published, acked>> \/ CreatePublish(w, d) \/ RevertCommit(w, d)
  BY <1>5 DEF Worker, CreateBegin, CreatePreLock, CreateCommit, CreateUnlock, CreateUndo,
              RevertItem, Crash, sagaVars
<1>6. ASSUME NEW h \in Gids, Coordinator(h) PROVE UNCHANGED <<published, acked>>
  BY <1>6 DEF Coordinator, Submit, Call, Timeout, Finish
<1>7. ASSUME NEW h \in Gids, NEW w \in Workers, CreateStart(w, h)
      PROVE  UNCHANGED <<published, acked>>
  BY <1>7 DEF CreateStart, sagaVars
<1>8. ASSUME NEW h \in Gids, NEW p \in Items(h), Lapse(h, p)
      PROVE  UNCHANGED <<published, acked>>
  BY <1>8 DEF Lapse, sagaVars
<1>9. ASSUME NEW p \in Products, Load(p) \/ CacheRow(p) \/ ChangeSale(p)
      PROVE  UNCHANGED <<published, acked>>
  BY <1>9 DEF Load, CacheRow, ChangeSale, sagaVars
<1>10. CASE UNCHANGED vars
  BY <1>10 DEF vars, sagaVars
<1> QED BY <1>1, <1>3, <1>4, <1>5, <1>6, <1>7, <1>8, <1>9, <1>10 DEF Next

\* CreateOrderDTM: every behaviour keeps the order of row, event and answer.
THEOREM OrdersAnnounced == Spec => []AnnouncedInv
<1>1. Init => AnnouncedInv
  BY DEF Init, AnnouncedInv
<1>2. SagaInv /\ AnnouncedInv /\ [Next]_vars => AnnouncedInv'
  <2> SUFFICES ASSUME SagaInv, AnnouncedInv, [Next]_vars, NEW g \in Gids
               PROVE  /\ published'[g] # "no" => barrier'[g]["create"] # "absent"
                      /\ "create" \in acked'[g] => published'[g] # "no"
    BY DEF AnnouncedInv
  <2>1. barrier[g]["create"] # "absent" => barrier'[g]["create"] # "absent"
    BY CreateRowStep
  <2> QED BY <2>1, PublishStep DEF AnnouncedInv
<1> QED BY <1>1, <1>2, SagaInvariant, PTL DEF Spec

\* CreateOrderDTM: unless DTM rolls the saga back, an event that was published
\* names an order that was inserted, however often the branch was repeated.
THEOREM EventsHaveOrders == Spec => []EventHasOrder
<1>1. SagaInv /\ AnnouncedInv => EventHasOrder
  <2> SUFFICES ASSUME SagaInv, AnnouncedInv, NEW g \in Gids,
                      saga[g] \in {"submitted", "succeed"}, published[g] = "yes"
               PROVE  orders[g] > 0
    BY DEF EventHasOrder
  <2>1. barrier[g]["create"] # "absent"
    BY DEF AnnouncedInv
  <2>2. barrier[g]["create"] = "done"
    BY <2>1, PairFacts DEF SentInv, BarrierInv, RowPair, BarrierRows
  <2> QED BY <2>2, PairFacts DEF OrderInv
<1> QED BY <1>1, SagaInvariant, OrdersAnnounced, PTL

\* CreateOrderDTM: a saga succeeds only after the event was handed to the
\* broker or refused by it, whichever handlers died after their commit.
THEOREM SuccessIsPublished == Spec => []SucceededPublished
<1>1. SagaInv /\ AnnouncedInv => SucceededPublished
  BY PairFacts DEF SucceededPublished, AnnouncedInv, SentInv
<1> QED BY <1>1, SagaInvariant, OrdersAnnounced, PTL

\* CreateOrderDTM's announcement and the order in the database go together.
THEOREM AnnouncementHolds == Spec => []OrderAnnounced
BY EventsHaveOrders, SuccessIsPublished, PTL DEF OrderAnnounced

-----------------------------------------------------------------------------
(* Who gives a pre-lock back.                                              *)

\* A handler that still has the pre-lock of p, or is to revert it.
Undoing(x, p) == \/ x.pc = "prelock" /\ p \in x.locked
                 \/ x.pc = "unlock"
                 \/ x.pc = "undo" /\ p \in x.todo

\* A pre-lock was taken by the order branch and is gone once that branch is
\* undone.  Without a fault a handler answers for it until the order exists.
HeldInv ==
    \A g \in Gids : \A p \in Items(g) : cell[g][p] \in Held =>
        /\ "create" \in sent[g]
        /\ barrier[g]["createRevert"] # "done"
        /\ faults = 0 /\ barrier[g]["create"] # "done" =>
              \E w \in Workers : worker[w].gid = g /\ Undoing(worker[w], p)

\* The compensation has reverted what is no longer on its list.
RevertedInv ==
    \A w \in Workers : worker[w].pc = "revert" =>
        \A p \in Items(worker[w].gid) \ worker[w].todo : cell[worker[w].gid][p] \notin Held

\* What one call of a script does to the keys.
LEMMA PreLockCells ==
  ASSUME LedgerTypeOK, NEW g \in Gids, NEW p \in Items(g), RunPreLock(g, p)
  PROVE  \A h \in Gids, q \in Products :
            cell'[h][q] \in Held => cell[h][q] \in Held \/ (h = g /\ q = p)
<1>1. p \in Products /\ cell \in [Gids -> [Products -> Cells]]
  BY DEF Items, LedgerTypeOK
<1> QED BY <1>1 DEF RunPreLock, PreLock, ledgerVars

LEMMA RevertCells ==
  ASSUME LedgerTypeOK, NEW g \in Gids, NEW p \in Items(g), RunRevert(g, p)
  PROVE  /\ cell'[g][p] \notin Held
         /\ \A h \in Gids, q \in Products : cell'[h][q] \in Held => cell[h][q] \in Held
<1>1. p \in Products /\ cell \in [Gids -> [Products -> Cells]]
  BY DEF Items, LedgerTypeOK
<1>2. CASE Revert(g, p)
  <2>1. cell' = [cell EXCEPT ![g][p] = RevertedCell(g, p)]
    BY <1>2 DEF Revert
  <2>2. RevertedCell(g, p) \notin Held
    BY DEF RevertedCell, Held
  <2> QED BY <1>1, <2>1, <2>2
<1>3. CASE RevertCode(g, p) # 1 /\ UNCHANGED ledgerVars
  BY <1>1, <1>3 DEF RevertCode, Reverted, Confirmed, Held, ledgerVars
<1> QED BY <1>2, <1>3 DEF RunRevert

\* Items are products.
LEMMA ItemsAre ==
  ASSUME NEW g \in Gids
  PROVE  Items(g) \subseteq Products
BY DEF Items

\* A step that takes no pre-lock and does not end the branch: what a handler
\* answers for stays with it, or was given back.
LEMMA KeepsHeld ==
  ASSUME SagaInv, HeldInv,
         \A g \in Gids : \A p \in Items(g) : cell'[g][p] \in Held =>
            /\ cell[g][p] \in Held
            /\ "create" \in sent[g] => "create" \in sent'[g]
            /\ barrier[g]["createRevert"] # "done" => barrier'[g]["createRevert"] # "done"
            /\ barrier[g]["create"] = "done" => barrier'[g]["create"] = "done"
            /\ faults' = 0 => faults = 0
            /\ faults' = 0 => \A w \in Workers :
                  worker[w].gid = g /\ Undoing(worker[w], p) =>
                     \/ worker'[w].gid = g /\ Undoing(worker'[w], p)
                     \/ barrier'[g]["create"] = "done"
  PROVE  HeldInv'
BY DEF HeldInv, Undoing

LEMMA KeepsReverted ==
  ASSUME RevertedInv,
         \A w \in Workers : worker'[w].pc = "revert" =>
            \/ /\ worker' [w] = worker[w]
               /\ \A p \in Items(worker[w].gid) :
                    cell'[worker[w].gid][p] \in Held => cell[worker[w].gid][p] \in Held
            \/ \A p \in Items(worker'[w].gid) \ worker'[w].todo :
                    cell'[worker'[w].gid][p] \notin Held
  PROVE  RevertedInv'
BY DEF RevertedInv

\* A fault was counted.
LEMMA FaultCounts ==
  ASSUME SagaInv, Fault
  PROVE  faults' # 0
BY DEF Fault, SagaInv, SagaTypeOK

\* The barrier rows, seen from a pre-lock.
LEMMA RowsKept ==
  ASSUME SagaInv, [Next]_vars, NEW g \in Gids,
         ~ \E w \in Workers : /\ worker[w].pc = "revert" /\ worker[w].gid = g
                              /\ worker[w].todo = {}
  PROVE  /\ barrier[g]["createRevert"] # "done" => barrier'[g]["createRevert"] # "done"
         /\ barrier[g]["create"] = "done" => barrier'[g]["create"] = "done"
BY CreateRowStep

\* A handler takes a pre-lock or is refused it.
LEMMA CreatePreLockHeld ==
  ASSUME SagaInv, LedgerTypeOK, HeldInv, RevertedInv, NEW w \in Workers, CreatePreLock(w)
  PROVE  HeldInv' /\ RevertedInv'
<1> DEFINE g == worker[w].gid
<1>0. /\ UNCHANGED <<sent, barrier>> /\ worker[w].pc = "prelock"
  BY DEF CreatePreLock, sagaVars, dbVars
<1>1. /\ worker[w] \in WorkerStates /\ g \in Gids
      /\ worker[w].todo \subseteq Items(g)
      /\ worker[w].locked \subseteq Items(g) /\ Items(g) \subseteq Products
      /\ "create" \in sent[g] /\ barrier[g]["create"] = "absent"
      /\ barrier[g]["createRevert"] # "done"
  BY <1>0, WorkerAt, PairFacts DEF WorkerInv, FirstRun, BarrierInv, RowPair
<1>w. worker \in [Workers -> WorkerStates]
  BY DEF SagaInv, SagaTypeOK
<1>r. ASSUME NEW v \in Workers, worker[v].pc = "revert" PROVE worker[v].gid # g
  <2>1. barrier[worker[v].gid]["create"] = "done"
    BY <1>r, WorkerAt DEF WorkerInv, Undoes
  <2> QED BY <1>1, <2>1
<1>2. \/ \E p \in worker[w].todo :
            /\ RunPreLock(g, p) /\ UNCHANGED faults
            /\ worker' = [worker EXCEPT ![w].todo = @ \ {p}, ![w].locked = @ \cup {p}]
      \/ /\ worker' = [worker EXCEPT ![w].pc = "unlock", ![w].todo = worker[w].locked]
         /\ UNCHANGED <<ledgerVars, faults>>
      \/ /\ worker' = [worker EXCEPT ![w].pc = "unlock", ![w].todo = worker[w].locked]
         /\ faults' # 0
         /\ \E p \in worker[w].todo : RunPreLock(g, p) \/ UNCHANGED ledgerVars
  BY FaultCounts DEF CreatePreLock, RunPreLock
<1>3. ASSUME NEW p \in worker[w].todo, RunPreLock(g, p) \/ UNCHANGED ledgerVars,
             NEW h \in Gids, NEW q \in Products, cell'[h][q] \in Held
      PROVE  cell[h][q] \in Held \/ (h = g /\ q = p)
  BY <1>1, <1>3, PreLockCells DEF ledgerVars
<1>4. ASSUME NEW v \in Workers, worker'[v].pc = "revert"
      PROVE  /\ v # w /\ worker'[v] = worker[v]
             /\ \A p \in Items(worker[v].gid) :
                  cell'[worker[v].gid][p] \in Held => cell[worker[v].gid][p] \in Held
  <2>1. v # w /\ worker'[v] = worker[v]
    <3>1. CASE \E p \in worker[w].todo :
                 worker' = [worker EXCEPT ![w].todo = @ \ {p}, ![w].locked = @ \cup {p}]
      BY <1>0, <1>1, <1>4, <1>w, <3>1 DEF WorkerStates
    <3>2. CASE worker' = [worker EXCEPT ![w].pc = "unlock", ![w].todo = worker[w].locked]
      BY <1>0, <1>1, <1>4, <1>w, <3>2 DEF WorkerStates
    <3> QED BY <1>2, <3>1, <3>2
  <2>2. worker[v].gid \in Gids /\ worker[v].gid # g /\ Items(worker[v].gid) \subseteq Products
    BY <1>4, <1>r, <2>1, WorkerAt
  <2>3. ASSUME NEW p \in Items(worker[v].gid), cell'[worker[v].gid][p] \in Held
        PROVE  cell[worker[v].gid][p] \in Held
    BY <1>2, <1>3, <2>2, <2>3 DEF ledgerVars
  <2> QED BY <2>1, <2>3
<1>5. RevertedInv'
  BY <1>4, KeepsReverted
<1>6. ASSUME NEW h \in Gids, NEW q \in Items(h), cell'[h][q] \in Held
      PROVE  /\ "create" \in sent'[h]
             /\ barrier'[h]["createRevert"] # "done"
             /\ faults' = 0 /\ barrier'[h]["create"] # "done" =>
                   \E v \in Workers : worker'[v].gid = h /\ Undoing(worker'[v], q)
  <2>0. q \in Products
    BY ItemsAre
  <2>1. CASE \E p \in worker[w].todo :
               /\ RunPreLock(g, p) /\ UNCHANGED faults
               /\ worker' = [worker EXCEPT ![w].todo = @ \ {p}, ![w].locked = @ \cup {p}]
    <3>1. PICK p \in worker[w].todo :
               /\ RunPreLock(g, p) /\ UNCHANGED faults
               /\ worker' = [worker EXCEPT ![w].todo = @ \ {p}, ![w].locked = @ \cup {p}]
      BY <2>1
    <3>2. /\ worker'[w].gid = g /\ worker'[w].pc = "prelock"
          /\ worker'[w].locked = worker[w].locked \cup {p}
          /\ \A v \in Workers \ {w} : worker'[v] = worker[v]
      BY <1>0, <1>1, <1>w, <3>1 DEF WorkerStates
    <3>3. CASE h = g /\ q = p
      BY <1>0, <1>1, <3>2, <3>3 DEF Undoing
    <3>4. CASE ~(h = g /\ q = p)
      <4>1. cell[h][q] \in Held
        BY <1>3, <1>6, <2>0, <3>1, <3>4
      <4>2. \A v \in Workers : worker[v].gid = h /\ Undoing(worker[v], q) =>
               worker'[v].gid = h /\ Undoing(worker'[v], q)
        BY <1>0, <3>2 DEF Undoing
      <4> QED BY <1>0, <3>1, <4>1, <4>2 DEF HeldInv
    <3> QED BY <3>3, <3>4
  <2>2. CASE /\ worker' = [worker EXCEPT ![w].pc = "unlock", ![w].todo = worker[w].locked]
             /\ \/ UNCHANGED <<ledgerVars, faults>>
                \/ /\ faults' # 0
                   /\ \E p \in worker[w].todo : RunPreLock(g, p) \/ UNCHANGED ledgerVars
    <3>1. /\ worker'[w].gid = g /\ worker'[w].pc = "unlock"
          /\ \A v \in Workers \ {w} : worker'[v] = worker[v]
      BY <1>0, <1>1, <1>w, <2>2 DEF WorkerStates
    <3>2. \A v \in Workers : worker[v].gid = h /\ Undoing(worker[v], q) =>
               worker'[v].gid = h /\ Undoing(worker'[v], q)
      BY <1>0, <3>1 DEF Undoing
    <3>3. CASE cell[h][q] \in Held
      BY <1>0, <2>2, <3>1, <3>2, <3>3 DEF HeldInv, Undoing
    <3>4. CASE cell[h][q] \notin Held
      <4>1. faults' # 0 /\ \E p \in worker[w].todo : RunPreLock(g, p)
        BY <1>6, <2>2, <3>4 DEF ledgerVars
      <4>2. h = g
        BY <1>3, <1>6, <2>0, <3>4, <4>1
      <4> QED BY <1>0, <1>1, <4>1, <4>2
    <3> QED BY <3>3, <3>4
  <2> QED BY <1>2, <2>1, <2>2
<1>7. HeldInv'
  BY <1>6 DEF HeldInv
<1> QED BY <1>5, <1>7

\* A handler reverts an item, of its pre-locks or of the order.
LEMMA RevertingHeld ==
  ASSUME SagaInv, LedgerTypeOK, HeldInv, RevertedInv, [Next]_vars, NEW w \in Workers,
         CreateUnlock(w) \/ CreateUndo(w) \/ RevertItem(w)
  PROVE  HeldInv' /\ RevertedInv'
<1> DEFINE g == worker[w].gid
<1>0. /\ UNCHANGED <<sent, barrier>> /\ worker[w].pc \in {"unlock", "undo", "revert"}
  BY DEF CreateUnlock, CreateUndo, RevertItem, sagaVars, dbVars
<1>1. /\ worker[w] \in WorkerStates /\ g \in Gids
      /\ worker[w].todo \subseteq Items(g) /\ Items(g) \subseteq Products
  BY <1>0, WorkerAt
<1>w. worker \in [Workers -> WorkerStates]
  BY DEF SagaInv, SagaTypeOK
<1>2. \/ \E p \in worker[w].todo :
            /\ RunRevert(g, p) /\ UNCHANGED faults
            /\ worker' = [worker EXCEPT ![w].todo = @ \ {p}]
      \/ /\ faults' # 0 /\ worker[w].pc \in {"unlock", "undo"}
         /\ UNCHANGED ledgerVars
         /\ \E p \in worker[w].todo : worker' = [worker EXCEPT ![w].todo = @ \ {p}]
      \/ /\ faults' # 0 /\ worker' = [worker EXCEPT ![w] = Idle]
         /\ \E p \in worker[w].todo : RunRevert(g, p) \/ UNCHANGED ledgerVars
      \/ /\ UNCHANGED <<ledgerVars, faults>> /\ worker[w].pc = "unlock"
         /\ worker' = [worker EXCEPT ![w].pc = "undo", ![w].todo = Items(g)]
      \/ /\ UNCHANGED <<ledgerVars, faults>> /\ worker[w].pc = "undo"
         /\ worker[w].todo = {} /\ worker' = [worker EXCEPT ![w] = Idle]
  BY FaultCounts DEF CreateUnlock, CreateUndo, RevertItem, RevertIgnoringErrors, RunRevert
<1>3. ASSUME NEW h \in Gids, NEW q \in Products, cell'[h][q] \in Held
      PROVE  cell[h][q] \in Held
  BY <1>1, <1>2, <1>3, RevertCells DEF ledgerVars
<1>4. \A v \in Workers \ {w} : worker'[v] = worker[v]
  BY <1>2, <1>w
<1>5. ASSUME NEW q \in Items(g), Undoing(worker[w], q), cell'[g][q] \in Held, faults' = 0
      PROVE  worker'[w].gid = g /\ Undoing(worker'[w], q)
  <2>1. CASE \E p \in worker[w].todo :
               /\ RunRevert(g, p) /\ worker' = [worker EXCEPT ![w].todo = @ \ {p}]
    <3>1. PICK p \in worker[w].todo :
               /\ RunRevert(g, p) /\ worker' = [worker EXCEPT ![w].todo = @ \ {p}]
      BY <2>1
    <3>2. p # q
      BY <1>1, <1>5, <3>1, RevertCells
    <3>3. /\ worker'[w].gid = g /\ worker'[w].pc = worker[w].pc
          /\ worker'[w].todo = worker[w].todo \ {p}
          /\ worker'[w].locked = worker[w].locked
      BY <1>1, <1>w, <3>1 DEF WorkerStates
    <3> QED BY <1>5, <3>2, <3>3 DEF Undoing
  <2>2. CASE worker' = [worker EXCEPT ![w].pc = "undo", ![w].todo = Items(g)]
    <3>1. worker'[w].gid = g /\ worker'[w].pc = "undo" /\ worker'[w].todo = Items(g)
      BY <1>1, <1>w, <2>2 DEF WorkerStates
    <3> QED BY <3>1 DEF Undoing
  <2>3. CASE worker[w].pc = "undo" /\ worker[w].todo = {}
    BY <1>5, <2>3 DEF Undoing
  <2> QED BY <1>2, <1>5, <2>1, <2>2, <2>3
<1>6. HeldInv'
  <2>1. ASSUME NEW h \in Gids, NEW q \in Items(h), cell'[h][q] \in Held, faults' = 0,
               NEW v \in Workers, worker[v].gid = h, Undoing(worker[v], q)
        PROVE  worker'[v].gid = h /\ Undoing(worker'[v], q)
    BY <1>4, <1>5, <2>1
  <2>2. faults' = 0 => faults = 0
    BY <1>2
  <2> QED BY <1>0, <1>3, <2>1, <2>2, ItemsAre, KeepsHeld
<1>7. ASSUME NEW v \in Workers, worker'[v].pc = "revert"
      PROVE  \/ /\ worker'[v] = worker[v]
                /\ \A p \in Items(worker[v].gid) :
                     cell'[worker[v].gid][p] \in Held => cell[worker[v].gid][p] \in Held
             \/ \A p \in Items(worker'[v].gid) \ worker'[v].todo :
                     cell'[worker'[v].gid][p] \notin Held
  <2>1. CASE v # w
    <3>1. worker'[v] = worker[v] /\ worker[v].gid \in Gids
      BY <1>4, <1>7, <2>1, WorkerAt
    <3> QED BY <1>3, <3>1, ItemsAre
  <2>2. CASE v = w
    <3>1. PICK p \in worker[w].todo :
             /\ RunRevert(g, p) \/ worker[w].pc \in {"unlock", "undo"}
             /\ worker' = [worker EXCEPT ![w].todo = @ \ {p}]
      BY <1>1, <1>2, <1>7, <1>w, <2>2, IdleType DEF WorkerStates
    <3>2. /\ worker'[w].gid = g /\ worker'[w].pc = worker[w].pc
          /\ worker'[w].todo = worker[w].todo \ {p}
      BY <1>1, <1>w, <3>1 DEF WorkerStates
    <3>3. worker[w].pc = "revert" /\ RunRevert(g, p)
      BY <1>7, <2>2, <3>1, <3>2
    <3>4. ASSUME NEW q \in Items(g) \ worker'[w].todo PROVE cell'[g][q] \notin Held
      <4>1. CASE q = p
        BY <1>1, <3>3, <4>1, RevertCells
      <4>2. CASE q # p
        BY <1>1, <1>3, <3>2, <3>3, <3>4, <4>2 DEF RevertedInv
      <4> QED BY <4>1, <4>2
    <3> QED BY <2>2, <3>2, <3>4
  <2> QED BY <2>1, <2>2
<1>8. RevertedInv'
  BY <1>7, KeepsReverted
<1> QED BY <1>6, <1>8

\* The steps of a handler that touch no pre-lock.
LEMMA OtherMoves ==
  ASSUME SagaInv, NEW w \in Workers, NEW d \in BOOLEAN,
         CreateBegin(w) \/ CreateCommit(w) \/ CreatePublish(w, d) \/ RevertCommit(w, d)
            \/ Crash(w)
  PROVE  /\ UNCHANGED <<sent, ledgerVars>> /\ (faults' = 0 => faults = 0)
         /\ \A v \in Workers : worker'[v].pc = "revert" => worker'[v] = worker[v]
         /\ faults' = 0 => \A v \in Workers, p \in Products :
               Undoing(worker[v], p) =>
                  \/ worker'[v] = worker[v]
                  \/ barrier'[worker[v].gid]["create"] = "done"
<1>0. worker[w].pc # "idle" /\ worker \in [Workers -> WorkerStates]
  BY DEF CreateBegin, CreateCommit, CreatePublish, RevertCommit, Crash, SagaInv, SagaTypeOK
<1>1. worker[w] \in WorkerStates /\ worker[w].gid \in Gids
  BY <1>0, WorkerAt
<1>2. UNCHANGED <<sent, ledgerVars>>
  BY DEF CreateBegin, CreateCommit, CreatePublish, RevertCommit, Crash, sagaVars
<1>3. faults' = faults \/ faults' # 0
  BY FaultCounts DEF CreateBegin, CreateCommit, CreatePublish, RevertCommit, Crash
<1>4. CASE CreateBegin(w)
  <2>1. /\ worker[w].pc = "checked" /\ worker'[w].pc \in {"prelock", "publish"}
        /\ \A v \in Workers \ {w} : worker'[v] = worker[v]
    <3>1. CASE FirstRun(worker[w].gid, "create")
      BY <1>0, <1>1, <1>4, <3>1 DEF CreateBegin, WorkerStates
    <3>2. CASE ~FirstRun(worker[w].gid, "create")
      BY <1>0, <1>1, <1>4, <3>2 DEF CreateBegin, WorkerStates
    <3> QED BY <3>1, <3>2
  <2> QED BY <1>2, <1>3, <2>1 DEF Undoing
<1>5. CASE CreateCommit(w)
  <2>1. \/ worker' = [worker EXCEPT ![w].pc = "publish"] /\ WriteOrder(worker[w].gid)
        \/ /\ faults' # 0
           /\ \E k \in {"unlock", "undo"}, T \in SUBSET Products :
                 worker' = [worker EXCEPT ![w].pc = k, ![w].todo = T]
    <3>1. worker[w].locked \in SUBSET Products /\ Items(worker[w].gid) \in SUBSET Products
      BY <1>1, ItemsAre DEF WorkerStates
    <3>2. \/ worker' = [worker EXCEPT ![w].pc = "publish"] /\ WriteOrder(worker[w].gid)
          \/ Fault /\ worker' = [worker EXCEPT ![w].pc = "unlock",
                                                ![w].todo = worker[w].locked]
          \/ Fault /\ worker' = [worker EXCEPT ![w].pc = "undo",
                                                ![w].todo = Items(worker[w].gid)]
      BY <1>5 DEF CreateCommit
    <3> QED BY <3>1, <3>2, FaultCounts
  <2>2. CASE worker' = [worker EXCEPT ![w].pc = "publish"] /\ WriteOrder(worker[w].gid)
    <3>1. barrier'[worker[w].gid]["create"] = "done"
      BY <1>1, <2>2 DEF WriteOrder, SagaInv, SagaTypeOK, Ops
    <3>2. worker'[w].pc = "publish" /\ \A v \in Workers \ {w} : worker'[v] = worker[v]
      BY <1>0, <1>1, <2>2 DEF WorkerStates
    <3> QED BY <1>2, <1>3, <3>1, <3>2
  <2>3. CASE faults' # 0 /\ \E k \in {"unlock", "undo"}, T \in SUBSET Products :
                 worker' = [worker EXCEPT ![w].pc = k, ![w].todo = T]
    <3>1. worker'[w].pc \in {"unlock", "undo"}
          /\ \A v \in Workers \ {w} : worker'[v] = worker[v]
      BY <1>0, <1>1, <2>3 DEF WorkerStates
    <3> QED BY <1>2, <2>3, <3>1
  <2> QED BY <2>1, <2>2, <2>3
<1>6. CASE CreatePublish(w, d) \/ RevertCommit(w, d) \/ Crash(w)
  <2>1. /\ worker' = [worker EXCEPT ![w] = Idle]
        /\ worker[w].pc \in {"publish", "revert"} \/ faults' # 0
    BY <1>6, FaultCounts DEF CreatePublish, RevertCommit, Crash
  <2>2. worker'[w].pc = "idle" /\ \A v \in Workers \ {w} : worker'[v] = worker[v]
    BY <1>0, <2>1, IdleType
  <2> QED BY <1>2, <1>3, <2>1, <2>2 DEF Undoing
<1> QED BY <1>4, <1>5, <1>6

\* The steps that begin a handler.
LEMMA BeginMoves ==
  ASSUME SagaInv, NEW g \in Gids, NEW w \in Workers, NEW d \in BOOLEAN,
         CreateStart(w, g) \/ RevertBegin(w, g, d)
  PROVE  /\ UNCHANGED <<sent, ledgerVars, faults>>
         /\ \A v \in Workers : worker'[v].pc = "revert" =>
               worker'[v] = worker[v] \/ worker'[v].todo = Items(worker'[v].gid)
         /\ \A v \in Workers, p \in Products :
               Undoing(worker[v], p) => worker'[v] = worker[v]
<1>0. /\ worker[w].pc = "idle" /\ worker \in [Workers -> WorkerStates]
      /\ UNCHANGED <<sent, ledgerVars, faults>>
  BY DEF CreateStart, RevertBegin, SagaInv, SagaTypeOK, sagaVars
<1>1. \A v \in Workers \ {w} : worker'[v] = worker[v]
  BY <1>0 DEF CreateStart, RevertBegin
<1>2. worker'[w].pc = "revert" =>
        worker'[w] = worker[w] \/ worker'[w].todo = Items(worker'[w].gid)
  <2>1. CASE worker' = [worker EXCEPT ![w] = [Idle EXCEPT !.pc = "checked", !.gid = g]]
    BY <1>0, <2>1 DEF Idle
  <2>2. CASE worker' = [worker EXCEPT ![w] = [Idle EXCEPT !.pc = "revert",
                                              !.gid = g, !.todo = Items(g)]]
    BY <1>0, <2>2 DEF Idle
  <2>3. CASE worker' = worker
    BY <2>3
  <2> QED BY <2>1, <2>2, <2>3 DEF CreateStart, RevertBegin
<1> QED BY <1>0, <1>1, <1>2 DEF Undoing

\* Every other step leaves the handlers alone.
LEMMA StillMoves ==
  ASSUME SagaInv, LedgerTypeOK, [Next]_vars,
         ~ \E w \in Workers, d \in BOOLEAN : Worker(w, d),
         ~ \E g \in Gids, w \in Workers, d \in BOOLEAN :
               CreateStart(w, g) \/ RevertBegin(w, g, d)
  PROVE  /\ UNCHANGED <<worker, faults>>
         /\ \A g \in Gids : "create" \in sent[g] => "create" \in sent'[g]
         /\ \A g \in Gids, p \in Products : cell'[g][p] \in Held => cell[g][p] \in Held
<1>0. sent \in [Gids -> SUBSET Ops] /\ cell \in [Gids -> [Products -> Cells]]
  BY DEF SagaInv, SagaTypeOK, LedgerTypeOK
<1>1. ASSUME NEW g \in Gids, Coordinator(g)
      PROVE  /\ UNCHANGED <<worker, faults, ledgerVars>>
             /\ \A h \in Gids : "create" \in sent[h] => "create" \in sent'[h]
  BY <1>0, <1>1 DEF Coordinator, Submit, Call, Timeout, Finish
<1>2. ASSUME NEW g \in Gids, NEW d \in BOOLEAN, DecrStock(g, d) \/ DecrStockRevert(g, d)
      PROVE  UNCHANGED <<worker, faults, ledgerVars, sent>>
  BY <1>2 DEF DecrStock, DecrStockRevert
<1>3. ASSUME NEW g \in Gids, NEW p \in Items(g), Lapse(g, p)
      PROVE  /\ UNCHANGED <<worker, faults, sent>>
             /\ \A h \in Gids, q \in Products : cell'[h][q] \in Held => cell[h][q] \in Held
  BY <1>0, <1>3 DEF Lapse, ExpireKey, Held, sagaVars, Items
<1>4. ASSUME NEW p \in Products, Load(p)
      PROVE  /\ UNCHANGED <<worker, faults, sent>>
             /\ \A h \in Gids, q \in Products : cell'[h][q] \in Held => cell[h][q] \in Held
  <2>1. cell' = [g \in Gids |-> [cell[g] EXCEPT ![p] = Forgotten(@)]]
    BY <1>4 DEF Load, LoadStock, ExpireHash, NewBook
  <2>2. \A c : Forgotten(c) \in Held => c \in Held
    BY DEF Forgotten, Held
  <2> QED BY <1>0, <1>4, <2>1, <2>2 DEF Load, sagaVars
<1>5. ASSUME NEW p \in Products, CacheRow(p) \/ ChangeSale(p)
      PROVE  UNCHANGED <<worker, faults, ledgerVars, sent>>
  BY <1>5 DEF CacheRow, ChangeSale, sagaVars
<1>6. CASE UNCHANGED vars
  BY <1>6 DEF vars, sagaVars, ledgerVars
<1> QED BY <1>1, <1>2, <1>3, <1>4, <1>5, <1>6 DEF Next, Handler, ledgerVars

LEMMA HeldStep ==
  SagaInv /\ LedgerTypeOK /\ HeldInv /\ RevertedInv /\ [Next]_vars => HeldInv' /\ RevertedInv'
<1> SUFFICES ASSUME SagaInv, LedgerTypeOK, HeldInv, RevertedInv, [Next]_vars
             PROVE  HeldInv' /\ RevertedInv'
  OBVIOUS
<1>1. ASSUME /\ \A g \in Gids : "create" \in sent[g] => "create" \in sent'[g]
             /\ \A g \in Gids, p \in Products : cell'[g][p] \in Held => cell[g][p] \in Held
             /\ faults' = 0 => faults = 0
             /\ \A v \in Workers : worker'[v].pc = "revert" =>
                   worker'[v] = worker[v] \/ worker'[v].todo = Items(worker'[v].gid)
             /\ faults' = 0 => \A v \in Workers, p \in Products :
                   Undoing(worker[v], p) =>
                      \/ worker'[v] = worker[v]
                      \/ barrier'[worker[v].gid]["create"] = "done"
      PROVE  HeldInv' /\ RevertedInv'
  <2>1. ASSUME NEW g \in Gids, NEW p \in Items(g), cell'[g][p] \in Held
        PROVE  /\ cell[g][p] \in Held
               /\ barrier[g]["createRevert"] # "done" => barrier'[g]["createRevert"] # "done"
               /\ barrier[g]["create"] = "done" => barrier'[g]["create"] = "done"
    <3>1. cell[g][p] \in Held
      BY <1>1, <2>1, ItemsAre
    <3>2. ~ \E w \in Workers : /\ worker[w].pc = "revert" /\ worker[w].gid = g
                               /\ worker[w].todo = {}
      BY <3>1 DEF RevertedInv
    <3> QED BY <3>1, <3>2, RowsKept
  <2>2. HeldInv'
    BY <1>1, <2>1, ItemsAre, KeepsHeld
  <2>3. \A v \in Workers : worker'[v].pc = "revert" =>
            \/ /\ worker'[v] = worker[v]
               /\ \A p \in Items(worker[v].gid) :
                    cell'[worker[v].gid][p] \in Held => cell[worker[v].gid][p] \in Held
            \/ \A p \in Items(worker'[v].gid) \ worker'[v].todo :
                    cell'[worker'[v].gid][p] \notin Held
    BY <1>1, WorkerAt, ItemsAre
  <2>4. RevertedInv'
    BY <2>3, KeepsReverted
  <2> QED BY <2>2, <2>4
<1>2. ASSUME NEW w \in Workers, NEW d \in BOOLEAN, Worker(w, d)
      PROVE  HeldInv' /\ RevertedInv'
  <2>1. CASE CreatePreLock(w)
    BY <2>1, CreatePreLockHeld
  <2>2. CASE CreateUnlock(w) \/ CreateUndo(w) \/ RevertItem(w)
    BY <2>2, RevertingHeld
  <2>3. CASE CreateBegin(w) \/ CreateCommit(w) \/ CreatePublish(w, d) \/ RevertCommit(w, d)
               \/ Crash(w)
    BY <1>1, <2>3, OtherMoves DEF ledgerVars
  <2> QED BY <1>2, <2>1, <2>2, <2>3 DEF Worker
<1>3. ASSUME NEW g \in Gids, NEW w \in Workers, NEW d \in BOOLEAN,
             CreateStart(w, g) \/ RevertBegin(w, g, d)
      PROVE  HeldInv' /\ RevertedInv'
  BY <1>1, <1>3, BeginMoves DEF ledgerVars
<1>4. CASE /\ ~ \E w \in Workers, d \in BOOLEAN : Worker(w, d)
           /\ ~ \E g \in Gids, w \in Workers, d \in BOOLEAN :
                   CreateStart(w, g) \/ RevertBegin(w, g, d)
  BY <1>1, <1>4, StillMoves
<1> QED BY <1>2, <1>3, <1>4

\* createorderdtmrevertlogic.go: a saga that failed keeps a pre-lock only if
\* its compensation was skipped by the barrier, and then a fault or a handler
\* that is still at work accounts for it.
THEOREM FailedReturnPreLocks == Spec => []PreLocksReturned
<1>1. Init => HeldInv /\ RevertedInv
  BY ItemsAre DEF Init, LedgerInit, Held, HeldInv, RevertedInv, Idle
<1>2. SagaInv /\ HeldInv => PreLocksReturned
  <2> SUFFICES ASSUME SagaInv, HeldInv, NEW g \in Gids, saga[g] = "failed",
                      NEW p \in Items(g), cell[g][p] \in Held
               PROVE  /\ barrier[g]["create"] = "void"
                      /\ faults > 0 \/ \E w \in Workers : worker[w].gid = g
    BY DEF PreLocksReturned
  <2>1. "create" \in sent[g] /\ barrier[g]["createRevert"] # "done"
    BY DEF HeldInv
  <2>2. barrier[g]["create"] = "void"
    BY <2>1, PairFacts DEF SentInv, BarrierInv, RowPair, BarrierRows
  <2>3. faults \in Nat
    BY SagaAssumption DEF SagaInv, SagaTypeOK
  <2> QED BY <2>2, <2>3 DEF HeldInv
<1>3. TypeOK => LedgerTypeOK
  BY DEF TypeOK
<1> QED BY <1>1, <1>2, <1>3, HeldStep, SagaInvariant, SagaTypeCorrect, PTL DEF Spec
=============================================================================
