--------------------------- MODULE RecordsProofs ---------------------------
(***************************************************************************)
(* The status of an order, the cart, the addresses, the calls of one       *)
(* request id, the pages of a category and the payments, for any number of *)
(* calls.  Each inductive invariant says what a call in the middle of its  *)
(* work may still rely on, although others write between its reading and   *)
(* its writing.                                                            *)
(***************************************************************************)
EXTENDS MCRecords, Payment, FiniteSetTheorems, WellFoundedInduction, TLAPS

-----------------------------------------------------------------------------
(* The status of an order.  A transition leads to a greater number, the    *)
(* cancellation to 0 and nowhere else: the order is never twice where it   *)
(* was, so its steps, and the entries of the log, are all different.       *)

Visited(s) == \E i \in 1 .. Len(trail) : trail[i] = s

VisitInv ==
    /\ Len(trail) > 0
    /\ \A c \in Readers : step[c] # "idle" => Visited(seen[c])
    /\ cachedStatus # NotCached => Visited(cachedStatus)
    /\ orderStatus # Canceled => \A i \in 1 .. Len(trail) : trail[i] \in 1 .. orderStatus
    /\ \A i \in 1 .. Len(trail) : trail[i] = orderStatus => i = Len(trail)

Logging == {u \in Updates : step[u] = "log"}
Unlogged == {t \in Taken : t[2] # Canceled} \ statusLog

LogInv ==
    /\ statusLog \subseteq Taken
    /\ \A u \in Logging : LogEntry(u) \in Unlogged
    /\ \A u, v \in Logging : NewStatus[u] = NewStatus[v] => u = v
    /\ Cardinality(Unlogged) = lost + Cardinality(Logging)

StatusInv == OrderStatusTypeOK /\ VisitInv /\ ConflictOutran /\ LogInv

LEMMA StatusInit == OrderStatusInit => StatusInv
<1> SUFFICES ASSUME OrderStatusInit PROVE StatusInv
  OBVIOUS
<1>1. Taken = {} /\ Logging = {} /\ Unlogged = {}
  BY DEF OrderStatusInit, Taken, Logging, Unlogged, Readers
<1>2. OrderStatusTypeOK /\ VisitInv /\ ConflictOutran
  BY OrderStatusAssumption
     DEF OrderStatusInit, OrderStatusTypeOK, VisitInv, ConflictOutran, Visited, Readers,
         Statuses, NotCached, Pending, Canceled
<1>3. Cardinality({}) = 0
  BY FS_EmptySet
<1> QED BY <1>1, <1>2, <1>3 DEF StatusInv, LogInv, OrderStatusInit

\* The table leads to greater numbers, and never to the cancellation.
LEMMA TableGrows ==
  ASSUME NEW s \in Statuses, NEW n \in Transitions(s)
  PROVE  n \in Statuses /\ n > s /\ n # Canceled
BY DEF Transitions, Statuses, Canceled

LEMMA StepPlace ==
  ASSUME OrderStatusTypeOK, NEW c \in Readers, NEW spot, Step(c, spot)
  PROVE  step'[c] = spot /\ \A d \in Readers \ {c} : step'[d] = step[d]
BY DEF OrderStatusTypeOK, Step

\* A status the order has not had is appended to its trail.
LEMMA NewStep ==
  ASSUME OrderStatusTypeOK, VisitInv, NEW n \in Statuses, trail' = Append(trail, n),
         orderStatus' = n, orderStatus # Canceled, n = Canceled \/ n > orderStatus
  PROVE  /\ Taken' = Taken \cup {<<orderStatus, n>>}
         /\ \A t \in Taken : t[2] # n
         /\ trail' \in Seq(Statuses) /\ trail'[Len(trail')] = n
         /\ \A i \in 1 .. Len(trail) : trail'[i] = trail[i] /\ trail[i] # n
         /\ Len(trail') = Len(trail) + 1
<1> DEFINE N == Len(trail)
<1>1. trail \in Seq(Statuses) /\ N \in Nat \ {0} /\ trail[N] = orderStatus
  BY DEF OrderStatusTypeOK, VisitInv
<1>2. /\ trail' \in Seq(Statuses) /\ Len(trail') = N + 1
      /\ \A i \in 1 .. N : trail'[i] = trail[i]
      /\ trail'[N + 1] = n
  BY <1>1
<1>3. \A i \in 1 .. N : trail[i] # n /\ trail[i] # Canceled /\ trail[i] <= orderStatus
  BY <1>1 DEF VisitInv, Statuses, Canceled
<1> HIDE DEF N
<1>4. \A t \in Taken : t[2] # n
  BY <1>1, <1>3 DEF Taken, N
<1>5. Taken' = Taken \cup {<<orderStatus, n>>}
  <2>1. Taken' = {<<trail'[i], trail'[i + 1]>> : i \in 1 .. N}
    <3>1. Len(trail') - 1 = N
      BY <1>1, <1>2
    <3>2. Taken' = {<<trail'[i], trail'[i + 1]>> : i \in 1 .. Len(trail') - 1}
      BY DEF Taken
    <3> QED BY <3>1, <3>2, Zenon
  <2>2. \A i \in 1 .. N - 1 : i \in 1 .. N /\ i + 1 \in 1 .. N
    BY <1>1
  <2>3. \A i \in 1 .. N : i = N \/ i \in 1 .. N - 1
    BY <1>1
  <2>4. /\ <<trail'[N], trail'[N + 1]>> = <<orderStatus, n>> /\ N \in 1 .. N
        /\ \A i \in 1 .. N - 1 :
             <<trail'[i], trail'[i + 1]>> = <<trail[i], trail[i + 1]>>
    BY <1>1, <1>2, <2>2
  <2>5. Taken = {<<trail[i], trail[i + 1]>> : i \in 1 .. N - 1}
    BY DEF Taken, N
  <2> QED BY <2>1, <2>2, <2>3, <2>4, <2>5
<1> QED BY <1>2, <1>3, <1>4, <1>5 DEF N

\* Steps that leave the order, its log and the number of calls about to log.
LEMMA QuietStatus ==
  ASSUME StatusInv, OrderStatusTypeOK', UNCHANGED <<orderStatus, statusLog, trail, lost>>,
         \A u \in Updates : step'[u] = "log" <=> step[u] = "log",
         \A u \in Updates : step[u] = "log" => seen'[u] = seen[u],
         \A c \in Readers : step'[c] # "idle" => Visited(seen'[c]),
         cachedStatus' # NotCached => Visited(cachedStatus'),
         \A u \in Updates : step'[u] = "conflict" =>
            \/ seen'[u] # orderStatus
            \/ step[u] = "conflict" /\ seen'[u] = seen[u]
  PROVE  StatusInv'
<1>1. VisitInv'
  BY DEF StatusInv, VisitInv, Visited
<1>2. ConflictOutran'
  <2> SUFFICES ASSUME NEW u \in Updates, step'[u] = "conflict"
               PROVE  \E i \in 1 .. Len(trail) - 1 : trail[i] = seen'[u]
    BY DEF ConflictOutran
  <2>1. CASE seen'[u] # orderStatus
    <3>1. PICK i \in 1 .. Len(trail) : trail[i] = seen'[u]
      BY DEF Visited, Readers
    <3>2. trail \in Seq(Statuses) /\ trail[Len(trail)] = orderStatus
      BY DEF StatusInv, OrderStatusTypeOK
    <3>3. i \in 1 .. Len(trail) - 1
      BY <2>1, <3>1, <3>2
    <3> QED BY <3>1, <3>3
  <2>2. CASE step[u] = "conflict" /\ seen'[u] = seen[u]
    BY <2>2 DEF StatusInv, ConflictOutran
  <2> QED BY <2>1, <2>2
<1>3. Logging' = Logging /\ Taken' = Taken /\ Unlogged' = Unlogged
  BY DEF Logging, Taken, Unlogged
<1>4. \A u \in Logging : LogEntry(u)' = LogEntry(u)
  BY DEF Logging, LogEntry
<1>5. LogInv'
  BY <1>3, <1>4 DEF StatusInv, LogInv
<1> QED BY <1>1, <1>2, <1>5 DEF StatusInv

LEMMA LoggingFinite ==
  /\ IsFiniteSet(Logging) /\ Cardinality(Logging) \in Nat
BY OrderStatusAssumption, FS_Subset, FS_CardinalityType DEF Logging

LEMMA StatusFinite ==
  ASSUME OrderStatusTypeOK
  PROVE  IsFiniteSet(Unlogged)
<1>1. IsFiniteSet(Statuses)
  <2>1. 0 \in Int /\ 8 \in Int
    OBVIOUS
  <2>2. IsFiniteSet(0 .. 8)
    BY <2>1, FS_Interval, Zenon
  <2> QED BY <2>2 DEF Statuses
<1>2. IsFiniteSet(Statuses \X Statuses)
  BY <1>1, FS_Product
<1>3. Unlogged \subseteq Statuses \X Statuses
  BY DEF OrderStatusTypeOK, Unlogged, Taken
<1> QED BY <1>2, <1>3, FS_Subset

\* The order moves on, by a call that is to log it or by the cancellation.
LEMMA MoveStatus ==
  ASSUME StatusInv, OrderStatusTypeOK', NEW n \in Statuses, trail' = Append(trail, n),
         orderStatus' = n, orderStatus # Canceled, n = Canceled \/ n > orderStatus,
         UNCHANGED <<cachedStatus, seen, statusLog, lost>>,
         \A c \in Readers : step'[c] = "idle" <=> step[c] = "idle",
         \A u \in Updates : step'[u] = "conflict" => step[u] = "conflict",
         \/ n = Canceled /\ \A u \in Updates : step'[u] = "log" <=> step[u] = "log"
         \/ \E u \in Updates :
              /\ n # Canceled /\ n = NewStatus[u] /\ seen[u] = orderStatus
              /\ step[u] # "log"
              /\ step'[u] = "log" /\ \A v \in Updates \ {u} : step'[v] = step[v]
  PROVE  StatusInv'
<1>1. /\ Taken' = Taken \cup {<<orderStatus, n>>}
      /\ \A t \in Taken : t[2] # n
      /\ trail' \in Seq(Statuses) /\ trail'[Len(trail')] = n
      /\ \A i \in 1 .. Len(trail) : trail'[i] = trail[i] /\ trail[i] # n
      /\ Len(trail') = Len(trail) + 1
  BY NewStep DEF StatusInv
<1>2. Len(trail) \in Nat \ {0} /\ trail \in Seq(Statuses) /\ n \in Nat /\ orderStatus \in Nat
  BY DEF StatusInv, OrderStatusTypeOK, VisitInv, Statuses
<1>3. \A s : Visited(s) => Visited(s)'
  BY <1>1, <1>2 DEF Visited
<1>4. VisitInv'
  <2>1. n # Canceled => \A i \in 1 .. Len(trail') : trail'[i] \in 1 .. n
    BY <1>1, <1>2 DEF StatusInv, VisitInv, Canceled, Statuses
  <2>2. \A i \in 1 .. Len(trail') : trail'[i] = n => i = Len(trail')
    BY <1>1, <1>2
  <2>3. Len(trail') > 0
    BY <1>1, <1>2
  <2> QED BY <1>3, <2>1, <2>2, <2>3 DEF StatusInv, VisitInv
<1>5. ConflictOutran'
  BY <1>1, <1>2 DEF StatusInv, ConflictOutran
<1>6. /\ <<orderStatus, n>> \notin Taken /\ <<orderStatus, n>> \notin statusLog
      /\ <<orderStatus, n>> \notin Unlogged
  BY <1>1 DEF StatusInv, LogInv, Unlogged
<1>7. CASE n = Canceled /\ \A u \in Updates : step'[u] = "log" <=> step[u] = "log"
  <2>1. Logging' = Logging
    BY <1>7 DEF Logging
  <2>2. Unlogged' = Unlogged
    BY <1>1, <1>7 DEF Unlogged
  <2>3. LogInv'
    BY <1>1, <2>1, <2>2 DEF StatusInv, LogInv, LogEntry
  <2> QED BY <1>4, <1>5, <2>3 DEF StatusInv
<1>8. ASSUME NEW u \in Updates, n # Canceled, n = NewStatus[u], seen[u] = orderStatus,
             step[u] # "log", step'[u] = "log", \A v \in Updates \ {u} : step'[v] = step[v]
      PROVE  StatusInv'
  <2>1. Logging' = Logging \cup {u} /\ u \notin Logging
    BY <1>8 DEF Logging
  <2>2. Unlogged' = Unlogged \cup {<<orderStatus, n>>}
    BY <1>1, <1>6, <1>8 DEF Unlogged
  <2>3. /\ Cardinality(Logging \cup {u}) = Cardinality(Logging) + 1
    BY <2>1, LoggingFinite, FS_AddElement
  <2>4. IsFiniteSet(Unlogged)
    BY StatusFinite DEF StatusInv
  <2>5. Cardinality(Unlogged \cup {<<orderStatus, n>>}) = Cardinality(Unlogged) + 1
    BY <1>6, <2>4, FS_AddElement
  <2>6. Cardinality(Unlogged') = lost' + Cardinality(Logging')
    <3>1. /\ Cardinality(Unlogged) = lost + Cardinality(Logging) /\ lost' = lost
          /\ lost \in Nat
      BY DEF StatusInv, LogInv, OrderStatusTypeOK
    <3> QED BY <2>1, <2>2, <2>3, <2>5, <3>1, LoggingFinite
  <2>7. \A v \in Logging : NewStatus[v] # n
    BY <1>1 DEF StatusInv, LogInv, LogEntry, Unlogged
  <2>8. \A v \in Logging' : LogEntry(v)' \in Unlogged'
    BY <1>8, <2>1, <2>2 DEF StatusInv, LogInv, LogEntry
  <2>9. \A v, w \in Logging' : NewStatus[v] = NewStatus[w] => v = w
    BY <1>8, <2>1, <2>7 DEF StatusInv, LogInv
  <2>10. statusLog' \subseteq Taken'
    BY <1>1 DEF StatusInv, LogInv
  <2> QED BY <1>4, <1>5, <2>6, <2>8, <2>9, <2>10 DEF StatusInv, LogInv
<1> QED BY <1>7, <1>8

LEMMA FindStatus ==
  ASSUME StatusInv, NEW c \in Readers, FindOrder(c) \/ FillOrder(c)
  PROVE  StatusInv'
<1>1. /\ orderStatus \in Statuses /\ Visited(orderStatus)
      /\ \A d \in Readers : step[d] # "idle" => seen[d] \in Statuses /\ Visited(seen[d])
      /\ cachedStatus # NotCached => cachedStatus \in Statuses /\ Visited(cachedStatus)
      /\ trail \in Seq(Statuses) /\ Len(trail) > 0
  BY DEF StatusInv, OrderStatusTypeOK, VisitInv, Visited
<1>2. AfterFind(c) \in {"found", "idle"}
  BY DEF AfterFind
<1>3. step'[c] \in {"found", "idle", "fill"} /\ \A d \in Readers \ {c} : step'[d] = step[d]
  BY <1>2, StepPlace DEF FindOrder, FillOrder, StatusInv
<1>4. /\ seen'[c] \in Statuses /\ Visited(seen'[c])
      /\ \A d \in Readers \ {c} : seen'[d] = seen[d]
      /\ seen' \in [Readers -> Statuses \cup {NotCached}]
  BY <1>1 DEF FindOrder, FillOrder, Hit, See, StatusInv, OrderStatusTypeOK
<1>5. /\ cachedStatus' # NotCached => cachedStatus' \in Statuses /\ Visited(cachedStatus')
      /\ step[c] \in {"idle", "fill"}
      /\ UNCHANGED <<orderStatus, statusLog, trail, lost>>
  BY <1>1 DEF FindOrder, FillOrder, StatusInv, OrderStatusTypeOK
<1>6. OrderStatusTypeOK'
  <2>1. step' \in [Readers -> {"idle", "fill", "found", "log", "done", "rejected", "conflict"}]
    BY <1>2, <1>3 DEF FindOrder, FillOrder, Step, StatusInv, OrderStatusTypeOK
  <2> QED BY <1>3, <1>4, <1>5, <2>1 DEF StatusInv, OrderStatusTypeOK
<1> QED BY <1>1, <1>3, <1>4, <1>5, <1>6, QuietStatus DEF Readers

LEMMA CallStatus ==
  ASSUME StatusInv, NEW u \in Updates, Rejected(u) \/ Conflict(u) \/ Retry(u)
  PROVE  StatusInv'
<1>1. /\ u \in Readers /\ step[u] \in {"found", "conflict"}
      /\ step'[u] \in {"rejected", "conflict", "idle"}
      /\ step'[u] = "conflict" => seen[u] # orderStatus
      /\ \A d \in Readers \ {u} : step'[d] = step[d]
      /\ UNCHANGED <<orderStatus, cachedStatus, seen, statusLog, trail, lost>>
  BY StepPlace DEF Rejected, Conflict, Retry, Matches, StatusInv, Readers
<1>2. OrderStatusTypeOK'
  <2>1. step' \in [Readers -> {"idle", "fill", "found", "log", "done", "rejected", "conflict"}]
    BY <1>1 DEF Rejected, Conflict, Retry, Step, StatusInv, OrderStatusTypeOK
  <2> QED BY <1>1, <2>1 DEF StatusInv, OrderStatusTypeOK
<1> QED BY <1>1, <1>2, QuietStatus DEF StatusInv, VisitInv, Readers

LEMMA UpdateStatus ==
  ASSUME StatusInv, NEW u \in Updates, UpdateStatusIf(u)
  PROVE  StatusInv'
<1>1. /\ u \in Readers /\ step[u] = "found" /\ step'[u] = "log"
      /\ \A d \in Readers \ {u} : step'[d] = step[d]
      /\ orderStatus = seen[u] /\ orderStatus \in Statuses
      /\ NewStatus[u] \in Transitions(orderStatus)
  BY StepPlace DEF UpdateStatusIf, Matches, CanTransitionTo, StatusInv, OrderStatusTypeOK, Readers
<1>2. NewStatus[u] \in Statuses /\ NewStatus[u] > orderStatus /\ NewStatus[u] # Canceled
  BY <1>1, TableGrows
<1>3. orderStatus # Canceled
  BY <1>1 DEF Transitions, Canceled
<1>4. OrderStatusTypeOK'
  <2>1. step' \in [Readers -> {"idle", "fill", "found", "log", "done", "rejected", "conflict"}]
    BY DEF UpdateStatusIf, Step, StatusInv, OrderStatusTypeOK
  <2>2. trail' \in Seq(Statuses) /\ trail'[Len(trail')] = NewStatus[u]
    BY <1>2 DEF UpdateStatusIf, StatusInv, OrderStatusTypeOK
  <2> QED BY <1>1, <1>2, <2>1, <2>2 DEF UpdateStatusIf, StatusInv, OrderStatusTypeOK
<1> QED BY <1>1, <1>2, <1>3, <1>4, MoveStatus DEF UpdateStatusIf, Readers

LEMMA CancelStatus ==
  ASSUME StatusInv, CancelOrder
  PROVE  StatusInv'
<1>1. Canceled \in Statuses
  BY DEF Canceled, Statuses
<1>2. OrderStatusTypeOK'
  BY <1>1 DEF CancelOrder, StatusInv, OrderStatusTypeOK
<1> QED BY <1>1, <1>2, MoveStatus DEF CancelOrder

LEMMA LogStatus ==
  ASSUME StatusInv, NEW u \in Updates, InsertStatusLog(u)
  PROVE  StatusInv'
<1>1. /\ u \in Readers /\ step[u] = "log" /\ step'[u] = "done"
      /\ \A d \in Readers \ {u} : step'[d] = step[d]
      /\ UNCHANGED <<orderStatus, cachedStatus, seen, trail>>
  BY StepPlace DEF InsertStatusLog, StatusInv, Readers
<1>2. OrderStatusTypeOK'
  <2>1. step' \in [Readers -> {"idle", "fill", "found", "log", "done", "rejected", "conflict"}]
    BY DEF InsertStatusLog, Step, StatusInv, OrderStatusTypeOK
  <2>2. lost' \in 0 .. MaxLost
    BY OrderStatusAssumption DEF InsertStatusLog, StatusInv, OrderStatusTypeOK
  <2>3. LogEntry(u) \in Statuses \X Statuses
    BY <1>1, OrderStatusAssumption DEF LogEntry, StatusInv, OrderStatusTypeOK, Statuses, Readers
  <2> QED BY <1>1, <2>1, <2>2, <2>3 DEF InsertStatusLog, StatusInv, OrderStatusTypeOK
<1>3. VisitInv' /\ ConflictOutran'
  BY <1>1 DEF StatusInv, VisitInv, Visited, ConflictOutran, Readers
<1>4. /\ Logging' = Logging \ {u} /\ u \in Logging /\ Taken' = Taken
      /\ \A v \in Updates : LogEntry(v)' = LogEntry(v)
  BY <1>1 DEF Logging, Taken, LogEntry, Readers
<1>5. /\ LogEntry(u) \in Unlogged
      /\ \A v \in Logging : LogEntry(v) \in Unlogged
      /\ \A v \in Logging \ {u} : LogEntry(v) # LogEntry(u)
  BY <1>4 DEF StatusInv, LogInv, LogEntry
<1>6. /\ Cardinality(Logging \ {u}) = Cardinality(Logging) - 1
      /\ Cardinality(Logging) \in Nat
  BY <1>4, LoggingFinite, FS_RemoveElement
<1>7. /\ Cardinality(Unlogged) = lost + Cardinality(Logging)
      /\ lost \in Nat
  BY DEF StatusInv, LogInv, OrderStatusTypeOK
<1>8. CASE statusLog' = statusLog \cup {LogEntry(u)} /\ lost' = lost
  <2>1. Unlogged' = Unlogged \ {LogEntry(u)}
    BY <1>4, <1>8 DEF Unlogged
  <2>2. IsFiniteSet(Unlogged)
    BY StatusFinite DEF StatusInv
  <2>3. Cardinality(Unlogged \ {LogEntry(u)}) = Cardinality(Unlogged) - 1
    BY <1>5, <2>2, FS_RemoveElement
  <2>4. Cardinality(Unlogged') = lost' + Cardinality(Logging')
    BY <1>4, <1>6, <1>7, <1>8, <2>1, <2>3
  <2>5. statusLog' \subseteq Taken'
    BY <1>4, <1>5, <1>8 DEF StatusInv, LogInv, Unlogged
  <2>6. \A v \in Logging' : LogEntry(v)' \in Unlogged'
    BY <1>4, <1>5, <2>1 DEF Logging
  <2>7. \A v, w \in Logging' : NewStatus[v] = NewStatus[w] => v = w
    BY <1>4 DEF StatusInv, LogInv
  <2> QED BY <1>2, <1>3, <2>4, <2>5, <2>6, <2>7 DEF StatusInv, LogInv
<1>9. CASE statusLog' = statusLog /\ lost' = lost + 1
  <2>1. Unlogged' = Unlogged
    BY <1>4, <1>9 DEF Unlogged
  <2>2. Cardinality(Unlogged') = lost' + Cardinality(Logging')
    BY <1>4, <1>6, <1>7, <1>9, <2>1
  <2>3. \A v \in Logging' : LogEntry(v)' \in Unlogged'
    BY <1>4, <1>5, <2>1 DEF Logging
  <2>4. \A v, w \in Logging' : NewStatus[v] = NewStatus[w] => v = w
    BY <1>4 DEF StatusInv, LogInv
  <2>5. statusLog' \subseteq Taken'
    BY <1>4, <1>9 DEF StatusInv, LogInv
  <2> QED BY <1>2, <1>3, <2>2, <2>3, <2>4, <2>5 DEF StatusInv, LogInv
<1> QED BY <1>8, <1>9 DEF InsertStatusLog

LEMMA StatusKeeps == StatusInv /\ [OrderStatusNext]_statusVars => StatusInv'
<1> SUFFICES ASSUME StatusInv, [OrderStatusNext]_statusVars PROVE StatusInv'
  OBVIOUS
<1>1. CASE OrderExpires \/ UNCHANGED statusVars
  <2>1. /\ cachedStatus' \in {cachedStatus, NotCached}
        /\ step' = step /\ seen' = seen
        /\ UNCHANGED <<orderStatus, statusLog, trail, lost>>
    BY <1>1 DEF OrderExpires, statusVars
  <2>2. OrderStatusTypeOK'
    BY <2>1 DEF StatusInv, OrderStatusTypeOK
  <2>3. /\ \A c \in Readers : step'[c] # "idle" => Visited(seen'[c])
        /\ cachedStatus' # NotCached => Visited(cachedStatus')
    BY <2>1 DEF StatusInv, VisitInv
  <2> QED BY <2>1, <2>2, <2>3, QuietStatus
<1> QED BY <1>1, FindStatus, CallStatus, UpdateStatus, LogStatus, CancelStatus
        DEF OrderStatusNext

-----------------------------------------------------------------------------
(* The cart.  The unique key leaves at most one live and one deleted row;  *)
(* a call that found a row found it live, and what changed since is told by *)
(* the kinds of the calls that wrote since.                                *)

CartRowsOK ==
    /\ cart \in Seq(CartRow)
    /\ \A i, j \in DOMAIN cart : cart[i].deleted = cart[j].deleted => i = j

CallsOK ==
    /\ stage \in [CartCalls -> {"new", "found", "missing", "done", "refused"}]
    /\ item \in [CartCalls -> CartRow]
    /\ itemId \in [CartCalls -> 0 .. Len(cart)]
    /\ credited \in Nat /\ since \in [CartCalls -> SUBSET CartCalls]
    /\ outran \in BOOLEAN
    /\ \A c \in CartCalls : ~item[c].deleted
    /\ \A c \in CartCalls : itemId[c] = 0 /\ stage[c] = "found" => Kind[c] = "add"
    /\ \A c \in CartCalls : itemId[c] = 0 => item[c] = NewRow
    /\ \A c \in CartCalls : stage[c] = "new" => itemId[c] = 0

\* A row that was read live and is deleted was deleted since; a row that was
\* not read and is live was written since.
SinceInv ==
    \A c \in CartCalls : stage[c] = "found" =>
        /\ itemId[c] # 0 /\ cart[itemId[c]].deleted =>
             \E d \in since[c] : Kind[d] = "delete"
        /\ \A i \in LiveRows \ {itemId[c]} : \E d \in since[c] : Kind[d] # "delete"

DeleterInv ==
    \A i \in DOMAIN cart : cart[i].deleted =>
        \E d \in CartCalls : Kind[d] = "delete" /\ stage[d] = "done"

CartInv == CartRowsOK /\ CallsOK /\ SinceInv /\ DeleterInv /\ CartAddsUp /\ RefusedForCause

LEMMA CartInitInv == CartInit => CartInv
<1> SUFFICES ASSUME CartInit PROVE CartInv
  OBVIOUS
<1>1. cart \in Seq(CartRow) /\ DOMAIN cart = {} /\ LiveRows = {}
  BY DEF CartInit, LiveRows
<1>2. NewRow \in CartRow /\ ~NewRow.deleted
  BY DEF NewRow, CartRow
<1>3. CallsOK
  <2>1. Len(cart) = 0
    BY DEF CartInit
  <2>2. itemId \in [CartCalls -> 0 .. Len(cart)]
    BY <2>1 DEF CartInit
  <2> QED BY <1>2, <2>2 DEF CartInit, CallsOK
<1> QED BY <1>1, <1>3
        DEF CartInit, CartInv, CartRowsOK, SinceInv, DeleterInv, CartAddsUp, TotalCount,
            RefusedForCause

\* At most one row is live.
LEMMA OneLive ==
  ASSUME CartRowsOK
  PROVE  /\ DOMAIN cart = 1 .. Len(cart) /\ Len(cart) \in Nat
         /\ \A i \in LiveRows : LiveRows = {i} /\ TotalCount = cart[i].quantity
         /\ \A i \in DOMAIN cart : cart[i] \in CartRow
<1>1. /\ DOMAIN cart = 1 .. Len(cart) /\ Len(cart) \in Nat
      /\ \A i \in DOMAIN cart : cart[i] \in CartRow
  BY DEF CartRowsOK
<1>2. ASSUME NEW i \in LiveRows PROVE LiveRows = {i}
  BY <1>1 DEF CartRowsOK, LiveRows, CartRow
<1>3. ASSUME NEW i \in LiveRows PROVE TotalCount = cart[i].quantity
  <2>1. LiveRows = {i}
    BY <1>2
  <2>2. (CHOOSE j \in LiveRows : TRUE) = i
    BY <2>1
  <2> QED BY <2>1, <2>2 DEF TotalCount
<1> QED BY <1>1, <1>2, <1>3

LiveIsOne == CartRowsOK => /\ DOMAIN cart = 1 .. Len(cart)
                           /\ \A i \in LiveRows : LiveRows = {i} /\ TotalCount = cart[i].quantity

LEMMA OneLiveNext == LiveIsOne'
<1>1. LiveIsOne
  BY OneLive DEF LiveIsOne
<1> QED BY <1>1, PTL

\* The row a call writes is live exactly if the call is no deletion.
LEMMA ChangedRow ==
  ASSUME CallsOK, NEW c \in CartCalls
  PROVE  /\ Changed(c) \in CartRow
         /\ Changed(c).deleted <=> Kind[c] = "delete"
         /\ Kind[c] = "add" => Changed(c).quantity = item[c].quantity + Added(c)
         /\ Kind[c] = "update" => Changed(c).quantity = Updated(c, item[c].quantity)
         /\ Added(c) \in Nat /\ item[c].quantity \in Nat
         /\ \A q \in Nat : Updated(c, q) \in Nat
         /\ Kind[c] \in {"add", "update", "delete"}
<1>1. /\ Quantity[c] \in Nat /\ Kind[c] \in {"add", "update", "delete"}
      /\ item[c] \in CartRow /\ ~item[c].deleted
  BY CartAssumption DEF CallsOK
<1>2. Added(c) \in Nat /\ \A q \in Nat : Updated(c, q) \in Nat
  BY <1>1 DEF Added, Updated
<1>3. item[c].quantity \in Nat
  BY <1>1 DEF CartRow
<1>4. CASE Kind[c] = "add"
  BY <1>1, <1>2, <1>3, <1>4 DEF Changed, CartRow
<1>5. CASE Kind[c] = "update"
  BY <1>1, <1>2, <1>3, <1>5 DEF Changed, CartRow
<1>6. CASE Kind[c] = "delete"
  BY <1>1, <1>2, <1>3, <1>6 DEF Changed, CartRow
<1> QED BY <1>1, <1>2, <1>3, <1>4, <1>5, <1>6

\* Where a write leaves the rows.
LEMMA WrittenRows ==
  ASSUME CartRowsOK, CallsOK, NEW c \in CartCalls, ~Clashes(c), cart' = Written(c)
  PROVE  /\ CartRowsOK' /\ Len(cart') >= Len(cart) /\ Len(cart') \in Nat
         /\ \E w \in DOMAIN cart' :
              /\ cart'[w] = Changed(c)
              /\ IF itemId[c] = 0 THEN w = Len(cart) + 1 ELSE w = itemId[c]
              /\ \A i \in DOMAIN cart' \ {w} :
                   i \in DOMAIN cart /\ cart'[i] = cart[i]
                     /\ cart[i].deleted # Changed(c).deleted
              /\ DOMAIN cart \subseteq DOMAIN cart'
<1>1. /\ DOMAIN cart = 1 .. Len(cart) /\ Len(cart) \in Nat /\ cart \in Seq(CartRow)
      /\ itemId[c] \in 0 .. Len(cart) /\ Changed(c) \in CartRow
  BY OneLive, ChangedRow DEF CallsOK, CartRowsOK
<1>2. \A i \in DOMAIN cart : i # itemId[c] => cart[i].deleted # Changed(c).deleted
  BY DEF Clashes
<1>3. CASE itemId[c] = 0
  <2>1. cart' = Append(cart, Changed(c))
    BY <1>3 DEF Written
  <2>2. /\ cart' \in Seq(CartRow) /\ Len(cart') = Len(cart) + 1
        /\ DOMAIN cart' = 1 .. Len(cart) + 1
        /\ cart'[Len(cart) + 1] = Changed(c)
        /\ \A i \in DOMAIN cart : cart'[i] = cart[i]
    BY <1>1, <2>1
  <2>3. \A i \in DOMAIN cart' \ {Len(cart) + 1} : i \in DOMAIN cart /\ i # itemId[c]
    BY <1>1, <1>3, <2>2
  <2>4. Len(cart) + 1 \in DOMAIN cart' /\ DOMAIN cart \subseteq DOMAIN cart'
    BY <1>1, <2>2
  <2>5. CartRowsOK'
    BY <1>2, <2>2, <2>3 DEF CartRowsOK
  <2> QED BY <1>1, <1>2, <1>3, <2>2, <2>3, <2>4, <2>5
<1>4. CASE itemId[c] # 0
  <2>1. cart' = [cart EXCEPT ![itemId[c]] = Changed(c)] /\ itemId[c] \in DOMAIN cart
    BY <1>1, <1>4 DEF Written
  <2>2. /\ cart' \in Seq(CartRow) /\ Len(cart') = Len(cart) /\ DOMAIN cart' = DOMAIN cart
        /\ cart'[itemId[c]] = Changed(c)
        /\ \A i \in DOMAIN cart \ {itemId[c]} : cart'[i] = cart[i]
    BY <1>1, <2>1
  <2>3. CartRowsOK'
    BY <1>2, <2>1, <2>2 DEF CartRowsOK
  <2> QED BY <1>1, <1>2, <1>4, <2>1, <2>2, <2>3
<1> QED BY <1>3, <1>4

LEMMA ReadCart ==
  ASSUME CartInv, NEW c \in CartCalls, FindOneByUserAndProduct(c) \/ Refused(c)
  PROVE  CartInv'
<1>1. /\ UNCHANGED <<cart, credited, since, outran>>
      /\ stage[c] \in {"new", "found"}
      /\ \A d \in CartCalls \ {c} : stage'[d] = stage[d]
  BY DEF FindOneByUserAndProduct, Refused, Stage, CartInv, CallsOK
<1>2. DOMAIN cart = 1 .. Len(cart) /\ \A i \in DOMAIN cart : cart[i] \in CartRow
  BY OneLive DEF CartInv
<1>3. CallsOK'
  <2>1. CASE FindOneByUserAndProduct(c)
    <3>1. CallsOK /\ \A i \in Found : i \in 1 .. Len(cart) /\ i # 0
                        /\ cart[i] \in CartRow /\ ~cart[i].deleted
      BY <1>2 DEF CartInv, Found, LiveRows
    <3>2. ASSUME NEW i \in Found, item' = [item EXCEPT ![c] = cart[i]],
                 itemId' = [itemId EXCEPT ![c] = i], Stage(c, "found")
          PROVE  CallsOK'
      BY <1>1, <3>1, <3>2 DEF CallsOK, Stage
    <3>3. ASSUME Stage(c, IF Kind[c] = "add" THEN "found" ELSE "missing"),
                 UNCHANGED <<item, itemId>>
          PROVE  CallsOK'
      BY <1>1, <3>1, <3>3 DEF CallsOK, Stage
    <3> QED BY <2>1, <3>2, <3>3 DEF FindOneByUserAndProduct
  <2>2. CASE Refused(c)
    BY <2>2 DEF Refused, Stage, CartInv, CallsOK
  <2> QED BY <2>1, <2>2
<1>4. LiveRows' = LiveRows
  BY <1>1 DEF LiveRows
<1>5. SinceInv'
  <2>1. CASE FindOneByUserAndProduct(c)
    <3> SUFFICES ASSUME NEW d \in CartCalls, stage'[d] = "found"
                 PROVE  /\ itemId'[d] # 0 /\ cart[itemId'[d]].deleted =>
                             \E e \in since[d] : Kind[e] = "delete"
                        /\ \A i \in LiveRows \ {itemId'[d]} :
                             \E e \in since[d] : Kind[e] # "delete"
      BY <1>1, <1>4 DEF SinceInv
    <3>1. CASE d = c
      <4>1. CASE Found = {} /\ itemId' = itemId
        <5>1. LiveRows = {}
          BY <4>1 DEF Found
        <5>2. itemId[c] = 0
          BY <2>1 DEF FindOneByUserAndProduct, CartInv, CallsOK
        <5> QED BY <3>1, <4>1, <5>1, <5>2
      <4>2. ASSUME NEW i \in Found, itemId' = [itemId EXCEPT ![c] = i]
            PROVE  itemId'[c] = i /\ LiveRows = {i} /\ ~cart[i].deleted
        BY <4>2, OneLive DEF Found, LiveRows, CartInv, CallsOK
      <4> QED BY <2>1, <3>1, <4>1, <4>2 DEF FindOneByUserAndProduct
    <3>2. CASE d # c
      <4>1. itemId'[d] = itemId[d] /\ stage[d] = "found"
        BY <1>1, <2>1, <3>2 DEF FindOneByUserAndProduct, CartInv, CallsOK
      <4> QED BY <4>1 DEF CartInv, SinceInv
    <3> QED BY <3>1, <3>2
  <2>2. CASE Refused(c)
    <3>1. stage'[c] = "refused" /\ itemId' = itemId
      BY <2>2 DEF Refused, Stage, CartInv, CallsOK
    <3> QED BY <1>1, <1>4, <3>1 DEF CartInv, SinceInv
  <2> QED BY <2>1, <2>2
<1>6. CartRowsOK' /\ DeleterInv' /\ CartAddsUp'
  BY <1>1, <1>4 DEF CartInv, CartRowsOK, DeleterInv, CartAddsUp, TotalCount
<1>7. RefusedForCause'
  <2>1. CASE FindOneByUserAndProduct(c)
    <3>1. stage'[c] # "refused" /\ stage[c] = "new"
      BY <2>1 DEF FindOneByUserAndProduct, Stage, CartInv, CallsOK
    <3> QED BY <1>1, <3>1 DEF CartInv, RefusedForCause
  <2>2. CASE Refused(c)
    <3>1. PICK i \in DOMAIN cart : i # itemId[c] /\ cart[i].deleted = Changed(c).deleted
      BY <2>2 DEF Refused, Clashes
    <3>2. stage[c] = "found" /\ (Changed(c).deleted <=> Kind[c] = "delete")
      BY <2>2, ChangedRow DEF Refused, CartInv
    <3>3. Kind[c] = "delete" =>
            \E d \in CartCalls : Kind[d] = "delete" /\ stage[d] = "done"
      BY <3>1, <3>2 DEF CartInv, DeleterInv
    <3>4. Kind[c] # "delete" => \E d \in since[c] : Kind[d] # "delete"
      BY <3>1, <3>2 DEF CartInv, SinceInv, LiveRows
    <3> QED BY <1>1, <3>2, <3>3, <3>4 DEF CartInv, RefusedForCause
  <2> QED BY <2>1, <2>2
<1> QED BY <1>3, <1>5, <1>6, <1>7 DEF CartInv

\* Unless it overwrites what it did not read, a call changes the one live row.
LEMMA WriteAddsUp ==
  ASSUME CartInv, NEW c \in CartCalls, Write(c)
  PROVE  CartAddsUp'
<1> SUFFICES ASSUME ~outran' PROVE TotalCount' = credited'
  BY DEF CartAddsUp
<1>1. /\ stage[c] = "found" /\ ~outran /\ TotalCount = credited /\ credited \in Nat
      /\ itemId[c] # 0 => cart[itemId[c]] = item[c]
      /\ itemId[c] \in 0 .. Len(cart) /\ ~item[c].deleted
      /\ CartRowsOK /\ CallsOK
  BY DEF Write, CartInv, CartAddsUp, CallsOK
<1>2. /\ DOMAIN cart = 1 .. Len(cart)
      /\ \A i \in LiveRows : LiveRows = {i} /\ TotalCount = cart[i].quantity
  BY <1>1, OneLive
<1>3. PICK w \in DOMAIN cart' :
         /\ cart'[w] = Changed(c)
         /\ IF itemId[c] = 0 THEN w = Len(cart) + 1 ELSE w = itemId[c]
         /\ \A i \in DOMAIN cart' \ {w} :
              i \in DOMAIN cart /\ cart'[i] = cart[i] /\ cart[i].deleted # Changed(c).deleted
         /\ DOMAIN cart \subseteq DOMAIN cart'
  BY <1>1, WrittenRows DEF Write
<1>4. CartRowsOK'
  BY <1>1, WrittenRows DEF Write
<1>5. /\ DOMAIN cart' = 1 .. Len(cart')
      /\ \A i \in LiveRows' : LiveRows' = {i} /\ TotalCount' = cart'[i].quantity
  BY <1>4, OneLiveNext DEF LiveIsOne
<1>6. TotalCount = item[c].quantity
  <2>1. CASE itemId[c] = 0
    <3>1. item[c].quantity = 0 /\ Kind[c] = "add"
      BY <1>1, <2>1 DEF CallsOK, NewRow
    <3>2. LiveRows = {}
      <4> SUFFICES ASSUME NEW i \in LiveRows PROVE FALSE
        OBVIOUS
      <4>1. i \in DOMAIN cart /\ cart[i].deleted = FALSE /\ i # itemId[c]
        BY <1>1, <1>2, <2>1, OneLive DEF LiveRows, CartRow
      <4>2. Changed(c).deleted = FALSE
        BY <1>1, <3>1, ChangedRow DEF CartRow
      <4> QED BY <4>1, <4>2 DEF Write, Clashes
    <3> QED BY <3>1, <3>2 DEF TotalCount
  <2>2. CASE itemId[c] # 0
    <3>1. itemId[c] \in LiveRows
      BY <1>1, <1>2, <2>2 DEF LiveRows
    <3> QED BY <1>1, <1>2, <2>2, <3>1
  <2> QED BY <2>1, <2>2
<1>7. /\ Kind[c] = "add" => credited' = credited + Added(c)
      /\ Kind[c] = "update" => credited' = Updated(c, credited)
      /\ Kind[c] = "delete" => credited' = 0
  BY DEF Write
<1>8. CASE Kind[c] = "delete"
  <2>1. Changed(c).deleted
    BY <1>1, <1>8, ChangedRow
  <2>2. itemId[c] # 0
    BY <1>1, <1>8 DEF CallsOK
  <2>3. LiveRows = {itemId[c]}
    BY <1>1, <1>2, <2>2 DEF LiveRows
  <2>4. LiveRows' = {}
    <3> SUFFICES ASSUME NEW i \in LiveRows' PROVE FALSE
      OBVIOUS
    <3>1. i \in DOMAIN cart' /\ ~cart'[i].deleted /\ w = itemId[c]
      BY <1>3, <2>2 DEF LiveRows
    <3>2. i \in DOMAIN cart' \ {w}
      BY <1>3, <2>1, <3>1
    <3>3. i \in LiveRows
      BY <1>3, <3>1, <3>2 DEF LiveRows
    <3> QED BY <2>3, <3>1, <3>2, <3>3
  <2> QED BY <1>7, <1>8, <2>4 DEF TotalCount
<1>9. CASE Kind[c] # "delete"
  <2>1. ~Changed(c).deleted
    BY <1>1, <1>9, ChangedRow
  <2>2. w \in LiveRows'
    BY <1>3, <2>1 DEF LiveRows
  <2>3. TotalCount' = Changed(c).quantity
    BY <1>3, <1>5, <2>2
  <2> QED BY <1>1, <1>6, <1>7, <1>9, <2>3, ChangedRow
<1> QED BY <1>8, <1>9

\* Only a call that is no deletion gives a deleted row back, one that had
\* read it before a deletion.
LEMMA WriteRestores ==
  ASSUME CartInv, NEW c \in CartCalls, Write(c), NEW i \in DOMAIN cart,
         cart[i].deleted, ~cart'[i].deleted
  PROVE  itemId[c] = i /\ stage'[c] = "done" /\ \E d \in since[c] : Kind[d] = "delete"
<1>1. CartRowsOK /\ CallsOK /\ stage[c] = "found" /\ i # 0
  BY OneLive DEF Write, CartInv
<1>2. itemId[c] = i
  BY <1>1, WrittenRows, OneLive DEF Write
<1> QED BY <1>1, <1>2 DEF Write, Stage, CartInv, SinceInv, CallsOK

LEMMA WriteCart ==
  ASSUME CartInv, NEW c \in CartCalls, Write(c)
  PROVE  CartInv'
<1>1. /\ CartRowsOK /\ CallsOK /\ stage[c] = "found" /\ stage'[c] = "done"
      /\ \A d \in CartCalls \ {c} : stage'[d] = stage[d]
      /\ item' = item /\ itemId' = itemId
      /\ itemId[c] \in 0 .. Len(cart) /\ DOMAIN cart = 1 .. Len(cart) /\ Len(cart) \in Nat
  BY OneLive DEF Write, Stage, CartInv, CallsOK
<1>2. /\ Changed(c) \in CartRow /\ (Changed(c).deleted <=> Kind[c] = "delete")
      /\ Added(c) \in Nat /\ \A q \in Nat : Updated(c, q) \in Nat
  BY <1>1, ChangedRow
<1>3. CartRowsOK' /\ Len(cart') >= Len(cart) /\ Len(cart') \in Nat
  BY <1>1, WrittenRows DEF Write
<1>4. PICK w \in DOMAIN cart' :
         /\ cart'[w] = Changed(c)
         /\ IF itemId[c] = 0 THEN w = Len(cart) + 1 ELSE w = itemId[c]
         /\ \A i \in DOMAIN cart' \ {w} :
              i \in DOMAIN cart /\ cart'[i] = cart[i] /\ cart[i].deleted # Changed(c).deleted
         /\ DOMAIN cart \subseteq DOMAIN cart'
  BY <1>1, WrittenRows DEF Write
<1>5. \A d \in CartCalls : /\ since[d] \subseteq since'[d]
                           /\ d # c /\ stage[d] = "found" => c \in since'[d]
  BY DEF Write, CartInv, CallsOK
<1>6. CallsOK'
  <2>1. credited' \in Nat
    BY <1>1, <1>2, CartAssumption DEF Write, CallsOK
  <2>2. itemId' \in [CartCalls -> 0 .. Len(cart')]
    <3>1. 0 .. Len(cart) \subseteq 0 .. Len(cart')
      BY <1>1, <1>3
    <3> QED BY <1>1, <3>1 DEF CallsOK
  <2>3. /\ stage' \in [CartCalls -> {"new", "found", "missing", "done", "refused"}]
        /\ since' \in [CartCalls -> SUBSET CartCalls]
        /\ outran' \in BOOLEAN
    BY <1>1 DEF Write, Stage, CallsOK
  <2> QED BY <1>1, <2>1, <2>2, <2>3 DEF CallsOK
<1>7. SinceInv'
  <2> SUFFICES ASSUME NEW d \in CartCalls, stage'[d] = "found"
               PROVE  /\ itemId[d] # 0 /\ cart'[itemId[d]].deleted =>
                           \E e \in since'[d] : Kind[e] = "delete"
                      /\ \A i \in LiveRows' \ {itemId[d]} :
                           \E e \in since'[d] : Kind[e] # "delete"
    BY <1>1 DEF SinceInv
  <2>1. d # c /\ stage[d] = "found" /\ c \in since'[d] /\ itemId[d] \in 0 .. Len(cart)
    BY <1>1, <1>5 DEF CallsOK
  <2>2. ASSUME itemId[d] # 0, cart'[itemId[d]].deleted
        PROVE  \E e \in since'[d] : Kind[e] = "delete"
    <3>1. itemId[d] \in DOMAIN cart /\ itemId[d] \in DOMAIN cart'
      BY <1>1, <1>4, <2>1, <2>2
    <3>2. CASE itemId[d] = w
      BY <1>2, <1>4, <2>1, <2>2, <3>2
    <3>3. CASE itemId[d] # w
      BY <1>4, <1>5, <2>1, <2>2, <3>1, <3>3 DEF CartInv, SinceInv
    <3> QED BY <3>2, <3>3
  <2>3. ASSUME NEW i \in LiveRows' \ {itemId[d]}
        PROVE  \E e \in since'[d] : Kind[e] # "delete"
    <3>1. i \in DOMAIN cart' /\ ~cart'[i].deleted
      BY DEF LiveRows
    <3>2. CASE i = w
      BY <1>2, <1>4, <2>1, <3>1, <3>2
    <3>3. CASE i # w
      BY <1>4, <1>5, <2>1, <2>3, <3>1, <3>3 DEF CartInv, SinceInv, LiveRows
    <3> QED BY <3>2, <3>3
  <2> QED BY <2>2, <2>3
<1>8. DeleterInv'
  <2>1. \A d \in CartCalls : stage[d] = "done" => stage'[d] = "done"
    BY <1>1
  <2>2. ASSUME NEW i \in DOMAIN cart', cart'[i].deleted
        PROVE  \E d \in CartCalls : Kind[d] = "delete" /\ stage'[d] = "done"
    <3>1. CASE i = w
      BY <1>1, <1>2, <1>4, <2>2, <3>1
    <3>2. CASE i # w
      BY <1>4, <2>1, <2>2, <3>2 DEF CartInv, DeleterInv
    <3> QED BY <3>1, <3>2
  <2> QED BY <2>2 DEF DeleterInv
<1>9. RefusedForCause'
  <2>1. \A d \in CartCalls : /\ stage[d] = "done" => stage'[d] = "done"
                             /\ stage'[d] = "refused" => stage[d] = "refused"
    BY <1>1
  <2> QED BY <1>5, <2>1 DEF CartInv, RefusedForCause
<1> QED BY <1>3, <1>6, <1>7, <1>8, <1>9, WriteAddsUp DEF CartInv

LEMMA CartKeeps == CartInv /\ [CartNext]_cartVars => CartInv'
<1> SUFFICES ASSUME CartInv, [CartNext]_cartVars PROVE CartInv'
  OBVIOUS
<1>1. CASE UNCHANGED cartVars
  BY <1>1 DEF cartVars, CartInv, CartRowsOK, CallsOK, SinceInv, DeleterInv, CartAddsUp,
              TotalCount, LiveRows, RefusedForCause
<1> QED BY <1>1, ReadCart, WriteCart DEF CartNext

\* The two rows a cart can have, counted.
LEMMA CartRowsCount ==
  ASSUME CartRowsOK
  PROVE  Len(cart) <= 2 /\ Cardinality(LiveRows) <= 1
<1>1. DOMAIN cart = 1 .. Len(cart) /\ Len(cart) \in Nat
  BY OneLive
<1>2. ASSUME Len(cart) > 2 PROVE FALSE
  <2>1. 1 \in DOMAIN cart /\ 2 \in DOMAIN cart /\ 3 \in DOMAIN cart
    BY <1>1, <1>2
  <2>2. \A i \in {1, 2, 3} : cart[i].deleted \in BOOLEAN
    BY <2>1, OneLive DEF CartRow
  <2> QED BY <2>1, <2>2 DEF CartRowsOK
<1>3. Cardinality(LiveRows) <= 1
  <2>1. CASE LiveRows = {}
    BY <2>1, FS_EmptySet
  <2>2. CASE \E i \in LiveRows : TRUE
    <3>1. PICK i \in LiveRows : LiveRows = {i}
      BY <2>2, OneLive
    <3> QED BY <3>1, FS_Singleton
  <2> QED BY <2>1, <2>2
<1> QED BY <1>1, <1>2, <1>3

-----------------------------------------------------------------------------
(* The addresses.  The version has been incremented at most once per call   *)
(* that is over; a version that was never current has no list and no       *)
(* lister; a transaction on the default holds the default there is.        *)

Rows == Row \cup {NoRow}
Places == {"idle", "fill", "select", "commit", "write", "drop", "bump", "listed", "done"}
Over == {c \in Calls : at[c] = "done"}
Changing == \E c \in Calls : at[c] \in {"drop", "bump"}

AddressBase ==
    /\ address \in [AddressIds -> Rows] /\ entry \in [AddressIds -> Rows]
    /\ version \in Nat /\ version <= Cardinality(Over)
    /\ list \in [Versions -> SUBSET Lists]
    /\ at \in [Clients -> Places]
    /\ read \in [Finders -> Rows]
    /\ key \in [Listers -> Versions] /\ rows \in [Listers -> Lists]
    /\ old \in [Calls -> AddressIds \cup {NoAddress}]
    /\ overlap \in BOOLEAN
    /\ issued \in Versions /\ reused \subseteq Versions
    /\ passed \subseteq AddressIds
    /\ addressFaults \in 0 .. MaxFaults

\* A call that found its address acts on a row that is there, one that adds
\* on an id that is not there yet.
SubjectInv ==
    \A c \in Calls :
        /\ Op[c] # "add" /\ at[c] # "idle" => Exists(Subject[c])
        /\ Op[c] = "add" /\ at[c] = "commit" => ~Exists(Subject[c])
        /\ at[c] \in {"fill", "select", "write"} => Op[c] # "add"

DefaultInv ==
    ~overlap =>
        /\ \A a, b \in Defaults : a = b
        /\ \A c \in Calls : at[c] = "commit" =>
             /\ Defaults \subseteq {old[c]}
             /\ \A d \in Calls : at[d] = "commit" => d = c

VersionInv ==
    /\ Current <= issued
    /\ \A v \in Versions : v > issued => list[v] = {}
    /\ \A l \in Listers : key[l] <= issued
    /\ \A l \in Listers : at[l] = "listed" /\ key[l] = Current /\ rows[l] # TheList
                            => Current \in reused \/ Changing

AddressInv ==
    AddressBase /\ SubjectInv /\ DefaultInv /\ VersionInv /\ ListCurrent /\ EntryCurrent

\* The rows of addresses.
LEMMA RowShape ==
  /\ NoRow \notin Row /\ NoRow.deleted = TRUE /\ NoRow.default = FALSE
  /\ \A r \in Rows : r.deleted \in BOOLEAN /\ r.default \in BOOLEAN
  /\ \A x \in BOOLEAN, y \in BOOLEAN : [default |-> x, deleted |-> y] \in Row
<1>1. NoRow \notin Row
  <2>1. \A r \in Row : DOMAIN r = {"default", "deleted"}
    BY DEF Row
  <2>2. DOMAIN NoRow = {"default", "deleted", "none"}
    BY DEF NoRow
  <2> QED BY <2>1, <2>2
<1>2. NoRow.deleted = TRUE /\ NoRow.default = FALSE
  BY DEF NoRow
<1> QED BY <1>1, <1>2 DEF Row, Rows

\* A row that is cancelled as the default, or marked as deleted.
Undefault(r) == [r EXCEPT !.default = FALSE]
Remove(r) == [r EXCEPT !.deleted = TRUE]

LEMMA RowChange ==
  ASSUME NEW r \in Rows
  PROVE  /\ Undefault(r) \in Rows /\ Remove(r) \in Rows
         /\ Undefault(r).deleted = r.deleted
         /\ Undefault(r).default = FALSE
         /\ Remove(r).deleted = TRUE
         /\ r = NoRow <=> Undefault(r) = NoRow
         /\ r = NoRow <=> Remove(r) = NoRow
<1>1. CASE r = NoRow
  <2> DEFINE Wide == [default : BOOLEAN, deleted : BOOLEAN, none : BOOLEAN]
  <2>0. /\ NoRow \in Wide
        /\ NoRow.deleted = TRUE /\ NoRow.default = FALSE /\ NoRow.none = TRUE
    BY DEF NoRow
  <2>1. ASSUME NEW e \in Wide, e.deleted = TRUE, e.default = FALSE, e.none = TRUE
        PROVE  e = NoRow
    BY <2>1 DEF NoRow
  <2>2. /\ [NoRow EXCEPT !.default = FALSE] = NoRow
        /\ [NoRow EXCEPT !.deleted = TRUE] = NoRow
    BY <2>0, <2>1
  <2> QED BY <1>1, <2>2, RowShape DEF Rows, Undefault, Remove
<1>2. CASE r \in Row
  <2>1. Undefault(r) \in Row /\ Remove(r) \in Row
    BY <1>2 DEF Row, Undefault, Remove
  <2>2. /\ Undefault(r).deleted = r.deleted
        /\ Undefault(r).default = FALSE
        /\ Remove(r).deleted = TRUE
    BY <1>2 DEF Row, Undefault, Remove
  <2> QED BY <1>2, <2>1, <2>2, RowShape DEF Rows, Undefault, Remove
<1> QED BY <1>1, <1>2 DEF Rows

LEMMA AddressConstants ==
  /\ Calls \subseteq Clients /\ Listers \subseteq Clients /\ Calls \cap Listers = {}
  /\ Finders \subseteq Calls
  /\ \A c \in Calls : Subject[c] \in AddressIds /\ Op[c] \in {"add", "edit", "delete"}
  /\ \A c \in Finders : Op[c] \in {"edit", "delete"}
  /\ Cardinality(Calls) \in Nat /\ 1 \in Versions
BY AddressAssumption, FS_CardinalityType DEF Clients, Finders, Versions

\* How many calls are over.
LEMMA OverCount ==
  /\ IsFiniteSet(Over) /\ Cardinality(Over) \in Nat
  /\ Cardinality(Over) <= Cardinality(Calls)
  /\ \A c \in Calls \ Over : /\ Cardinality(Over \cup {c}) = Cardinality(Over) + 1
                             /\ Cardinality(Over \cup {c}) <= Cardinality(Calls)
<1>1. IsFiniteSet(Calls) /\ Over \subseteq Calls
  BY AddressAssumption DEF Over
<1>2. IsFiniteSet(Over) /\ Cardinality(Over) \in Nat /\ Cardinality(Over) <= Cardinality(Calls)
  BY <1>1, FS_Subset, FS_CardinalityType
<1>3. ASSUME NEW c \in Calls \ Over
      PROVE  /\ Cardinality(Over \cup {c}) = Cardinality(Over) + 1
             /\ Cardinality(Over \cup {c}) <= Cardinality(Calls)
  <2>1. Over \cup {c} \in SUBSET Calls
    BY <1>1
  <2>2. Cardinality(Over \cup {c}) <= Cardinality(Calls)
    BY <1>1, <2>1, FS_Subset
  <2>3. Cardinality(Over \cup {c}) = Cardinality(Over) + 1
    BY <1>2, FS_AddElement
  <2> QED BY <2>2, <2>3
<1> QED BY <1>2, <1>3

LEMMA MovePlace ==
  ASSUME AddressBase, NEW c \in Clients, NEW spot \in Places, Move(c, spot)
  PROVE  /\ at' \in [Clients -> Places]
         /\ at'[c] = spot /\ \A d \in Clients \ {c} : at'[d] = at[d]
BY DEF AddressBase, Move

\* The version that is current is one there is a list for.
LEMMA CurrentVersion ==
  ASSUME AddressBase
  PROVE  /\ Current \in Versions /\ version <= Cardinality(Calls)
         /\ Incremented \in Versions /\ Incremented \in Nat
<1>1. version \in Nat /\ version <= Cardinality(Calls)
  <2>1. version \in Nat /\ version <= Cardinality(Over)
    BY DEF AddressBase
  <2> QED BY <2>1, OverCount, AddressConstants
<1> QED BY <1>1, AddressConstants DEF Current, Incremented, Versions

LEMMA AddressInitInv == AddressInit => AddressInv
<1> SUFFICES ASSUME AddressInit PROVE AddressInv
  OBVIOUS
<1>1. Over = {} /\ Cardinality({}) = 0
  BY FS_EmptySet DEF AddressInit, Over, Clients
<1>2. AddressBase
  <2>1. address \in [AddressIds -> Rows]
    BY RowShape DEF AddressInit, Rows, Row
  <2>2. 0 \in Nat /\ 0 <= Cardinality(Over) /\ 0 \in 0 .. MaxFaults
    BY <1>1, AddressAssumption
  <2>3. list \in [Versions -> SUBSET Lists] /\ rows \in [Listers -> Lists]
    BY DEF AddressInit, Lists
  <2> QED BY <2>1, <2>2, <2>3, AddressConstants DEF AddressInit, AddressBase, Rows, Places
<1>3. DefaultInv
  <2>1. \A c \in Calls : at[c] # "commit"
    BY DEF AddressInit, Clients
  <2>2. ASSUME NEW a \in Defaults, NEW b \in Defaults PROVE a = b
    <3>1. IsFiniteSet(Defaults)
      <4>1. IsFiniteSet(Owned) /\ Defaults \subseteq Owned
        BY AddressAssumption DEF AddressInit, Defaults, Live
      <4> QED BY <4>1, FS_Subset
    <3>2. Cardinality(Defaults) \in Nat /\ Cardinality(Defaults) <= 1
      BY <3>1, FS_CardinalityType DEF AddressInit
    <3>3. Cardinality(Defaults) = 0 \/ Cardinality(Defaults) = 1
      BY <3>2
    <3>4. \E x : Defaults = {x}
      BY <3>1, <3>3, FS_EmptySet, FS_Singleton
    <3> QED BY <3>4
  <2> QED BY <2>1, <2>2 DEF DefaultInv
<1>4. \A c \in Clients : at[c] = "idle"
  BY DEF AddressInit
<1>5. SubjectInv
  BY <1>4 DEF SubjectInv, Clients
<1>6. Current = 1 /\ issued = 1 /\ \A v \in Versions : list[v] = {}
  BY DEF AddressInit, Current
<1>7. VersionInv
  BY <1>4, <1>6 DEF VersionInv, Clients, AddressInit
<1>8. ListCurrent /\ EntryCurrent
  BY <1>6, AddressConstants DEF ListCurrent, EntryCurrent, AddressInit
<1> QED BY <1>2, <1>3, <1>5, <1>7, <1>8 DEF AddressInv
\* What a commit makes of the rows.
LEMMA CommitRows ==
  ASSUME AddressBase, NEW c \in Calls, Commit(c)
  PROVE  /\ address' \in [AddressIds -> Rows]
         /\ address'[Subject[c]] =
              [default |-> TRUE,
               deleted |-> IF Op[c] = "add" THEN FALSE ELSE address[Subject[c]].deleted]
         /\ \A a \in AddressIds \ {Subject[c], old[c]} : address'[a] = address[a]
         /\ \A a \in AddressIds \ {Subject[c]} :
              /\ address'[a].deleted = address[a].deleted
              /\ a = old[c] => address'[a].default = FALSE
              /\ address[a] = NoRow <=> address'[a] = NoRow
         /\ address'[Subject[c]] # NoRow
<1> DEFINE s == Subject[c]
           new == [default |-> TRUE,
                   deleted |-> IF Op[c] = "add" THEN FALSE ELSE address[s].deleted]
<1>1. s \in AddressIds /\ address \in [AddressIds -> Rows] /\ old[c] \in AddressIds \cup {NoAddress}
  BY AddressConstants DEF AddressBase
<1>2. new \in Row
  BY <1>1, RowShape
<1>3. \A a \in AddressIds :
        Cancelled(c)[a] = IF a = old[c] THEN Undefault(address[a]) ELSE address[a]
  BY <1>1, AddressAssumption DEF Cancelled, Undefault
<1>4. /\ Cancelled(c) \in [AddressIds -> Rows]
      /\ \A a \in AddressIds :
           /\ Cancelled(c)[a].deleted = address[a].deleted
           /\ a = old[c] => Cancelled(c)[a].default = FALSE
           /\ address[a] = NoRow <=> Cancelled(c)[a] = NoRow
  <2>1. \A a \in AddressIds : Cancelled(c)[a] \in Rows
    BY <1>1, <1>3, RowChange
  <2>2. Cancelled(c) = [a \in AddressIds |-> Cancelled(c)[a]]
    BY <1>1 DEF Cancelled
  <2>3. Cancelled(c) \in [AddressIds -> Rows]
    BY <2>1, <2>2, Zenon
  <2>4. ASSUME NEW a \in AddressIds
        PROVE  /\ Cancelled(c)[a].deleted = address[a].deleted
               /\ a = old[c] => Cancelled(c)[a].default = FALSE
               /\ address[a] = NoRow <=> Cancelled(c)[a] = NoRow
    <3>1. address[a] \in Rows
      BY <1>1
    <3>2. CASE a = old[c]
      <4>1. Cancelled(c)[a] = Undefault(address[a])
        BY <1>3, <3>2
      <4> QED BY <3>1, <4>1, RowChange
    <3>3. CASE a # old[c]
      BY <1>3, <3>3
    <3> QED BY <3>2, <3>3
  <2> QED BY <2>3, <2>4
<1>5. address' = [Cancelled(c) EXCEPT ![s] = new]
  BY DEF Commit
<1> HIDE DEF s, new
<1>6. address'[s] = new /\ \A a \in AddressIds \ {s} : address'[a] = Cancelled(c)[a]
  BY <1>1, <1>4, <1>5
<1>7. address' \in [AddressIds -> Rows] /\ new # NoRow
  BY <1>1, <1>2, <1>4, <1>5, RowShape DEF Rows
<1> QED BY <1>3, <1>4, <1>6, <1>7 DEF s, new

\* A statement on the row of one address.
LEMMA OneRow ==
  ASSUME AddressBase, NEW c \in Calls, Insert(c) \/ Update(c) \/ UpdateIsDelete(c)
  PROVE  /\ address' \in [AddressIds -> Rows]
         /\ \A a \in AddressIds \ {Subject[c]} : address'[a] = address[a]
         /\ Insert(c) => address'[Subject[c]] = [default |-> FALSE, deleted |-> FALSE]
         /\ Update(c) => address'[Subject[c]] = [default |-> FALSE, deleted |-> read[c].deleted]
         /\ UpdateIsDelete(c) => address'[Subject[c]] = Remove(address[Subject[c]])
         /\ address[Subject[c]] # NoRow => address'[Subject[c]] # NoRow
         /\ address'[Subject[c]].deleted \/ ~address'[Subject[c]].default
<1>1. Subject[c] \in AddressIds /\ address \in [AddressIds -> Rows]
  BY AddressConstants DEF AddressBase
<1>2. address[Subject[c]] \in Rows
  BY <1>1
<1>3. CASE Insert(c)
  <2>1. [default |-> FALSE, deleted |-> FALSE] \in Row
    BY RowShape
  <2>2. ~Update(c) /\ ~UpdateIsDelete(c)
    BY <1>3 DEF Insert, Update, UpdateIsDelete
  <2> QED BY <1>1, <1>3, <2>1, <2>2, RowShape DEF Insert, Rows
<1>4. CASE Update(c)
  <2>1. read[c] \in Rows
    BY <1>4 DEF Update, AddressBase, Finders
  <2>2. [default |-> FALSE, deleted |-> read[c].deleted] \in Row
    BY <2>1, RowShape
  <2>3. ~Insert(c) /\ ~UpdateIsDelete(c)
    BY <1>4 DEF Insert, Update, UpdateIsDelete
  <2> QED BY <1>1, <1>4, <2>2, <2>3, RowShape DEF Update, EditedRow, Rows
<1>5. CASE UpdateIsDelete(c)
  <2>1. address' = [address EXCEPT ![Subject[c]] = Remove(address[Subject[c]])]
    BY <1>5 DEF UpdateIsDelete, Remove
  <2>2. ~Insert(c) /\ ~Update(c)
    BY <1>5 DEF Insert, Update, UpdateIsDelete
  <2> QED BY <1>1, <1>2, <1>5, <2>1, <2>2, RowChange
<1> QED BY <1>3, <1>4, <1>5

\* A client moves, and its call is not over.
LEMMA StaysOpen ==
  ASSUME AddressBase, NEW c \in Clients, at[c] # "done", NEW spot \in Places,
         spot # "done", Move(c, spot)
  PROVE  Over' = Over
BY MovePlace DEF Over, Clients

LEMMA BaseFind ==
  ASSUME AddressBase, NEW c \in Finders, FindOne(c) \/ FillEntry(c)
  PROVE  AddressBase'
<1>1. c \in Calls /\ c \in Clients /\ Subject[c] \in AddressIds
  BY AddressConstants
<1>2. Answer(c) \subseteq Places \ {"done"} /\ "fill" \in Places
  BY DEF Answer, Places
<1>3. PICK spot \in Places \ {"done"} : Move(c, spot)
  BY <1>2 DEF FindOne, FillEntry
<1>4. at' \in [Clients -> Places] /\ Over' = Over
  BY <1>1, <1>3, MovePlace, StaysOpen DEF FindOne, FillEntry
<1>5. entry' \in [AddressIds -> Rows] /\ read' \in [Finders -> Rows] /\ passed' \subseteq AddressIds
  BY <1>1 DEF FindOne, FillEntry, AddressBase, cacheVars, addressHistory
<1> QED BY <1>4, <1>5
        DEF FindOne, FillEntry, AddressBase, cacheVars, addressHistory

LEMMA BaseChange ==
  ASSUME AddressBase, NEW c \in Calls,
         SelectOld(c) \/ Commit(c) \/ Insert(c) \/ Update(c) \/ UpdateIsDelete(c) \/ DropList(c)
  PROVE  AddressBase'
<1>1. c \in Clients /\ Subject[c] \in AddressIds
  BY AddressConstants
<1>2. Afterwards(c) \in Places \ {"done"}
  BY DEF Afterwards, Places
<1>3. \E spot \in Places \ {"done"} : at[c] # "done" /\ Move(c, spot)
  BY <1>2 DEF SelectOld, Begins, Commit, Insert, Update, UpdateIsDelete, DropList, Places
<1>4. at' \in [Clients -> Places] /\ Over' = Over
  BY <1>1, <1>3, MovePlace, StaysOpen
<1>5. address' \in [AddressIds -> Rows]
  BY CommitRows, OneRow DEF SelectOld, DropList, AddressBase
<1>6. passed' \subseteq AddressIds /\ entry' \in [AddressIds -> Rows]
  BY <1>1 DEF SelectOld, Commit, Insert, Update, UpdateIsDelete, DropList, Passed, EditedEntry,
              Rows, AddressBase, cacheVars, addressHistory
<1>7. old' \in [Calls -> AddressIds \cup {NoAddress}] /\ overlap' \in BOOLEAN
  BY DEF SelectOld, Defaults, Live, Commit, Insert, Update, UpdateIsDelete, DropList,
         AddressBase, addressHistory
<1>8. list' \in [Versions -> SUBSET Lists]
  BY CurrentVersion DEF SelectOld, Commit, Insert, Update, UpdateIsDelete, DropList,
         AddressBase, cacheVars
<1>9. UNCHANGED <<version, read, key, rows, issued, reused, addressFaults>>
  BY DEF SelectOld, Commit, Insert, Update, UpdateIsDelete, DropList, cacheVars, addressHistory
<1> QED BY <1>4, <1>5, <1>6, <1>7, <1>8, <1>9 DEF AddressBase

LEMMA BaseEnd ==
  ASSUME AddressBase, NEW c \in Calls, IncVersion(c) \/ HandlerDies(c)
  PROVE  AddressBase' /\ Over' = Over \cup {c} /\ c \notin Over
<1>1. c \in Clients /\ "done" \in Places /\ Current \in Versions /\ Incremented \in Versions
  BY AddressConstants, CurrentVersion DEF Places
<1>2. at' \in [Clients -> Places] /\ at'[c] = "done" /\ \A d \in Clients \ {c} : at'[d] = at[d]
  BY <1>1, MovePlace DEF IncVersion, HandlerDies
<1>3. Over' = Over \cup {c} /\ c \notin Over
  BY <1>2 DEF IncVersion, HandlerDies, Over, Clients
<1>4. version' \in Nat /\ version' <= Cardinality(Over')
  <2>1. version \in Nat /\ version <= Cardinality(Over)
    BY DEF AddressBase
  <2>2. version' \in {version, version + 1}
    BY DEF IncVersion, HandlerDies, Incremented, cacheVars
  <2>3. Cardinality(Over \cup {c}) = Cardinality(Over) + 1 /\ Cardinality(Over) \in Nat
    BY <1>3, OverCount
  <2> QED BY <1>3, <2>1, <2>2, <2>3
<1>5. addressFaults' \in 0 .. MaxFaults
  BY AddressAssumption DEF IncVersion, HandlerDies, AddressFault, AddressBase
<1>6. list' \in [Versions -> SUBSET Lists] /\ issued' \in Versions /\ reused' \subseteq Versions
  BY <1>1 DEF IncVersion, HandlerDies, AddressBase, cacheVars
<1>7. UNCHANGED <<address, entry, read, key, rows, old, overlap, passed>>
  BY DEF IncVersion, HandlerDies, cacheVars
<1> QED BY <1>2, <1>3, <1>4, <1>5, <1>6, <1>7 DEF AddressBase

LEMMA BaseList ==
  ASSUME AddressBase, NEW l \in Listers, FindAllByUid(l) \/ SelectList(l) \/ FillList(l)
  PROVE  AddressBase' /\ \A d \in Clients \ {l} : at'[d] = at[d]
<1>1. l \in Clients /\ l \notin Calls /\ Current \in Versions /\ 1 \in Versions
  BY AddressConstants, CurrentVersion
<1>2. at' \in [Clients -> Places] /\ \A d \in Clients \ {l} : at'[d] = at[d]
  BY <1>1, MovePlace DEF FindAllByUid, SelectList, FillList, Places
<1>3. Over' = Over
  BY <1>1, <1>2 DEF Over, Clients
<1>4. TheList \in Lists
  <2>1. \A a \in Live : a \in AddressIds /\ address[a].default \in BOOLEAN
    BY RowShape DEF AddressBase, Live
  <2> QED BY <2>1 DEF TheList, Lists
<1>5. addressFaults' \in 0 .. MaxFaults
  BY AddressAssumption
     DEF FindAllByUid, SelectList, FillList, AddressFault, AddressBase
<1>6. /\ key' \in [Listers -> Versions] /\ rows' \in [Listers -> Lists]
      /\ list' \in [Versions -> SUBSET Lists] /\ reused' \subseteq Versions
  BY <1>1, <1>4 DEF FindAllByUid, SelectList, FillList, AddressBase, cacheVars, addressHistory
<1>7. UNCHANGED <<address, entry, version, read, old, overlap, issued, passed>>
  BY DEF FindAllByUid, SelectList, FillList, cacheVars, addressHistory
<1> QED BY <1>2, <1>3, <1>5, <1>6, <1>7 DEF AddressBase

LEMMA BaseExpires ==
  ASSUME AddressBase,
         VersionExpires \/ (\E a \in AddressIds : EntryExpires(a)) \/ UNCHANGED addressVars
  PROVE  AddressBase' /\ at' = at
<1>1. at' = at /\ Over' = Over
  BY DEF VersionExpires, EntryExpires, addressVars, clientVars, Over
<1>2. version' \in Nat /\ version' <= Cardinality(Over)
  BY OverCount DEF VersionExpires, EntryExpires, addressVars, cacheVars, AddressBase
<1>3. /\ entry' \in [AddressIds -> Rows]
      /\ passed' \subseteq AddressIds /\ reused' \subseteq Versions
  BY AddressConstants
     DEF VersionExpires, EntryExpires, addressVars, cacheVars, addressHistory, AddressBase, Rows
<1>4. UNCHANGED <<address, list, read, key, rows, old, overlap, issued, addressFaults>>
  BY DEF VersionExpires, EntryExpires, addressVars, cacheVars, clientVars, addressHistory
<1> QED BY <1>1, <1>2, <1>3, <1>4 DEF AddressBase

-----------------------------------------------------------------------------
\* The calls that leave the rows of addresses alone.
Keeps(c) == address' = address /\ \A d \in Calls \ {c} : at'[d] = at[d]

LEMMA KeepingSteps ==
  ASSUME AddressBase, NEW c \in Calls,
         \/ FindOne(c) \/ FillEntry(c) \/ SelectOld(c) \/ DropList(c) \/ IncVersion(c)
         \/ HandlerDies(c)
  PROVE  /\ Keeps(c)
         /\ at[c] \in Places \ {"done", "listed"} /\ at'[c] \in Places \ {"idle", "listed"}
         /\ FindOne(c) => at[c] = "idle" /\ at'[c] \in {"fill", "select", "write"}
         /\ FillEntry(c) => at[c] = "fill" /\ at'[c] \in {"select", "write"}
         /\ SelectOld(c) => at[c] \in {"idle", "select"} /\ at'[c] = "commit"
         /\ DropList(c) => at[c] = "drop" /\ at'[c] = "bump"
         /\ IncVersion(c) => at[c] = "bump" /\ at'[c] = "done"
         /\ HandlerDies(c) => at[c] # "idle" /\ at'[c] = "done"
<1>1. c \in Clients /\ Calls \subseteq Clients /\ at[c] \in Places
  BY AddressConstants DEF AddressBase
<1>2. Answer(c) \subseteq {"select", "write"}
  BY DEF Answer
<1>3. \A spot \in Places : Move(c, spot) =>
        at'[c] = spot /\ \A d \in Calls \ {c} : at'[d] = at[d]
  BY <1>1, MovePlace
<1> QED BY <1>1, <1>2, <1>3
        DEF Keeps, FindOne, FillEntry, SelectOld, Begins, DropList, IncVersion, HandlerDies, Places

\* The calls that change them.
LEMMA ChangingSteps ==
  ASSUME AddressBase, SubjectInv, NEW c \in Calls,
         Commit(c) \/ Insert(c) \/ Update(c) \/ UpdateIsDelete(c)
  PROVE  /\ at'[c] \in {"drop", "bump"} /\ \A d \in Clients \ {c} : at'[d] = at[d]
         /\ Commit(c) => at[c] = "commit" /\ (Op[c] # "add" <=> Exists(Subject[c]))
         /\ Insert(c) => at[c] = "idle" /\ Op[c] = "add" /\ ~Exists(Subject[c])
         /\ Update(c) => at[c] = "write" /\ Op[c] = "edit" /\ Exists(Subject[c])
         /\ UpdateIsDelete(c) => at[c] = "write" /\ Op[c] = "delete" /\ Exists(Subject[c])
         /\ \A a \in AddressIds : Exists(a) => Exists(a)'
         /\ \A a \in AddressIds \ {Subject[c]} : Exists(a)' => Exists(a)
         /\ UNCHANGED <<version, list, key, rows, issued, reused, old, overlap>>
<1>1. c \in Clients /\ Calls \subseteq Clients
  BY AddressConstants
<1>2. Afterwards(c) \in {"drop", "bump"}
  BY DEF Afterwards
<1>3. at'[c] \in {"drop", "bump"} /\ \A d \in Clients \ {c} : at'[d] = at[d]
  BY <1>1, <1>2, MovePlace DEF Commit, Insert, Update, UpdateIsDelete, Places
<1>4. /\ \A a \in AddressIds : address[a] # NoRow => address'[a] # NoRow
      /\ \A a \in AddressIds \ {Subject[c]} : address'[a] # NoRow => address[a] # NoRow
  BY CommitRows, OneRow
<1>5. UNCHANGED <<version, list, key, rows, issued, reused, old, overlap>>
  BY DEF Commit, Insert, Update, UpdateIsDelete, cacheVars, addressHistory
<1>6. /\ Commit(c) => at[c] = "commit"
      /\ Insert(c) => at[c] = "idle" /\ Op[c] = "add" /\ ~Exists(Subject[c])
      /\ Update(c) => at[c] = "write" /\ Op[c] = "edit"
      /\ UpdateIsDelete(c) => at[c] = "write" /\ Op[c] = "delete"
  BY DEF Commit, Insert, Update, UpdateIsDelete
<1>7. /\ Op[c] # "add" /\ at[c] # "idle" => Exists(Subject[c])
      /\ Op[c] = "add" /\ at[c] = "commit" => ~Exists(Subject[c])
  BY DEF SubjectInv
<1> QED BY <1>3, <1>4, <1>5, <1>6, <1>7 DEF Exists

LEMMA SubjectStep ==
  ASSUME AddressInv, NEW c \in Calls,
         \/ c \in Finders /\ (FindOne(c) \/ FillEntry(c))
         \/ SelectOld(c) \/ Commit(c) \/ Insert(c) \/ Update(c)
         \/ UpdateIsDelete(c) \/ DropList(c) \/ IncVersion(c) \/ HandlerDies(c)
  PROVE  SubjectInv'
<1>1. AddressBase /\ SubjectInv /\ Calls \subseteq Clients
  BY AddressConstants DEF AddressInv
<1>2. CASE Commit(c) \/ Insert(c) \/ Update(c) \/ UpdateIsDelete(c)
  <2>1. \A d \in Calls \ {c} : Op[d] = "add" /\ at[d] = "commit" => ~Exists(Subject[d])'
    <3> SUFFICES ASSUME NEW d \in Calls \ {c}, Op[d] = "add", at[d] = "commit"
                 PROVE  ~Exists(Subject[d])'
      OBVIOUS
    <3>1. ~Exists(Subject[d]) /\ Subject[d] \in AddressIds
      BY <1>1, AddressConstants DEF SubjectInv
    <3>2. Subject[d] # Subject[c]
      BY <1>1, <1>2, <3>1, ChangingSteps, AddressAssumption
    <3> QED BY <1>1, <1>2, <3>1, <3>2, ChangingSteps
  <2>2. \A d \in Calls : Exists(Subject[d]) => Exists(Subject[d])'
    BY <1>1, <1>2, ChangingSteps, AddressConstants
  <2>3. \A d \in Calls \ {c} : at'[d] = at[d]
    BY <1>1, <1>2, ChangingSteps
  <2>4. Op[c] # "add" => Exists(Subject[c])'
    BY <1>1, <1>2, <2>2, ChangingSteps
  <2>5. at'[c] \in {"drop", "bump"}
    BY <1>1, <1>2, ChangingSteps
  <2> QED BY <1>1, <2>1, <2>2, <2>3, <2>4, <2>5 DEF SubjectInv
<1>3. CASE \/ c \in Finders /\ (FindOne(c) \/ FillEntry(c))
           \/ SelectOld(c) \/ DropList(c) \/ IncVersion(c) \/ HandlerDies(c)
  <2>1. /\ address' = address /\ \A d \in Calls \ {c} : at'[d] = at[d]
        /\ \A d \in Calls : Exists(Subject[d])' <=> Exists(Subject[d])
    BY <1>1, <1>3, KeepingSteps DEF Keeps, Exists
  <2>2. /\ Op[c] # "add" /\ at'[c] # "idle" => Exists(Subject[c])
        /\ Op[c] = "add" /\ at'[c] = "commit" => ~Exists(Subject[c])
        /\ at'[c] \in {"fill", "select", "write"} => Op[c] # "add"
    <3>1. CASE c \in Finders /\ (FindOne(c) \/ FillEntry(c))
      BY <1>1, <3>1, KeepingSteps DEF FindOne, Finders, SubjectInv
    <3>2. CASE SelectOld(c)
      BY <1>1, <3>2, KeepingSteps DEF SelectOld, Begins, SubjectInv
    <3>3. CASE DropList(c) \/ IncVersion(c) \/ HandlerDies(c)
      BY <1>1, <3>3, KeepingSteps DEF SubjectInv
    <3> QED BY <1>3, <3>1, <3>2, <3>3
  <2> QED BY <1>1, <2>1, <2>2 DEF SubjectInv
<1> QED BY <1>2, <1>3

LEMMA DefaultStep ==
  ASSUME AddressInv, NEW c \in Calls,
         \/ FindOne(c) \/ FillEntry(c) \/ SelectOld(c) \/ Commit(c) \/ Insert(c) \/ Update(c)
         \/ UpdateIsDelete(c) \/ DropList(c) \/ IncVersion(c) \/ HandlerDies(c)
  PROVE  DefaultInv'
<1> SUFFICES ASSUME ~overlap'
             PROVE  /\ \A a, b \in Defaults' : a = b
                    /\ \A d \in Calls : at'[d] = "commit" =>
                         /\ Defaults' \subseteq {old'[d]}
                         /\ \A e \in Calls : at'[e] = "commit" => e = d
  BY DEF DefaultInv
<1>1. AddressBase /\ SubjectInv /\ Calls \subseteq Clients
  BY AddressConstants DEF AddressInv
<1>2. ~overlap
  BY DEF FindOne, FillEntry, SelectOld, Commit, Insert, Update, UpdateIsDelete, DropList,
         IncVersion, HandlerDies, addressHistory
<1>3. /\ \A a, b \in Defaults : a = b
      /\ \A d \in Calls : at[d] = "commit" =>
           /\ Defaults \subseteq {old[d]}
           /\ \A e \in Calls : at[e] = "commit" => e = d
  BY <1>2 DEF AddressInv, DefaultInv
<1>4. CASE SelectOld(c)
  <2>1. /\ Defaults' = Defaults /\ at'[c] = "commit"
        /\ \A d \in Calls \ {c} : at'[d] = at[d] /\ at'[d] # "commit"
    BY <1>1, <1>4, KeepingSteps DEF Keeps, SelectOld, Defaults, Live, Exists
  <2>2. Defaults = {} \/ old'[c] \in Defaults
    BY <1>4 DEF SelectOld, AddressInv, AddressBase
  <2> QED BY <1>3, <2>1, <2>2
<1>5. CASE FindOne(c) \/ FillEntry(c) \/ DropList(c) \/ IncVersion(c) \/ HandlerDies(c)
  <2>1. /\ Defaults' = Defaults /\ old' = old /\ at'[c] # "commit"
        /\ \A d \in Calls \ {c} : at'[d] = at[d]
    BY <1>1, <1>5, KeepingSteps
       DEF Keeps, Defaults, Live, Exists, FindOne, FillEntry, DropList, IncVersion, HandlerDies
  <2> QED BY <1>3, <2>1
<1>6. CASE Commit(c)
  <2>1. /\ at[c] = "commit" /\ at'[c] # "commit" /\ \A d \in Calls \ {c} : at'[d] = at[d]
    BY <1>1, <1>6, ChangingSteps
  <2>2. ASSUME NEW a \in Defaults', a # Subject[c] PROVE FALSE
    <3>1. /\ a \in AddressIds /\ address'[a].default /\ ~address'[a].deleted
          /\ address'[a] # NoRow
      BY DEF Defaults, Live, Exists
    <3>2. a # old[c]
      BY <1>1, <1>6, <2>2, <3>1, CommitRows
    <3>3. address'[a] = address[a]
      BY <1>1, <1>6, <2>2, <3>1, <3>2, CommitRows
    <3>4. a \in Defaults
      BY <3>1, <3>3 DEF Defaults, Live, Exists
    <3> QED BY <1>3, <2>1, <3>2, <3>4
  <2> QED BY <1>3, <2>1, <2>2
<1>7. CASE Insert(c) \/ Update(c) \/ UpdateIsDelete(c)
  <2>1. Defaults' \subseteq Defaults
    BY <1>1, <1>7, OneRow, AddressConstants DEF Defaults, Live, Exists
  <2>2. /\ at'[c] # "commit" /\ \A d \in Calls \ {c} : at'[d] = at[d]
        /\ old' = old
    BY <1>1, <1>7, ChangingSteps
  <2> QED BY <1>3, <2>1, <2>2
<1> QED BY <1>4, <1>5, <1>6, <1>7

LEMMA ListStep ==
  ASSUME AddressInv, NEW c \in Calls,
         \/ FindOne(c) \/ FillEntry(c) \/ SelectOld(c) \/ Commit(c) \/ Insert(c) \/ Update(c)
         \/ UpdateIsDelete(c) \/ DropList(c) \/ IncVersion(c) \/ HandlerDies(c)
  PROVE  VersionInv' /\ ListCurrent'
<1>1. /\ AddressBase /\ SubjectInv /\ Calls \subseteq Clients /\ Calls \cap Listers = {}
      /\ Listers \subseteq Clients
  BY AddressConstants DEF AddressInv
<1>2. CASE Commit(c) \/ Insert(c) \/ Update(c) \/ UpdateIsDelete(c)
  <2>1. Changing'
    BY <1>1, <1>2, ChangingSteps DEF Changing
  <2>2. Current' = Current /\ UNCHANGED <<list, key, rows, issued>>
    BY <1>1, <1>2, ChangingSteps DEF Current
  <2> QED BY <2>1, <2>2 DEF AddressInv, VersionInv, ListCurrent, Changing
<1>3. CASE FindOne(c) \/ FillEntry(c) \/ SelectOld(c) \/ DropList(c) \/ HandlerDies(c)
  <2>1. /\ UNCHANGED <<address, version, key, rows, issued>>
        /\ \A d \in Calls \ {c} : at'[d] = at[d]
        /\ reused \subseteq reused'
    BY <1>1, <1>3, KeepingSteps
       DEF Keeps, FindOne, FillEntry, SelectOld, DropList, HandlerDies, cacheVars, addressHistory
  <2>2. Current' = Current /\ TheList' = TheList
    BY <2>1 DEF Current, TheList, Live, Exists
  <2>3. Changing => Changing' \/ Current \in reused'
    BY <1>1, <1>3, <2>1, KeepingSteps DEF Changing, HandlerDies
  <2>4. \A l \in Listers : at'[l] = at[l]
    BY <1>1, <1>3
       DEF FindOne, FillEntry, SelectOld, DropList, HandlerDies, Move, AddressBase
  <2>5. \A v \in Versions : list'[v] \subseteq list[v]
    BY <1>1, <1>3, CurrentVersion
       DEF FindOne, FillEntry, SelectOld, DropList, HandlerDies, AddressBase, cacheVars
  <2>6. Current \in Versions
    BY <1>1, CurrentVersion
  <2>7. VersionInv'
    BY <2>1, <2>2, <2>3, <2>4, <2>5 DEF AddressInv, VersionInv
  <2>8. ListCurrent'
    BY <2>1, <2>2, <2>3, <2>5, <2>6 DEF AddressInv, ListCurrent, Changing
  <2> QED BY <2>7, <2>8
<1>4. CASE IncVersion(c)
  <2>1. /\ UNCHANGED <<address, key, rows>>
        /\ \A l \in Listers : at'[l] = at[l]
        /\ \A v \in Versions : v > issued => list[v] = {}
        /\ \A l \in Listers : key[l] <= issued
        /\ issued \in Nat /\ version \in Nat /\ Current <= issued
        /\ \A l \in Listers : key[l] \in Nat
        /\ Incremented \in Versions /\ Versions \subseteq Nat /\ Current \in Versions
        /\ reused \subseteq Versions
    BY <1>1, <1>4, CurrentVersion
       DEF IncVersion, Move, AddressBase, AddressInv, VersionInv, Versions
  <2>2. TheList' = TheList
    BY <2>1 DEF TheList, Live, Exists
  <2>3. CASE version' = Incremented
    <3>1. Current' = Incremented /\ Incremented = version + 1
      BY <2>1, <2>3 DEF Current, Incremented
    <3>2. /\ issued' = IF Incremented > issued THEN Incremented ELSE issued
          /\ Incremented <= issued => Incremented \in reused'
      BY <1>4, <2>1, <2>3 DEF IncVersion, Incremented
    <3>3. \A v \in Versions : list'[v] = list[v] \/ list'[v] = {}
      BY <1>1, <1>4, <2>1, <2>3 DEF IncVersion, AddressBase
    <3>4. CASE Incremented <= issued
      <4>1. issued' = issued /\ Current' \in reused' /\ Current' <= issued
        BY <2>1, <3>1, <3>2, <3>4
      <4>2. \A v \in Versions : v > issued => list'[v] = {}
        BY <2>1, <3>3
      <4>3. \A l \in Listers : key'[l] <= issued
        BY <2>1
      <4> QED BY <4>1, <4>2, <4>3 DEF VersionInv, ListCurrent
    <3>5. CASE Incremented > issued
      <4>1. list'[Current'] = {}
        BY <2>1, <3>1, <3>3, <3>5
      <4>2. \A l \in Listers : key'[l] # Current'
        BY <2>1, <3>1, <3>5
      <4>3. VersionInv'
        BY <2>1, <3>1, <3>2, <3>3, <3>5, <4>2 DEF VersionInv
      <4> QED BY <4>1, <4>3 DEF ListCurrent
    <3> QED BY <2>1, <3>4, <3>5
  <2>4. CASE version' # Incremented
    <3>1. UNCHANGED <<version, list, issued>> /\ reused' = reused \cup {Current}
      BY <1>4, <2>4 DEF IncVersion
    <3>2. Current' = Current
      BY <3>1 DEF Current
    <3> QED BY <2>1, <3>1, <3>2 DEF VersionInv, ListCurrent
  <2> QED BY <2>3, <2>4
<1> QED BY <1>2, <1>3, <1>4

LEMMA ListerStep ==
  ASSUME AddressInv, NEW l \in Listers, FindAllByUid(l) \/ SelectList(l) \/ FillList(l)
  PROVE  AddressInv'
<1>1. /\ AddressBase /\ AddressBase' /\ \A d \in Clients \ {l} : at'[d] = at[d]
      /\ Calls \subseteq Clients /\ l \notin Calls /\ l \in Clients
  BY BaseList, AddressConstants DEF AddressInv
<1>2. \A d \in Calls : at'[d] = at[d]
  BY <1>1
<1>3. UNCHANGED <<address, entry, version, read, old, overlap, issued, passed>>
  BY DEF FindAllByUid, SelectList, FillList, cacheVars, addressHistory
<1>4. /\ Current' = Current /\ TheList' = TheList /\ Defaults' = Defaults
      /\ (Changing' <=> Changing) /\ \A a : Exists(a)' <=> Exists(a)
  BY <1>2, <1>3 DEF Current, TheList, Defaults, Live, Exists, Changing
<1>5. SubjectInv' /\ DefaultInv' /\ EntryCurrent'
  BY <1>2, <1>3, <1>4 DEF AddressInv, SubjectInv, DefaultInv, EntryCurrent
<1>6. /\ Current \in Versions /\ key[l] \in Versions /\ 1 <= issued /\ Versions \subseteq Nat
      /\ issued \in Nat /\ reused \subseteq reused'
  BY <1>1, CurrentVersion
     DEF AddressBase, Versions, FindAllByUid, SelectList, FillList, addressHistory
<1>7. CASE FindAllByUid(l)
  <2>1. /\ at'[l] = "select" /\ rows' = rows /\ list' = list
        /\ \A m \in Listers \ {l} : key'[m] = key[m]
        /\ key'[l] = Current \/ key'[l] = 1
    BY <1>1, <1>7, MovePlace DEF FindAllByUid, AddressBase, Places, cacheVars
  <2> QED BY <1>1, <1>2, <1>3, <1>4, <1>5, <1>6, <2>1, AddressConstants
          DEF AddressInv, VersionInv, ListCurrent, Changing
<1>8. CASE SelectList(l)
  <2>1. /\ key' = key /\ list' = list
        /\ \A m \in Listers \ {l} : rows'[m] = rows[m]
        /\ at'[l] = "listed" => rows'[l] = TheList
    BY <1>1, <1>8, MovePlace DEF SelectList, AddressBase, Places, cacheVars
  <2> QED BY <1>1, <1>2, <1>3, <1>4, <1>5, <1>6, <2>1, AddressConstants
          DEF AddressInv, VersionInv, ListCurrent, Changing
<1>9. CASE FillList(l)
  <2>1. /\ key' = key /\ rows' = rows /\ reused' = reused
        /\ at[l] = "listed" /\ at'[l] = "idle"
        /\ list'[key[l]] = {rows[l]}
        /\ \A v \in Versions \ {key[l]} : list'[v] = list[v]
    BY <1>1, <1>6, <1>9, MovePlace DEF FillList, AddressBase, Places, addressHistory
  <2>2. VersionInv'
    BY <1>1, <1>3, <1>4, <1>6, <2>1, AddressConstants DEF AddressInv, VersionInv
  <2>3. ListCurrent'
    BY <1>2, <1>3, <1>4, <1>6, <2>1 DEF AddressInv, VersionInv, ListCurrent, Changing
  <2> QED BY <1>1, <1>5, <2>2, <2>3 DEF AddressInv
<1> QED BY <1>7, <1>8, <1>9

LEMMA EntryStep ==
  ASSUME AddressInv, NEW c \in Calls,
         \/ c \in Finders /\ (FindOne(c) \/ FillEntry(c))
         \/ SelectOld(c) \/ Commit(c) \/ Insert(c) \/ Update(c)
         \/ UpdateIsDelete(c) \/ DropList(c) \/ IncVersion(c) \/ HandlerDies(c)
  PROVE  EntryCurrent'
<1>1. AddressBase /\ SubjectInv /\ Subject[c] \in AddressIds
  BY AddressConstants DEF AddressInv
<1>2. CASE FindOne(c) \/ SelectOld(c) \/ DropList(c) \/ IncVersion(c) \/ HandlerDies(c)
  BY <1>2 DEF FindOne, SelectOld, DropList, IncVersion, HandlerDies, cacheVars, addressHistory,
              AddressInv, EntryCurrent
<1>3. CASE FillEntry(c)
  BY <1>1, <1>3 DEF FillEntry, AddressBase, AddressInv, EntryCurrent
<1>4. CASE Commit(c)
  <2>1. /\ entry' = entry /\ passed' = Passed({Subject[c], old[c]} \cap AddressIds)
    BY <1>4 DEF Commit, cacheVars
  <2>2. \A a \in AddressIds \ {Subject[c], old[c]} : address'[a] = address[a]
    BY <1>1, <1>4, CommitRows
  <2> QED BY <2>1, <2>2 DEF Passed, AddressInv, EntryCurrent
<1>5. CASE Insert(c)
  <2>1. /\ entry' = entry /\ passed' = passed /\ address[Subject[c]] = NoRow
        /\ \A a \in AddressIds \ {Subject[c]} : address'[a] = address[a]
    BY <1>1, <1>5, OneRow DEF Insert, Exists, cacheVars, addressHistory
  <2> QED BY <1>1, <2>1 DEF AddressInv, EntryCurrent
<1>6. CASE Update(c)
  <2>1. /\ entry'[Subject[c]] = NoRow
        /\ \A a \in AddressIds \ {Subject[c]} : entry'[a] = entry[a]
        /\ passed' = passed \ {Subject[c]}
        /\ \A a \in AddressIds \ {Subject[c]} : address'[a] = address[a]
    BY <1>1, <1>6, OneRow DEF Update, EditedEntry, AddressBase
  <2> QED BY <1>1, <2>1 DEF AddressInv, EntryCurrent
<1>7. CASE UpdateIsDelete(c)
  <2>1. /\ entry' = entry /\ passed' = Passed({Subject[c]})
        /\ \A a \in AddressIds \ {Subject[c]} : address'[a] = address[a]
    BY <1>1, <1>7, OneRow DEF UpdateIsDelete, cacheVars
  <2> QED BY <1>1, <2>1 DEF Passed, AddressInv, EntryCurrent
<1> QED BY <1>2, <1>3, <1>4, <1>5, <1>6, <1>7

LEMMA ExpiryStep ==
  ASSUME AddressInv,
         VersionExpires \/ (\E a \in AddressIds : EntryExpires(a)) \/ UNCHANGED addressVars
  PROVE  AddressInv'
<1>1. AddressBase' /\ at' = at /\ AddressBase
  BY BaseExpires DEF AddressInv
<1>2. UNCHANGED <<address, list, read, key, rows, old, overlap, issued>>
  BY DEF VersionExpires, EntryExpires, addressVars, cacheVars, clientVars, addressHistory
<1>3. /\ TheList' = TheList /\ Defaults' = Defaults /\ (Changing' <=> Changing)
      /\ \A a : Exists(a)' <=> Exists(a)
  BY <1>1, <1>2 DEF TheList, Defaults, Live, Exists, Changing
<1>4. SubjectInv' /\ DefaultInv'
  BY <1>1, <1>2, <1>3 DEF AddressInv, SubjectInv, DefaultInv
<1>5. EntryCurrent'
  <2>1. \A a \in AddressIds :
          \/ entry'[a] = NoRow
          \/ entry'[a] = entry[a] /\ (a \in passed => a \in passed')
    BY <1>1 DEF VersionExpires, EntryExpires, addressVars, cacheVars, addressHistory, AddressBase
  <2> QED BY <1>2, <2>1 DEF AddressInv, EntryCurrent
<1>6. \/ Current' = Current /\ reused' = reused
      \/ Current' = 1 /\ 1 \in reused'
  BY DEF VersionExpires, EntryExpires, addressVars, cacheVars, addressHistory, Current
<1>7. issued \in Nat /\ 1 <= issued
  BY <1>1 DEF AddressBase, Versions
<1>8. VersionInv' /\ ListCurrent'
  BY <1>1, <1>2, <1>3, <1>6, <1>7 DEF AddressInv, VersionInv, ListCurrent, Changing
<1> QED BY <1>1, <1>4, <1>5, <1>8 DEF AddressInv

LEMMA AddressStepInv == AddressInv /\ [AddressNext]_addressVars => AddressInv'
<1> SUFFICES ASSUME AddressInv, [AddressNext]_addressVars PROVE AddressInv'
  OBVIOUS
<1>1. ASSUME NEW c \in Calls,
             \/ c \in Finders /\ (FindOne(c) \/ FillEntry(c))
             \/ SelectOld(c) \/ Commit(c) \/ Insert(c) \/ Update(c)
             \/ UpdateIsDelete(c) \/ DropList(c) \/ IncVersion(c) \/ HandlerDies(c)
      PROVE  AddressInv'
  <2>1. AddressBase'
    BY <1>1, BaseFind, BaseChange, BaseEnd DEF AddressInv
  <2>2. SubjectInv'
    BY <1>1, SubjectStep
  <2>3. DefaultInv'
    BY <1>1, DefaultStep
  <2>4. VersionInv' /\ ListCurrent'
    BY <1>1, ListStep
  <2>5. EntryCurrent'
    BY <1>1, EntryStep
  <2> QED BY <2>1, <2>2, <2>3, <2>4, <2>5 DEF AddressInv
<1>2. \A c \in Finders : c \in Calls
  BY AddressConstants
<1> QED BY <1>1, <1>2, ListerStep, ExpiryStep DEF AddressNext

-----------------------------------------------------------------------------
(* Theorems.                                                               *)

\* UpdateOrderStatus: in every behaviour the trail of the order accounts for
\* its status, the cached one, what each update read and what was logged.
THEOREM StatusInvariant == OrderStatusSpec => []StatusInv
BY StatusInit, StatusKeeps, PTL DEF OrderStatusSpec

\* Cart logic: in every behaviour a call knows the row it read, and who has
\* written to it since.
THEOREM CartInvariant == CartSpec => []CartInv
BY CartInitInv, CartKeeps, PTL DEF CartSpec

\* Address logic: in every behaviour a row, its cached copy and the cached
\* lists differ only where a call or a recorded fault accounts for it.
THEOREM AddressInvariant == AddressSpec => []AddressInv
BY AddressInitInv, AddressStepInv, PTL DEF AddressSpec

\* updateStatusLogic: however old the status it read, an update takes the
\* order along the table of transitions.
THEOREM StatusKeepsToTable == OrderStatusSpec => StatusFollowsTable
<1>1. OrderStatusNext =>
        (orderStatus' # orderStatus =>
           \/ orderStatus' \in Transitions(orderStatus)
           \/ orderStatus # Canceled /\ orderStatus' = Canceled)
  BY DEF OrderStatusNext, FindOrder, FillOrder, Rejected, UpdateStatusIf, Conflict, Retry,
         InsertStatusLog, OrderExpires, CancelOrder, CanTransitionTo, Matches
<1>2. UNCHANGED statusVars => orderStatus' = orderStatus
  BY DEF statusVars
<1> QED BY <1>1, <1>2, PTL DEF OrderStatusSpec, StatusFollowsTable

\* order_status_log tells the steps the order took, but for those it names.
THEOREM LogComplete == OrderStatusSpec => []LogTellsTrail
<1>1. StatusInv => LogTellsTrail
  BY DEF StatusInv, LogInv, LogTellsTrail, Unlogged, Logging
<1> QED BY <1>1, StatusInvariant, PTL

\* UpdateStatusIf: a conflict is reported only of an order that has moved on.
THEOREM ConflictIsReal == OrderStatusSpec => []ConflictOutran
BY StatusInvariant, PTL DEF StatusInv

\* What UpdateOrderStatus logs and answers is what happened to the order.
THEOREM ReportsAreTrue == OrderStatusSpec => []LogTruthful
BY LogComplete, ConflictIsReal, PTL DEF LogTruthful

\* UpdateOrderStatus: statuses, cached rows and log entries are what the
\* table of statuses allows.
THEOREM StatusTypes == OrderStatusSpec => []OrderStatusTypeOK
BY StatusInvariant, PTL DEF StatusInv

\* The cart adds up until a row is overwritten that was not as it was read.
THEOREM CartSum == CartSpec => []CartAddsUp
BY CartInvariant, PTL DEF CartInv

\* The unique key refuses a call only for a cause.
THEOREM CartRefusals == CartSpec => []RefusedForCause
BY CartInvariant, PTL DEF CartInv

\* The cart shows what its calls were told.
THEOREM CartKeepsWord == CartSpec => []CartTruthful
BY CartSum, CartRefusals, PTL DEF CartTruthful

\* The unique key: at most one row of the product is live, and two exist.
THEOREM CartTypes == CartSpec => []CartTypeOK
<1>1. CartInv => CartTypeOK
  BY CartRowsCount DEF CartInv, CartRowsOK, CallsOK, CartTypeOK
<1> QED BY <1>1, CartInvariant, PTL

\* A deleted product comes back only through a call that had read it before.
THEOREM CartDeletions == CartSpec => DeletedStaysDeleted
<1>1. CartInv /\ [CartNext]_cartVars =>
        (\A i \in DOMAIN cart : cart[i].deleted /\ ~cart'[i].deleted =>
           \E c \in CartCalls : itemId[c] = i /\ stage'[c] = "done"
               /\ \E d \in since[c] : Kind[d] = "delete")
  <2> SUFFICES ASSUME CartInv, [CartNext]_cartVars, NEW i \in DOMAIN cart,
                      cart[i].deleted, ~cart'[i].deleted
               PROVE  \E c \in CartCalls : itemId[c] = i /\ stage'[c] = "done"
                          /\ \E d \in since[c] : Kind[d] = "delete"
    OBVIOUS
  <2>1. cart' # cart
    OBVIOUS
  <2>2. PICK c \in CartCalls : Write(c)
    BY <2>1 DEF CartNext, cartVars, FindOneByUserAndProduct, Refused
  <2> QED BY <2>2, WriteRestores
<1> QED BY <1>1, CartInvariant, PTL DEF CartSpec, DeletedStaysDeleted

\* One default address, unless two calls looked for the old one at once.
THEOREM DefaultIsOne == AddressSpec => []OneDefault
<1>1. AddressInv => OneDefault
  <2> SUFFICES ASSUME AddressInv, ~overlap PROVE Cardinality(Defaults) <= 1
    BY DEF OneDefault
  <2>1. CASE Defaults = {}
    BY <2>1, FS_EmptySet
  <2>2. CASE \E a \in Defaults : TRUE
    <3>1. PICK a \in Defaults : Defaults = {a}
      BY <2>2 DEF AddressInv, DefaultInv
    <3>2. Cardinality({a}) = 1
      BY FS_Singleton
    <3>3. Cardinality(Defaults) = 1
      BY <3>1, <3>2, Zenon
    <3> QED BY <3>3
  <2> QED BY <2>1, <2>2
<1> QED BY <1>1, AddressInvariant, PTL

\* The list cached under the current version is the addresses as they are.
THEOREM ListIsCurrent == AddressSpec => []ListCurrent
BY AddressInvariant, PTL DEF AddressInv

\* A cached row that is out of date has a cause.
THEOREM EntryHasCause == AddressSpec => []EntryCurrent
BY AddressInvariant, PTL DEF AddressInv

\* Neither cached answer about addresses is out of date without a cause.
THEOREM AddressCaches == AddressSpec => []CachesCurrent
BY ListIsCurrent, EntryHasCause, PTL DEF CachesCurrent

\* Address logic: rows, cache entries, versions and lists keep their types.
THEOREM AddressTypes == AddressSpec => []AddressTypeOK
<1>1. AddressInv => AddressTypeOK
  <2> SUFFICES ASSUME AddressBase PROVE AddressTypeOK
    BY DEF AddressInv
  <2>1. version \in Versions \cup {0}
    <3>1. version \in Nat /\ version <= Cardinality(Calls)
      BY CurrentVersion DEF AddressBase
    <3> QED BY <3>1, AddressConstants DEF Versions
  <2> QED BY <2>1 DEF AddressBase, AddressTypeOK, Rows, Places
<1> QED BY <1>1, AddressInvariant, PTL

\* An edit gives a deleted address back only if it found it not deleted.
THEOREM EditsRevive == AddressSpec => NotRevived
<1>1. AddressInv /\ [AddressNext]_addressVars =>
        (\A a \in AddressIds :
           Exists(a) /\ address[a].deleted /\ ~address'[a].deleted =>
             \E c \in Calls : Subject[c] = a /\ at[c] = "write" /\ ~read[c].deleted)
  <2> SUFFICES ASSUME AddressInv, [AddressNext]_addressVars, NEW a \in AddressIds,
                      Exists(a), address[a].deleted, ~address'[a].deleted
               PROVE  \E c \in Calls : Subject[c] = a /\ at[c] = "write" /\ ~read[c].deleted
    OBVIOUS
  <2>1. address' # address /\ AddressBase /\ SubjectInv
    BY DEF AddressInv
  <2>2. PICK c \in Calls : Commit(c) \/ Insert(c) \/ Update(c) \/ UpdateIsDelete(c)
    BY <2>1 DEF AddressNext, addressVars, FindOne, FillEntry, SelectOld, DropList, IncVersion,
                HandlerDies, FindAllByUid, SelectList, FillList, VersionExpires, EntryExpires
  <2>3. a = Subject[c]
    BY <2>1, <2>2, CommitRows, OneRow
  <2>4. ~Commit(c)
    <3> SUFFICES ASSUME Commit(c) PROVE FALSE
      OBVIOUS
    <3>1. Op[c] # "add"
      BY <2>1, <2>3, ChangingSteps
    <3>2. address'[a] = [default |-> TRUE,
                         deleted |-> IF Op[c] = "add" THEN FALSE ELSE address[a].deleted]
      BY <2>1, <2>3, CommitRows
    <3>3. address'[a].deleted = address[a].deleted
      BY <3>1, <3>2
    <3> QED BY <3>3
  <2>5. ~Insert(c)
    BY <2>3 DEF Insert
  <2>6. ~UpdateIsDelete(c)
    <3> SUFFICES ASSUME UpdateIsDelete(c) PROVE FALSE
      OBVIOUS
    <3>1. address'[a] = Remove(address[a]) /\ address[a] \in Rows
      BY <2>1, <2>3, OneRow DEF AddressBase
    <3> QED BY <3>1, RowChange
  <2>7. Update(c)
    BY <2>2, <2>4, <2>5, <2>6
  <2>8. address'[a] = [default |-> FALSE, deleted |-> read[c].deleted]
    BY <2>1, <2>3, <2>7, OneRow
  <2> QED BY <2>3, <2>7, <2>8 DEF Update
<1> QED BY <1>1, AddressInvariant, PTL DEF AddressSpec, NotRevived

-----------------------------------------------------------------------------
(* Calls with one request id.  Until it expires, the placeholder belongs to *)
(* whoever is on the way to a saga, and then to the call that has one.      *)

Claimants == {c \in Askers : place[c] \in {"claimed", "valid", "failed"}}
Sagas == submitted \ unsure

PlaceInv ==
    \A c \in Askers :
        /\ place[c] \in {"new", "claimed", "valid"} => c \notin submitted \cup orphaned
        /\ place[c] = "failed" => c \notin Sagas
        /\ place[c] = "accepted" => c \in Sagas

GidInv ==
    /\ mapping # NoAsker => mapping \in Sagas
    /\ \A c \in Askers : answer[c] # NoAsker => answer[c] \in Sagas

HolderInv == ~lapsed => \A c \in Claimants \cup Sagas : placeholder = c

RequestInv ==
    RequestTypeOK /\ PlaceInv /\ GidInv /\ HolderInv /\ PlaceholderTruthful

LEMMA RequestStart == RequestInit => RequestInv
<1> SUFFICES ASSUME RequestInit PROVE RequestInv
  OBVIOUS
<1>1. RequestTypeOK
  <2>1. /\ place \in [Askers -> {"new"}] /\ answer \in [Askers -> {NoAsker}]
        /\ \A c \in Askers : place[c] = "new" /\ answer[c] = NoAsker
    BY DEF RequestInit
  <2>2. troubles \in 0 .. MaxTroubles
    BY RequestAssumption DEF RequestInit
  <2> QED BY <2>1, <2>2 DEF RequestInit, RequestTypeOK
<1>2. PlaceInv /\ GidInv
  BY DEF RequestInit, PlaceInv, GidInv, Sagas
<1>3. HolderInv /\ PlaceholderTruthful
  BY DEF RequestInit, HolderInv, PlaceholderTruthful, Claimants, Sagas
<1> QED BY <1>1, <1>2, <1>3 DEF RequestInv

\* A call moves to place p and the others stay where they are.
LEMMA GoPlace ==
  ASSUME RequestTypeOK, NEW c \in Askers, NEW p, Go(c, p)
  PROVE  place'[c] = p /\ \A d \in Askers \ {c} : place'[d] = place[d]
BY DEF RequestTypeOK, Go

LEMMA ReplyTo ==
  ASSUME RequestTypeOK, NEW c \in Askers, NEW g, Reply(c, g)
  PROVE  answer'[c] = g /\ \A d \in Askers \ {c} : answer'[d] = answer[d]
BY DEF RequestTypeOK, Reply

\* The type invariant, action by action.
LEMMA RequestTypes == RequestInv /\ [RequestNext]_requestVars => RequestTypeOK'
<1> SUFFICES ASSUME RequestInv, [RequestNext]_requestVars PROVE RequestTypeOK'
  OBVIOUS
<1> USE RequestAssumption DEF RequestTypeOK, UnderWay, Ended
<1> RequestTypeOK /\ PlaceInv
  BY DEF RequestInv
<1>1. ASSUME NEW c \in Askers, Claim(c) PROVE RequestTypeOK'
  BY <1>1 DEF Claim, Go, Trouble, PlaceInv
<1>2. ASSUME NEW c \in Askers, ClaimRefused(c) PROVE RequestTypeOK'
  BY <1>2 DEF ClaimRefused, Go, Trouble
<1>3. ASSUME NEW c \in Askers, LookUp(c) PROVE RequestTypeOK'
  BY <1>3 DEF LookUp, Go, Trouble, Reply, Mapped, GidKnown
<1>4. ASSUME NEW c \in Askers, Validate(c) PROVE RequestTypeOK'
  BY <1>4 DEF Validate, Go, PlaceInv
<1>5. ASSUME NEW c \in Askers, Submit(c) PROVE RequestTypeOK'
  BY <1>5 DEF Submit, Go, Trouble, PlaceInv
<1>6. ASSUME NEW c \in Askers, Release(c) PROVE RequestTypeOK'
  BY <1>6 DEF Release, Go, Trouble, Released, PlaceInv, Sagas
<1>7. ASSUME NEW c \in Askers, Remember(c) PROVE RequestTypeOK'
  BY <1>7 DEF Remember, Go, Trouble, Reply
<1>8. ASSUME NEW c \in Askers, AskerDies(c) PROVE RequestTypeOK'
  BY <1>8 DEF AskerDies, Go, Trouble, PlaceInv, Sagas
<1>9. CASE PlaceholderLapses \/ MappingLapses \/ UNCHANGED requestVars
  BY <1>9 DEF PlaceholderLapses, MappingLapses, requestVars
<1> QED BY <1>1, <1>2, <1>3, <1>4, <1>5, <1>6, <1>7, <1>8, <1>9 DEF RequestNext

\* Where a call is says whether there can be a saga of its own.
LEMMA RequestPlaces == RequestInv /\ [RequestNext]_requestVars => PlaceInv'
<1> SUFFICES ASSUME RequestInv, [RequestNext]_requestVars PROVE PlaceInv'
  OBVIOUS
<1> USE DEF PlaceInv, Sagas
<1> RequestTypeOK /\ PlaceInv
  BY DEF RequestInv
<1>1. ASSUME NEW c \in Askers, Claim(c) PROVE PlaceInv'
  BY <1>1, GoPlace DEF Claim
<1>2. ASSUME NEW c \in Askers, ClaimRefused(c) PROVE PlaceInv'
  BY <1>2, GoPlace DEF ClaimRefused
<1>3. ASSUME NEW c \in Askers, LookUp(c) PROVE PlaceInv'
  BY <1>3, GoPlace DEF LookUp
<1>4. ASSUME NEW c \in Askers, Validate(c) PROVE PlaceInv'
  BY <1>4, GoPlace DEF Validate
<1>5. ASSUME NEW c \in Askers, Submit(c) PROVE PlaceInv'
  <2>1. unsure \subseteq submitted
    BY DEF RequestTypeOK
  <2> QED BY <1>5, <2>1, GoPlace DEF Submit
<1>6. ASSUME NEW c \in Askers, Release(c) PROVE PlaceInv'
  BY <1>6, GoPlace DEF Release
<1>7. ASSUME NEW c \in Askers, Remember(c) PROVE PlaceInv'
  BY <1>7, GoPlace DEF Remember
<1>8. ASSUME NEW c \in Askers, AskerDies(c) PROVE PlaceInv'
  BY <1>8, GoPlace DEF AskerDies
<1>9. CASE PlaceholderLapses \/ MappingLapses \/ UNCHANGED requestVars
  BY <1>9 DEF PlaceholderLapses, MappingLapses, requestVars
<1> QED BY <1>1, <1>2, <1>3, <1>4, <1>5, <1>6, <1>7, <1>8, <1>9 DEF RequestNext

\* A gid is kept or answered only once its saga is sure, and stays sure.
LEMMA RequestGids == RequestInv /\ [RequestNext]_requestVars => GidInv'
<1> SUFFICES ASSUME RequestInv, [RequestNext]_requestVars PROVE GidInv'
  OBVIOUS
<1> USE DEF GidInv, Sagas
<1> RequestTypeOK /\ PlaceInv /\ GidInv
  BY DEF RequestInv
<1>1. ASSUME NEW c \in Askers,
             Claim(c) \/ ClaimRefused(c) \/ Validate(c) \/ Release(c) \/ AskerDies(c)
      PROVE  GidInv'
  BY <1>1 DEF Claim, ClaimRefused, Validate, Release, AskerDies
<1>2. ASSUME NEW c \in Askers, LookUp(c) PROVE GidInv'
  BY <1>2, ReplyTo DEF LookUp, Mapped, GidKnown
<1>3. ASSUME NEW c \in Askers, Submit(c) PROVE GidInv'
  <2>1. c \notin submitted
    BY <1>3 DEF Submit, PlaceInv
  <2> QED BY <1>3, <2>1 DEF Submit
<1>4. ASSUME NEW c \in Askers, Remember(c) PROVE GidInv'
  <2>1. c \in Sagas
    BY <1>4 DEF Remember, PlaceInv
  <2> QED BY <1>4, <2>1, ReplyTo DEF Remember
<1>5. CASE PlaceholderLapses \/ MappingLapses \/ UNCHANGED requestVars
  BY <1>5 DEF PlaceholderLapses, MappingLapses, requestVars
<1> QED BY <1>1, <1>2, <1>3, <1>4, <1>5 DEF RequestNext

\* Only a free placeholder is claimed, and only its holder releases it.
LEMMA RequestHolder == RequestInv /\ [RequestNext]_requestVars => HolderInv'
<1> SUFFICES ASSUME RequestInv, [RequestNext]_requestVars, ~lapsed' PROVE HolderInv'
  BY DEF HolderInv
<1> USE DEF Sagas, Claimants
<1>1. ~lapsed /\ ~PlaceholderLapses
  BY DEF RequestNext, requestVars, Claim, ClaimRefused, LookUp, Validate, Submit, Release,
         Remember, AskerDies, PlaceholderLapses, MappingLapses, RequestInv, RequestTypeOK
<1>2. RequestTypeOK /\ PlaceInv /\ \A c \in Claimants \cup Sagas : placeholder = c
  BY <1>1 DEF RequestInv, HolderInv
<1>3. NoAsker \notin Askers /\ submitted \subseteq Askers
  BY <1>2, RequestAssumption DEF RequestTypeOK
<1>4. ASSUME NEW c \in Askers, Claim(c) PROVE HolderInv'
  <2>1. Claimants \cup Sagas = {}
    BY <1>2, <1>3, <1>4 DEF Claim, Free
  <2> QED BY <1>2, <1>4, <2>1, GoPlace DEF Claim, HolderInv
<1>5. ASSUME NEW c \in Askers, ClaimRefused(c) \/ LookUp(c) \/ Validate(c) PROVE HolderInv'
  BY <1>2, <1>5, GoPlace DEF ClaimRefused, LookUp, Validate, HolderInv
<1>6. ASSUME NEW c \in Askers, Submit(c) PROVE HolderInv'
  BY <1>2, <1>6, GoPlace DEF Submit, HolderInv
<1>7. ASSUME NEW c \in Askers, Release(c) PROVE HolderInv'
  <2>1. c \in Claimants /\ c \notin Sagas
    BY <1>2, <1>7 DEF Release, PlaceInv
  <2>2. Claimants \cup Sagas \subseteq {c}
    BY <1>2, <2>1
  <2>3. Claimants' \cup Sagas' = {}
    BY <1>2, <1>3, <1>7, <2>1, <2>2, GoPlace DEF Release
  <2> QED BY <2>3 DEF HolderInv
<1>8. ASSUME NEW c \in Askers, Remember(c) \/ AskerDies(c) PROVE HolderInv'
  BY <1>2, <1>8, GoPlace DEF Remember, AskerDies, HolderInv, UnderWay
<1>9. CASE MappingLapses \/ UNCHANGED requestVars
  BY <1>2, <1>9 DEF MappingLapses, requestVars, HolderInv
<1> QED BY <1>1, <1>4, <1>5, <1>6, <1>7, <1>8, <1>9 DEF RequestNext

\* A call leaves the placeholder behind only with a saga or with a cause.
LEMMA RequestTruth == RequestInv /\ [RequestNext]_requestVars => PlaceholderTruthful'
<1> SUFFICES ASSUME RequestInv, [RequestNext]_requestVars, placeholder' # NoAsker
             PROVE  \/ place'[placeholder'] \in UnderWay
                    \/ placeholder' \in submitted' \cup orphaned'
  BY DEF PlaceholderTruthful
<1> DEFINE h == placeholder
<1>1. /\ RequestTypeOK /\ PlaceInv
      /\ h # NoAsker => place[h] \in UnderWay \/ h \in submitted \cup orphaned
  BY DEF RequestInv, PlaceholderTruthful
<1> HIDE DEF h
<1>2. ASSUME NEW c \in Askers, Claim(c) PROVE place'[c] \in UnderWay \/ c \in orphaned'
  BY <1>1, <1>2, GoPlace DEF Claim, UnderWay
<1>3. ASSUME NEW c \in Askers, ClaimRefused(c) \/ LookUp(c), h # NoAsker
      PROVE  place'[h] \in UnderWay \/ h \in submitted' \cup orphaned'
  <2>1. place[c] \notin UnderWay /\ h \in Askers
    BY <1>1, <1>3 DEF ClaimRefused, LookUp, UnderWay, h, RequestTypeOK
  <2> QED BY <1>1, <1>3, <2>1, GoPlace DEF ClaimRefused, LookUp
<1>4. ASSUME NEW c \in Askers, Validate(c) \/ Submit(c) \/ Remember(c) \/ AskerDies(c), h # NoAsker
      PROVE  place'[h] \in UnderWay \/ h \in submitted' \cup orphaned'
  <2>1. h \in Askers
    BY <1>1, <1>4 DEF h, RequestTypeOK
  <2>2. submitted \subseteq submitted' /\ orphaned \subseteq orphaned'
    BY <1>4 DEF Validate, Submit, Remember, AskerDies
  <2>3. CASE h # c
    <3>1. place'[h] = place[h]
      BY <1>1, <1>4, <2>1, <2>3, GoPlace DEF Validate, Submit, Remember, AskerDies
    <3> QED BY <1>1, <1>4, <2>2, <3>1
  <2>4. CASE h = c
    <3>1. CASE Validate(c)
      BY <1>1, <2>4, <3>1 DEF Validate, Go, UnderWay, RequestTypeOK
    <3>2. CASE Submit(c)
      BY <1>1, <2>4, <3>2, GoPlace DEF Submit, UnderWay
    <3>3. CASE Remember(c)
      BY <1>1, <2>4, <3>3 DEF Remember, PlaceInv, Sagas
    <3>4. CASE AskerDies(c)
      BY <1>1, <1>4, <2>4, <3>4 DEF AskerDies, UnderWay, PlaceInv, Sagas
    <3> QED BY <1>4, <3>1, <3>2, <3>3, <3>4
  <2> QED BY <2>3, <2>4
<1>5. ASSUME NEW c \in Askers, Release(c), placeholder' = h, h # NoAsker
      PROVE  place'[h] \in UnderWay \/ h \in submitted' \cup orphaned'
  <2>1. orphaned' = orphaned \cup {c} /\ h \in Askers
    BY <1>1, <1>5 DEF Release, Released, h, RequestTypeOK
  <2> QED BY <1>1, <1>5, <2>1, GoPlace DEF Release
<1>6. CASE MappingLapses \/ PlaceholderLapses \/ UNCHANGED requestVars
  BY <1>1, <1>6 DEF MappingLapses, PlaceholderLapses, requestVars, h
<1> QED BY <1>2, <1>3, <1>4, <1>5, <1>6
        DEF RequestNext, Claim, ClaimRefused, LookUp, Validate, Submit, Remember, AskerDies,
            Release, Released, h

LEMMA RequestInvariant == RequestSpec => []RequestInv
<1>1. RequestInv /\ [RequestNext]_requestVars => RequestInv'
  BY RequestTypes, RequestPlaces, RequestGids, RequestHolder, RequestTruth DEF RequestInv
<1> QED BY <1>1, RequestStart, PTL DEF RequestSpec

\* The calls of one request id keep within their types: who is told a gid is
\* told one, and a call that lost its placeholder has no sure saga.
THEOREM RequestTyped == RequestSpec => []RequestTypeOK
<1>1. RequestInv => RequestTypeOK
  BY DEF RequestInv
<1> QED BY <1>1, RequestInvariant, PTL

\* SETNX in front of Submit: one request id, one order, however many calls
\* race, until the placeholder expires or Submit is misinformed.
THEOREM OneSaga == RequestSpec => []OneSagaPerRequest
<1>1. RequestInv => OneSagaPerRequest
  <2> SUFFICES ASSUME RequestInv, ~lapsed PROVE Cardinality(submitted \ unsure) <= 1
    BY DEF OneSagaPerRequest
  <2>1. submitted \ unsure \subseteq {placeholder}
    BY DEF RequestInv, HolderInv, Sagas
  <2>2. Cardinality({placeholder}) = 1 /\ IsFiniteSet({placeholder})
    BY FS_Singleton
  <2>3. Cardinality(submitted \ unsure) <= Cardinality({placeholder})
    BY <2>1, <2>2, FS_Subset
  <2> QED BY <2>2, <2>3
<1> QED BY <1>1, RequestInvariant, PTL

\* The gid that a repeated request is answered is that of its one order.
THEOREM GidsAgree == RequestSpec => []GidNamesSaga
<1>1. RequestInv => GidNamesSaga
  <2> SUFFICES ASSUME RequestInv, NEW c \in Askers, answer[c] # NoAsker
               PROVE  /\ answer[c] \in submitted
                      /\ ~lapsed => \A d \in Askers : answer[d] \in {NoAsker, answer[c]}
    BY DEF GidNamesSaga
  <2>1. \A d \in Askers : answer[d] # NoAsker => answer[d] \in Sagas
    BY DEF RequestInv, GidInv
  <2>2. ~lapsed => \A g \in Sagas : placeholder = g
    BY DEF RequestInv, HolderInv
  <2> QED BY <2>1, <2>2 DEF Sagas
<1> QED BY <1>1, RequestInvariant, PTL

\* One request id is one order, for DTM and for everyone who asks AddOrder.
THEOREM RequestIsOneOrder == RequestSpec => []OneOrderPerRequest
BY OneSaga, GidsAgree, PTL DEF OneOrderPerRequest

\* A placeholder without an order or a call on its way to one has a cause.
THEOREM PlaceholderHasCause == RequestSpec => []PlaceholderTruthful
<1>1. RequestInv => PlaceholderTruthful
  BY DEF RequestInv
<1> QED BY <1>1, RequestInvariant, PTL

-----------------------------------------------------------------------------
(* The pages of a category.  A product that a page neither showed nor left  *)
(* out for a cause is still ahead of the cursor, and a reader that is told  *)
(* the end has nothing ahead of it.                                        *)

\* A set of natural numbers that is not empty has a least one.
LEMMA MinOfNaturals ==
  ASSUME NEW S \in SUBSET Nat, S # {}
  PROVE  Min(S) \in S /\ \A n \in S : Min(S) <= n
<1>1. \E x \in S : \A y \in S : ~(<<y, x>> \in OpToRel(<, Nat))
  BY NatLessThanWellFounded, WFMin
<1>2. ASSUME NEW x \in Nat, NEW y \in Nat, y < x
      PROVE  <<y, x>> \in OpToRel(<, Nat)
  BY <1>2 DEF OpToRel
<1>3. \E x \in S : \A y \in S : ~(y < x)
  BY <1>1, <1>2
<1>4. \E x \in S : \A y \in S : x <= y
  BY <1>3
<1> QED BY <1>4 DEF Min

\* The smaller of the size of a page and of what there is.
LEMMA MinOfTwo ==
  ASSUME NEW m \in Nat, NEW n \in Nat
  PROVE  Min({m, n}) = IF m <= n THEN m ELSE n
<1>1. {m, n} \in SUBSET Nat /\ {m, n} # {}
  OBVIOUS
<1>2. Min({m, n}) \in {m, n} /\ \A k \in {m, n} : Min({m, n}) <= k
  BY <1>1, MinOfNaturals
<1> QED BY <1>2

LEMMA FirstOfSet ==
  ASSUME NEW S, IsFiniteSet(S), NEW n \in Nat, NEW P \in FirstOf(S, n, Before)
  PROVE  /\ P \subseteq S /\ IsFiniteSet(P)
         /\ Cardinality(P) = IF n <= Cardinality(S) THEN n ELSE Cardinality(S)
         /\ Cardinality(S) <= n => P = S
         /\ \A p \in P, q \in S \ P : ~Before(q, p)
<1>1. /\ P \subseteq S /\ Cardinality(P) = Min({n, Cardinality(S)})
      /\ \A p \in P, q \in S \ P : ~Before(q, p)
  BY DEF FirstOf
<1>2. /\ IsFiniteSet(P) /\ Cardinality(S) \in Nat /\ Cardinality(P) \in Nat
      /\ Cardinality(P) = Cardinality(S) => P = S
  BY <1>1, FS_Subset, FS_CardinalityType
<1>3. Cardinality(P) = IF n <= Cardinality(S) THEN n ELSE Cardinality(S)
  BY <1>1, <1>2, MinOfTwo
<1> QED BY <1>1, <1>2, <1>3

PageCovered(r, p) ==
    p \in shown[r] \cup passedBy[r] \/ \E q \in shown[r] : CreateTime[q] = CreateTime[p]

PastInv ==
    /\ \A p \in product : CreateTime[p] <= second
    /\ \A r \in PageReaders : began[r] <= second /\ (began[r] = 0 => cursor[r] = 0)

AheadInv ==
    \A r \in PageReaders, p \in product :
        CreateTime[p] < began[r] =>
            PageCovered(r, p) \/ (~isEnd[r] /\ CreateTime[p] < cursor[r])

PagesInv == ProductPagesTypeOK /\ PastInv /\ AheadInv

\* The timestamp of a page is the second of one of its products.
LEMMA TimestampOf ==
  ASSUME NEW P \in SUBSET Products, P # {}
  PROVE  /\ \E q \in P : CreateTime[q] = Timestamp(P)
         /\ \A q \in P : Timestamp(P) <= CreateTime[q]
         /\ Timestamp(P) \in Nat \ {0}
<1> DEFINE S == {CreateTime[q] : q \in P}
<1>1. S \in SUBSET (Nat \ {0}) /\ S \in SUBSET Nat /\ S # {}
  BY ProductPagesAssumption
<1>2. Min(S) \in S /\ \A n \in S : Min(S) <= n
  BY <1>1, MinOfNaturals
<1>3. Timestamp(P) = Min(S)
  BY DEF Timestamp
<1> HIDE DEF S
<1>4. Min(S) \in Nat \ {0}
  BY <1>1, <1>2
<1> QED BY <1>2, <1>3, <1>4 DEF S

\* A page is shown: whatever it neither shows nor leaves to later pages was
\* in the second it ended in, or had a reason of its own.
LEMMA PageShown ==
  ASSUME PagesInv, NEW r \in PageReaders, ~isEnd[r],
         NEW page \in SUBSET product, Show(r, page),
         product' = product, second' = second, zset' \in SUBSET product,
         adding' \in SUBSET (SUBSET product),
         passedBy' \in [PageReaders -> SUBSET product],
         isEnd' \in [PageReaders -> BOOLEAN],
         \A s \in PageReaders \ {r} : isEnd'[s] = isEnd[s],
         \A s \in PageReaders : passedBy[s] \subseteq passedBy'[s],
         page = {} => isEnd'[r],
         \A p \in product : CreateTime[p] < Cursor(r) =>
            \/ p \in page \cup passedBy'[r] \/ \E q \in page : CreateTime[q] = CreateTime[p]
            \/ ~isEnd'[r] /\ CreateTime[p] < Timestamp(page)
  PROVE  PagesInv'
<1>0. /\ ProductPagesTypeOK /\ Products \subseteq Nat /\ product \subseteq Products
      /\ CreateTime \in [Products -> Nat \ {0}] /\ Opening \in Nat \ {0} /\ Closing \in Nat
  BY ProductPagesAssumption DEF PagesInv, ProductPagesTypeOK
<1>1. /\ shown' = [shown EXCEPT ![r] = @ \cup page]
      /\ cursor' = [cursor EXCEPT ![r] = Timestamp(page)]
      /\ began' = [began EXCEPT ![r] = IF @ = 0 THEN second ELSE @]
  BY DEF Show
<1>2. second \in Opening .. Closing /\ second \in Nat \ {0} /\ second \in 0 .. Closing
  BY <1>0 DEF ProductPagesTypeOK
<1>3. Timestamp(page) \in 0 .. Closing /\ (page # {} => Timestamp(page) # 0)
  <2>1. CASE page = {}
    BY <1>0, <2>1 DEF Timestamp
  <2>2. CASE page # {}
    <3>1. PICK q \in page : CreateTime[q] = Timestamp(page)
      BY <1>0, <2>2, TimestampOf
    <3>2. Timestamp(page) \in Nat \ {0} /\ Timestamp(page) <= second
      BY <1>0, <3>1, TimestampOf DEF PagesInv, PastInv
    <3> QED BY <1>0, <1>2, <3>2
  <2> QED BY <2>1, <2>2
<1>4. cursor[r] = 0 => began[r] = 0
  BY DEF PagesInv, ProductPagesTypeOK
<1>5. ProductPagesTypeOK'
  <2>1. /\ shown' \in [PageReaders -> SUBSET product]
        /\ cursor' \in [PageReaders -> 0 .. Closing]
        /\ began' \in [PageReaders -> 0 .. Closing]
    BY <1>0, <1>1, <1>2, <1>3 DEF ProductPagesTypeOK
  <2>2. \A s \in PageReaders : began'[s] # 0 /\ cursor'[s] = 0 => isEnd'[s]
    BY <1>0, <1>1, <1>3 DEF ProductPagesTypeOK
  <2> QED BY <1>0, <2>1, <2>2 DEF ProductPagesTypeOK
<1>6. PastInv'
  BY <1>0, <1>1, <1>2 DEF PagesInv, PastInv, ProductPagesTypeOK
<1>7. AheadInv'
  <2> SUFFICES ASSUME NEW s \in PageReaders, NEW p \in product, CreateTime[p] < began'[s]
               PROVE  PageCovered(s, p)' \/ (~isEnd'[s] /\ CreateTime[p] < cursor'[s])
    BY DEF AheadInv
  <2>1. PageCovered(s, p) => PageCovered(s, p)'
    BY <1>0, <1>1 DEF PageCovered, ProductPagesTypeOK
  <2>2. CASE s # r
    BY <1>0, <1>1, <2>1, <2>2 DEF PagesInv, AheadInv, ProductPagesTypeOK
  <2>3. CASE s = r
    <3>1. CASE PageCovered(r, p)
      BY <2>1, <2>3, <3>1
    <3>2. CASE ~PageCovered(r, p)
      <4>1. CreateTime[p] < Cursor(r)
        <5>1. CASE began[r] = 0
          BY <1>0, <1>1, <1>2, <2>3, <5>1
             DEF Cursor, PagesInv, ProductPagesTypeOK, AheadInv, PastInv
        <5>2. CASE began[r] # 0
          BY <1>0, <1>1, <1>4, <2>3, <3>2, <5>2
             DEF Cursor, PagesInv, ProductPagesTypeOK, AheadInv
        <5> QED BY <5>1, <5>2
      <4>2. shown'[r] = shown[r] \cup page /\ cursor'[r] = Timestamp(page)
        BY <1>0, <1>1 DEF ProductPagesTypeOK
      <4> QED BY <2>3, <4>1, <4>2 DEF PageCovered
    <3> QED BY <3>1, <3>2
  <2> QED BY <2>2, <2>3
<1> QED BY <1>5, <1>6, <1>7 DEF PagesInv

LEMMA PageFromSetStep ==
  ASSUME PagesInv, NEW r \in PageReaders, PageFromSet(r)
  PROVE  PagesInv'
<1>0. /\ ProductPagesTypeOK /\ IsFiniteSet(Products) /\ Ps \in Nat \ {0}
      /\ CreateTime \in [Products -> Nat \ {0}] /\ product \subseteq Products
      /\ Products \subseteq Nat
  BY ProductPagesAssumption DEF PagesInv, ProductPagesTypeOK
<1>1. PICK page \in FirstOf(InSet(r), Ps, BeforeInSet) :
         /\ Show(r, page)
         /\ passedBy' = [passedBy EXCEPT ![r] = @ \cup
              {p \in product \ zset : CreateTime[p] \in Timestamp(page) .. Cursor(r)}]
  BY DEF PageFromSet
<1>2. ~isEnd[r] /\ Enough(r) /\ UNCHANGED <<product, second, zset, adding, isEnd>>
  BY DEF PageFromSet
<1>3. /\ page \subseteq InSet(r) /\ Cardinality(page) = Min({Ps, Cardinality(InSet(r))})
      /\ \A p \in page, q \in InSet(r) \ page : ~BeforeInSet(q, p)
  BY <1>1 DEF FirstOf
<1>4. InSet(r) \subseteq zset /\ zset \subseteq product /\ IsFiniteSet(InSet(r))
  <2>1. InSet(r) \subseteq Products
    BY <1>0 DEF InSet, ProductPagesTypeOK
  <2> QED BY <1>0, <2>1, FS_Subset DEF InSet, ProductPagesTypeOK
<1>5. page # {} /\ page \subseteq product /\ page \in SUBSET Products
  <2>1. Cardinality(InSet(r)) \in Nat
    BY <1>4, FS_CardinalityType
  <2>2. Min({Ps, Cardinality(InSet(r))}) # 0
    BY <1>0, <1>2, <2>1, MinOfTwo DEF Enough
  <2> QED BY <1>0, <1>3, <1>4, <2>2, FS_EmptySet
<1>6. PICK q \in page : CreateTime[q] = Timestamp(page)
  BY <1>5, TimestampOf
<1>7. /\ passedBy' \in [PageReaders -> SUBSET product]
      /\ \A s \in PageReaders : passedBy[s] \subseteq passedBy'[s]
      /\ {p \in product \ zset : CreateTime[p] \in Timestamp(page) .. Cursor(r)}
           \subseteq passedBy'[r]
  BY <1>0, <1>1 DEF ProductPagesTypeOK
<1>8. Timestamp(page) \in Nat /\ Cursor(r) \in Nat
  BY <1>0, <1>5, TimestampOf, ProductPagesAssumption DEF Cursor, ProductPagesTypeOK
<1>8a. MaxFirst
  <2>1. /\ CreateTime[q] \in Nat \ {0}
        /\ CreateTime[q] \in IF MaxFirst THEN 0 .. Cursor(r) ELSE Cursor(r) .. 0
    BY <1>0, <1>3, <1>5, <1>6 DEF InSet
  <2> QED BY <1>8, <2>1
<1>9. ASSUME NEW p \in product, CreateTime[p] < Cursor(r)
      PROVE  \/ p \in page \cup passedBy'[r] \/ \E t \in page : CreateTime[t] = CreateTime[p]
             \/ ~isEnd'[r] /\ CreateTime[p] < Timestamp(page)
  <2>0. CreateTime[p] \in Nat /\ CreateTime[q] \in Nat
    BY <1>0, <1>5
  <2>1. CASE CreateTime[p] < Timestamp(page)
    BY <1>2, <2>1
  <2>2. CASE Timestamp(page) <= CreateTime[p] /\ p \notin zset
    <3>1. CreateTime[p] \in Timestamp(page) .. Cursor(r)
      BY <1>8, <1>9, <2>0, <2>2
    <3> QED BY <1>7, <2>2, <3>1
  <2>3. CASE Timestamp(page) <= CreateTime[p] /\ p \in zset /\ p \notin page
    <3>1. p \in InSet(r) \ page
      BY <1>8, <1>9, <1>8a, <2>0, <2>3 DEF InSet
    <3>2. ~(CreateTime[p] > CreateTime[q])
      BY <1>3, <3>1 DEF BeforeInSet, Before
    <3> QED BY <1>6, <2>0, <2>3, <3>2
  <2> QED BY <1>8, <2>0, <2>1, <2>2, <2>3
<1>10. /\ zset' \in SUBSET product /\ adding' \in SUBSET (SUBSET product)
       /\ isEnd' \in [PageReaders -> BOOLEAN]
  BY <1>0, <1>2 DEF ProductPagesTypeOK
<1>11. page \in SUBSET product /\ product' = product /\ second' = second /\ isEnd' = isEnd
  BY <1>2, <1>5
<1> QED BY <1>1, <1>2, <1>5, <1>7, <1>9, <1>10, <1>11, PageShown

LEMMA NotBefore ==
  ASSUME NEW p \in Products, NEW q \in Products, ~Before(p, q)
  PROVE  CreateTime[p] <= CreateTime[q]
BY ProductPagesAssumption DEF Before

LEMMA PageFromTableStep ==
  ASSUME PagesInv, NEW r \in PageReaders, PageFromTable(r)
  PROVE  PagesInv'
<1> DEFINE S == {p \in product : CreateTime[p] < Cursor(r)}
<1>0. /\ ProductPagesTypeOK /\ IsFiniteSet(Products) /\ Ps \in Nat \ {0}
      /\ CreateTime \in [Products -> Nat \ {0}] /\ product \subseteq Products
      /\ Products \subseteq Nat
  BY ProductPagesAssumption DEF PagesInv, ProductPagesTypeOK
<1>1. PICK found \in FirstOf(S, Limit, Before) :
         /\ isEnd' = [isEnd EXCEPT ![r] = Cardinality(found) <= Ps]
         /\ adding' = IF found = {} THEN adding ELSE adding \cup {found}
         /\ \E page \in FirstOf(found, Ps, Before) : Show(r, page)
  BY DEF PageFromTable
<1>2. PICK page \in FirstOf(found, Ps, Before) : Show(r, page)
  BY <1>1
<1>3. ~isEnd[r] /\ UNCHANGED <<product, second, zset, passedBy>>
  BY DEF PageFromTable
<1>4. /\ S \subseteq product /\ IsFiniteSet(S)
      /\ \A p \in product : p \in S <=> CreateTime[p] < Cursor(r)
  <2>1. S \subseteq Products
    BY <1>0
  <2> QED BY <1>0, <2>1, FS_Subset
<1> HIDE DEF S
<1>5. /\ found \subseteq S /\ IsFiniteSet(found)
      /\ Cardinality(found) = IF Ps + 1 <= Cardinality(S) THEN Ps + 1 ELSE Cardinality(S)
      /\ Cardinality(S) <= Ps + 1 => found = S
      /\ \A p \in found, q \in S \ found : ~Before(q, p)
  <2>1. Ps + 1 \in Nat /\ Limit = Ps + 1
    BY <1>0 DEF Limit
  <2> QED BY <1>1, <1>4, <2>1, FirstOfSet
<1>6. /\ page \subseteq found
      /\ Cardinality(page) = IF Ps <= Cardinality(found) THEN Ps ELSE Cardinality(found)
      /\ Cardinality(found) <= Ps => page = found
      /\ \A p \in page, q \in found \ page : ~Before(q, p)
  BY <1>0, <1>2, <1>5, FirstOfSet
<1>7. Cardinality(found) \in Nat /\ Cardinality(S) \in Nat
  BY <1>4, <1>5, FS_CardinalityType
<1>8. isEnd'[r] <=> Cardinality(found) <= Ps
  BY <1>0, <1>1 DEF ProductPagesTypeOK
<1>9. page = {} => isEnd'[r]
  BY <1>0, <1>6, <1>7, <1>8, FS_EmptySet
<1>10. /\ isEnd' \in [PageReaders -> BOOLEAN]
       /\ \A s \in PageReaders \ {r} : isEnd'[s] = isEnd[s]
       /\ adding' \in SUBSET (SUBSET product) /\ zset' \in SUBSET product
       /\ passedBy' \in [PageReaders -> SUBSET product]
       /\ \A s \in PageReaders : passedBy[s] \subseteq passedBy'[s]
       /\ page \in SUBSET product
  <2>1. (Cardinality(found) <= Ps) \in BOOLEAN
    OBVIOUS
  <2>2. isEnd' \in [PageReaders -> BOOLEAN]
    BY <1>0, <1>1, <2>1 DEF ProductPagesTypeOK
  <2>3. \A s \in PageReaders \ {r} : isEnd'[s] = isEnd[s]
    BY <1>0, <1>1 DEF ProductPagesTypeOK
  <2>4. found \subseteq product /\ page \in SUBSET product
    BY <1>4, <1>5, <1>6
  <2>5. adding' \in SUBSET (SUBSET product) /\ zset' \in SUBSET product
    BY <1>0, <1>1, <1>3, <2>4 DEF ProductPagesTypeOK
  <2>6. /\ passedBy' \in [PageReaders -> SUBSET product]
        /\ \A s \in PageReaders : passedBy[s] \subseteq passedBy'[s]
    BY <1>0, <1>3 DEF ProductPagesTypeOK
  <2> QED BY <2>2, <2>3, <2>4, <2>5, <2>6
<1>11. ASSUME NEW p \in product, CreateTime[p] < Cursor(r)
       PROVE  \/ p \in page \cup passedBy'[r] \/ \E t \in page : CreateTime[t] = CreateTime[p]
              \/ ~isEnd'[r] /\ CreateTime[p] < Timestamp(page)
  <2>1. p \in S
    BY <1>4, <1>11
  <2>2. CASE isEnd'[r]
    <3>1. Cardinality(S) <= Ps + 1
      BY <1>0, <1>5, <1>7, <1>8, <2>2
    <3> QED BY <1>5, <1>6, <1>8, <2>1, <2>2, <3>1
  <2>3. CASE ~isEnd'[r] /\ p \notin page
    <3>1. page # {} /\ page \in SUBSET Products
      BY <1>0, <1>9, <1>10, <2>3
    <3>2. PICK q \in page : CreateTime[q] = Timestamp(page)
      BY <3>1, TimestampOf
    <3>3. ~Before(p, q)
      BY <1>5, <1>6, <2>1, <2>3
    <3>4. CreateTime[p] \in Nat /\ CreateTime[q] \in Nat /\ CreateTime[p] <= CreateTime[q]
      BY <1>0, <3>1, <3>3, NotBefore
    <3> QED BY <2>3, <3>2, <3>4
  <2> QED BY <2>2, <2>3
<1> QED BY <1>2, <1>3, <1>9, <1>10, <1>11, PageShown

\* The set, its goroutines, the clock and the table.
LEMMA AroundPages ==
  ASSUME PagesInv, AddToSet \/ LoseSet \/ Tick \/ \E p \in Products : CreateProduct(p)
  PROVE  PagesInv'
<1>0. /\ ProductPagesTypeOK /\ CreateTime \in [Products -> Nat \ {0}]
      /\ Opening \in Nat \ {0} /\ Closing \in Nat
  BY ProductPagesAssumption DEF PagesInv
<1>1. ASSUME UNCHANGED <<product, second, cursor, isEnd, shown, passedBy, began>>,
             zset' \subseteq product, adding' \subseteq SUBSET product
      PROVE  PagesInv'
  <2>1. ProductPagesTypeOK'
    BY <1>0, <1>1 DEF ProductPagesTypeOK
  <2> QED BY <1>1, <2>1 DEF PagesInv, PastInv, AheadInv, PageCovered
<1>2. CASE AddToSet
  <2>1. PICK found \in adding : \E first \in FirstOf(found, 1, Before) :
          /\ zset' \in {zset \cup first, zset}
          /\ adding' = (adding \ {found}) \cup ({found \ first} \ {{}})
    BY <1>2 DEF AddToSet
  <2>2. PICK first \in FirstOf(found, 1, Before) :
          /\ zset' \in {zset \cup first, zset}
          /\ adding' = (adding \ {found}) \cup ({found \ first} \ {{}})
    BY <2>1
  <2>3. first \subseteq found
    BY DEF FirstOf
  <2>4. zset' \subseteq product /\ adding' \subseteq SUBSET product
    BY <1>0, <2>2, <2>3 DEF ProductPagesTypeOK
  <2> QED BY <1>1, <1>2, <2>4 DEF AddToSet
<1>3. CASE LoseSet
  BY <1>0, <1>1, <1>3 DEF LoseSet, ProductPagesTypeOK
<1>4. CASE Tick
  <2>1. ProductPagesTypeOK'
    BY <1>0, <1>4 DEF Tick, ProductPagesTypeOK
  <2>2. PastInv'
    BY <1>0, <1>4 DEF Tick, PagesInv, PastInv, ProductPagesTypeOK
  <2> QED BY <1>4, <2>1, <2>2 DEF Tick, PagesInv, AheadInv, PageCovered
<1>5. ASSUME NEW p \in Products, CreateProduct(p) PROVE PagesInv'
  <2>1. ProductPagesTypeOK'
    BY <1>0, <1>5 DEF CreateProduct, ProductPagesTypeOK
  <2>2. PastInv'
    BY <1>0, <1>5 DEF CreateProduct, PagesInv, PastInv, ProductPagesTypeOK
  <2>3. \A s \in PageReaders : ~(CreateTime[p] < began[s])
    BY <1>0, <1>5 DEF CreateProduct, PagesInv, PastInv, ProductPagesTypeOK
  <2> QED BY <1>5, <2>1, <2>2, <2>3 DEF CreateProduct, PagesInv, AheadInv, PageCovered
<1> QED BY <1>2, <1>3, <1>4, <1>5

LEMMA PagesStart == ProductPagesInit => PagesInv
<1> SUFFICES ASSUME ProductPagesInit PROVE PagesInv
  OBVIOUS
<1>0. /\ CreateTime \in [Products -> Nat \ {0}] /\ Products \subseteq Nat
      /\ Opening \in Nat \ {0} /\ Closing \in Nat /\ Opening <= Closing
  BY ProductPagesAssumption
<1>1. ProductPagesTypeOK
  BY <1>0 DEF ProductPagesInit, ProductPagesTypeOK
<1> QED BY <1>0, <1>1 DEF ProductPagesInit, PagesInv, PastInv, AheadInv

LEMMA PagesStep == PagesInv /\ [ProductPagesNext]_pageVars => PagesInv'
<1> SUFFICES ASSUME PagesInv, [ProductPagesNext]_pageVars PROVE PagesInv'
  OBVIOUS
<1>1. CASE UNCHANGED pageVars
  BY <1>1 DEF pageVars, PagesInv, ProductPagesTypeOK, PastInv, AheadInv, PageCovered
<1> QED BY <1>1, PageFromSetStep, PageFromTableStep, AroundPages DEF ProductPagesNext

\* A reader that was told there is no more has seen every product there was
\* before it began, but those of a second a page of its ended in and those the
\* set did not hold when a page from it went past (ProductList), for any
\* number of products, readers, losses of the set and new products.
THEOREM PagesLeaveNothingOut == ProductPagesSpec => []PagesComplete
<1>1. PagesInv => PagesComplete
  <2> SUFFICES ASSUME PagesInv, NEW r \in PageReaders, isEnd[r], NEW p \in product,
                      CreateTime[p] < began[r] /\ p \notin shown[r]
               PROVE  p \in passedBy[r] \/ \E q \in shown[r] : CreateTime[q] = CreateTime[p]
    BY DEF PagesComplete, MissingHasCause, PagesInv
  <2> QED BY DEF PagesInv, AheadInv, PageCovered
<1> QED BY <1>1, PagesStart, PagesStep, PTL DEF ProductPagesSpec

-----------------------------------------------------------------------------
(* The five together.                                                      *)

\* A behaviour of the run is one of each part, so that what is proved of a part
\* holds of the run, whichever part it explores.
THEOREM PartsAsSpecified ==
  RecordsSpec => /\ AddressSpec /\ CartSpec /\ OrderStatusSpec
                 /\ ProductPagesSpec /\ RequestSpec
<1> DEFINE RecordsNext == AddressStep \/ CartStep \/ StatusStep \/ PageStep \/ RequestStep
<1>1. RecordsInit => /\ AddressInit /\ CartInit /\ OrderStatusInit
                     /\ ProductPagesInit /\ RequestInit
  BY DEF RecordsInit
<1>2. [RecordsNext]_recordsVars =>
        /\ [AddressNext]_addressVars /\ [CartNext]_cartVars /\ [OrderStatusNext]_statusVars
        /\ [ProductPagesNext]_pageVars /\ [RequestNext]_requestVars
  BY DEF AddressStep, CartStep, StatusStep, PageStep, RequestStep, recordsVars
<1> QED
  BY <1>1, <1>2, PTL
     DEF RecordsSpec, AddressSpec, CartSpec, OrderStatusSpec, ProductPagesSpec, RequestSpec

\* What was deleted, an address (DelUserReceiveAddress) or the product of a
\* cart (DeleteCart), comes back only through a call that read it before.
THEOREM DeletionsStand == RecordsSpec => DeletionsHold
BY PartsAsSpecified, EditsRevive, CartDeletions, PTL DEF DeletionsHold

-----------------------------------------------------------------------------
(* Payments, reports, refunds and cache entries in any number, under any   *)
(* number of faults.  The inductive invariant is a stack: the types; that  *)
(* an entry, cached or about to be, is of a payment its key stands for;    *)
(* that its status, if not that of the row, has a cause; that nothing says *)
(* "paid" of a payment that never was; and that refunds which did not      *)
(* overlap fit into their payment.                                         *)

RowEntries == [payment : Payments, status : PaymentStatuses]

\* Entry e is of a payment that key k stands for.
OfKey(k, e) ==
    e \in RowEntries =>
        /\ k \in Payments => e.payment = k
        /\ k \in Orders => OrderOf[e.payment] = k

KeyInv ==
    /\ \A k \in Keys : OfKey(k, cache[k])
    /\ \A t \in Tasks : pc[t] = "fill" => OfKey(KeyOf(t), fetched[t])
    /\ \A o \in Orders : latest[o] # "none" => latest[o] \in Payments /\ OrderOf[latest[o]] = o

\* What a task is about to cache is the row, unless the task is late.
FillInv ==
    \A t \in Tasks :
        pc[t] = "fill" /\ fetched[t] \in RowEntries =>
            t \in late \/ fetched[t].status = row[fetched[t].payment]

PaidInv ==
    /\ \A p \in Payments : row[p] = "paid" => p \in everPaid
    /\ \A k \in Keys : cache[k] \in RowEntries /\ cache[k].status = "paid"
                         => cache[k].payment \in everPaid
    /\ \A t \in Tasks : pc[t] = "fill" /\ fetched[t] \in RowEntries /\ fetched[t].status = "paid"
                         => fetched[t].payment \in everPaid
    /\ \A r \in Refunds : pc[r] \in {"sum", "insert"} => RefundOf[r] \in everPaid

\* A refund has its row only when its call is over.
DoneInv == \A r \in Refunds : refund[r] # "absent" => pc[r] = "done"

\* What is refunded of p, and one refund about to be inserted, fit into it.
Fits(p) ==
    /\ Total(Counted(p)) <= Amount[p]
    /\ \A r \in RefundsOf(p) : pc[r] = "insert" =>
         /\ Total(Counted(p)) + RefundAmount[r] <= Amount[p]
         /\ \A other \in RefundsOf(p) : pc[other] = "insert" => other = r

FitInv == \A p \in Payments \ overlapped : Fits(p)

-----------------------------------------------------------------------------
(* What the operators return.                                              *)

\* The key of a task.
LEMMA KeyOfTask ==
  ASSUME NEW t \in Tasks
  PROVE  /\ KeyOf(t) \in Keys
         /\ t \in Reports => KeyOf(t) = About[t] /\ t \notin Refunds
         /\ t \in Refunds => KeyOf(t) = RefundOf[t] /\ t \notin Reports
BY PaymentAssumption DEF KeyOf, Tasks, Keys

LEMMA ReportKeys ==
  ASSUME NEW m \in Reports
  PROVE  /\ About[m] \in Payments /\ Status[m] \in PaymentStatuses
         /\ m \in Tasks /\ KeysOf(m) \subseteq Keys
         /\ \A k \in Keys, e \in RowEntries :
              OfKey(k, e) /\ e.payment = About[m] => k \in KeysOf(m)
BY PaymentAssumption DEF KeysOf, Keys, Tasks, OfKey, RowEntries

LEMMA EntryShape ==
  /\ Entries = RowEntries \cup {Missing}
  /\ Missing \notin RowEntries /\ None \notin RowEntries
BY DEF Entries, RowEntries, Missing, None, PaymentStatuses

LEMMA QueryEntry ==
  ASSUME PaymentTypeOK, KeyInv, NEW k \in Keys
  PROVE  /\ Query(k) \in Entries /\ OfKey(k, Query(k))
         /\ Query(k) \in RowEntries =>
              Query(k).payment \in Payments /\ Query(k).status = row[Query(k).payment]
<1>1. ASSUME NEW p \in Payments
      PROVE  /\ RowOf(p) \in Entries
             /\ RowOf(p) \in RowEntries => RowOf(p).payment = p /\ RowOf(p).status = row[p]
  BY EntryShape DEF PaymentTypeOK, RowOf, Entries, RowEntries
<1>2. CASE k \in Orders
  <2>1. k \notin Payments
    BY <1>2, PaymentAssumption
  <2>2. CASE latest[k] = "none"
    BY <1>2, <2>2, EntryShape DEF Query, LatestOf, OfKey
  <2>3. CASE latest[k] # "none"
    <3>1. latest[k] \in Payments /\ OrderOf[latest[k]] = k /\ Query(k) = RowOf(latest[k])
      BY <1>2, <2>3 DEF KeyInv, Query, LatestOf
    <3> QED BY <1>1, <2>1, <3>1 DEF OfKey
  <2> QED BY <2>2, <2>3
<1>3. CASE k \notin Orders
  <2>1. k \in Payments /\ Query(k) = RowOf(k)
    BY <1>3 DEF Keys, Query
  <2> QED BY <1>1, <1>3, <2>1 DEF OfKey
<1> QED BY <1>2, <1>3

\* Where a task goes with what it found.
LEMMA FoundPlace ==
  ASSUME NEW t \in Tasks, NEW e \in Entries
  PROVE  /\ OnceFound(t, e) \in {"idle", "ok", "failed", "update", "sum", "done"}
         /\ OnceFound(t, e) = "sum" =>
              t \in Refunds /\ e \in RowEntries /\ e.status = "paid"
         /\ t \in Refunds => OnceFound(t, e) \in {"sum", "done"}
<1>1. /\ EndOf(t, "ok") \in {"idle", "ok", "done"}
      /\ EndOf(t, "failed") \in {"idle", "failed", "done"}
  BY DEF EndOf
<1>2. t \in Refunds => t \notin Events /\ t \notin Reports
  BY PaymentAssumption DEF Reports
<1>3. t \in Refunds => EndOf(t, "ok") = "done" /\ EndOf(t, "failed") = "done"
  BY <1>2 DEF EndOf
<1>4. CASE e = Missing
  BY <1>1, <1>3, <1>4 DEF OnceFound
<1>5. CASE e # Missing
  BY <1>1, <1>2, <1>3, <1>5, EntryShape DEF OnceFound
<1> QED BY <1>4, <1>5

-----------------------------------------------------------------------------
(* Types.                                                                  *)

LEMMA InitType == Init => PaymentTypeOK
BY PaymentAssumption DEF Init, PaymentTypeOK, TaskPlaces, Entries

\* The message at the head of what the consumer holds.
LEMMA HeldMessage ==
  ASSUME PaymentTypeOK, held # <<>>
  PROVE  Head(held) \in Events /\ Head(held) \in Tasks /\ Tail(held) \in Seq(Events)
BY DEF PaymentTypeOK, Tasks, Reports

LEMMA GotoType ==
  ASSUME PaymentTypeOK, NEW t \in Tasks, NEW spot, Goto(t, spot)
  PROVE  /\ spot \in TaskPlaces => pc' \in [Tasks -> TaskPlaces]
         /\ pc'[t] = spot /\ \A u \in Tasks \ {t} : pc'[u] = pc[u]
BY DEF PaymentTypeOK, Goto

LEMMA FaultType ==
  ASSUME PaymentTypeOK, Fault
  PROVE  faults' \in 0 .. MaxPaymentFaults
BY PaymentAssumption DEF PaymentTypeOK, Fault

LEMMA EndPlace ==
  ASSUME NEW t, NEW outcome \in TaskPlaces
  PROVE  EndOf(t, outcome) \in TaskPlaces
BY DEF EndOf, TaskPlaces

LEMMA FindType ==
  ASSUME PaymentTypeOK, KeyInv, NEW t \in Tasks, Find(t)
  PROVE  PaymentTypeOK'
<1>1. KeyOf(t) \in Keys
  BY KeyOfTask
<1>2. CASE cache[KeyOf(t)] # None
  <2>1. cache[KeyOf(t)] \in Entries /\ Goto(t, OnceFound(t, cache[KeyOf(t)]))
    BY <1>1, <1>2 DEF PaymentTypeOK, Find
  <2>2. OnceFound(t, cache[KeyOf(t)]) \in TaskPlaces
    BY <2>1, FoundPlace DEF TaskPlaces
  <2>3. pc' \in [Tasks -> TaskPlaces]
    BY <2>1, <2>2, GotoType
  <2> QED BY <1>2, <2>3 DEF PaymentTypeOK, Find, queueVars, historyVars
<1>3. CASE cache[KeyOf(t)] = None
  <2>1. Goto(t, "fill") /\ "fill" \in TaskPlaces
    BY <1>3 DEF Find, TaskPlaces
  <2>2. pc' \in [Tasks -> TaskPlaces]
    BY <2>1, GotoType
  <2>3. Query(KeyOf(t)) \in Entries
    BY <1>1, QueryEntry
  <2> QED BY <1>3, <2>2, <2>3 DEF PaymentTypeOK, Find, queueVars, historyVars
<1> QED BY <1>2, <1>3

LEMMA FillType ==
  ASSUME PaymentTypeOK, NEW t \in Tasks, Fill(t)
  PROVE  PaymentTypeOK'
<1>1. KeyOf(t) \in Keys /\ fetched[t] \in Entries /\ Missing \in Entries
  BY KeyOfTask DEF PaymentTypeOK, Entries
<1>2. OnceFound(t, fetched[t]) \in TaskPlaces
  BY <1>1, FoundPlace DEF TaskPlaces
<1>3. pc' \in [Tasks -> TaskPlaces]
  BY <1>2, GotoType DEF Fill
<1> QED BY <1>1, <1>3 DEF PaymentTypeOK, Fill, queueVars

LEMMA UpdateType ==
  ASSUME PaymentTypeOK, NEW m \in Reports, UpdateRow(m)
  PROVE  PaymentTypeOK'
<1>1. About[m] \in Payments /\ Status[m] \in PaymentStatuses /\ m \in Tasks
  BY ReportKeys
<1>2. "evict" \in TaskPlaces /\ EndOf(m, "failed") \in TaskPlaces
  BY EndPlace DEF TaskPlaces
<1>3. pc' \in [Tasks -> TaskPlaces]
  BY <1>1, <1>2, GotoType DEF UpdateRow
<1>4. faults' \in 0 .. MaxPaymentFaults
  BY FaultType DEF UpdateRow, PaymentTypeOK
<1>5. /\ row' \in [Payments -> PaymentStatuses \cup {"missing"}]
      /\ everPaid' \subseteq Payments /\ late' \subseteq Tasks
  BY <1>1 DEF UpdateRow, PaymentTypeOK
<1> QED BY <1>3, <1>4, <1>5 DEF PaymentTypeOK, UpdateRow, queueVars

LEMMA EvictType ==
  ASSUME PaymentTypeOK, NEW m \in Reports, EvictRow(m)
  PROVE  PaymentTypeOK'
<1>1. KeysOf(m) \subseteq Keys /\ m \in Tasks
  BY ReportKeys
<1>2. pc' \in [Tasks -> TaskPlaces]
  <2>1. EndOf(m, "ok") \in TaskPlaces
    BY EndPlace DEF TaskPlaces
  <2> QED BY <1>1, <2>1, GotoType DEF EvictRow
<1>3. faults' \in 0 .. MaxPaymentFaults
  BY FaultType DEF EvictRow, PaymentTypeOK
<1>4. cache' \in [Keys -> Entries \cup {None}] /\ stale' \subseteq Keys
  BY <1>1 DEF EvictRow, Evict, PaymentTypeOK
<1> QED BY <1>2, <1>3, <1>4 DEF PaymentTypeOK, EvictRow, queueVars

LEMMA QueueTypes ==
  ASSUME PaymentTypeOK,
         (\E m \in Events : Publish(m)) \/ Deliver \/ AckOrNack
  PROVE  PaymentTypeOK'
<1>1. ASSUME NEW m \in Events, Publish(m) PROVE PaymentTypeOK'
  BY <1>1 DEF PaymentTypeOK, Publish, historyVars
<1>2. CASE Deliver
  <2>1. /\ Head(queue) \in Events /\ Tail(queue) \in Seq(Events)
        /\ Append(held, Head(queue)) \in Seq(Events)
    BY <1>2 DEF PaymentTypeOK, Deliver
  <2> QED BY <1>2, <2>1 DEF PaymentTypeOK, Deliver, historyVars
<1>3. CASE AckOrNack
  <2>1. Head(held) \in Events /\ Head(held) \in Tasks /\ Tail(held) \in Seq(Events)
    BY <1>3, HeldMessage DEF AckOrNack
  <2>2. pc' \in [Tasks -> TaskPlaces]
    BY <1>3, <2>1, GotoType DEF AckOrNack, TaskPlaces
  <2>3. queue' \in Seq(Events)
    <3>1. Requeued \in Seq(Events)
      BY <2>1 DEF Requeued, PaymentTypeOK
    <3> QED BY <1>3, <3>1 DEF AckOrNack, PaymentTypeOK
  <2> QED BY <1>3, <2>1, <2>2, <2>3 DEF PaymentTypeOK, AckOrNack, historyVars
<1> QED BY <1>1, <1>2, <1>3

LEMMA CrashTypes ==
  ASSUME PaymentTypeOK,
         ConsumerCrash \/ \E t \in Tasks \ Events : HandlerCrash(t)
  PROVE  PaymentTypeOK'
<1>1. /\ \A m \in Reports : Unevicted(m) \subseteq Keys
      /\ Missing \in Entries /\ "idle" \in TaskPlaces /\ Events \subseteq Reports
  BY ReportKeys DEF Unevicted, Entries, TaskPlaces, Reports
<1>2. CASE ConsumerCrash
  <2>1. faults' \in 0 .. MaxPaymentFaults
    BY <1>2, FaultType DEF ConsumerCrash
  <2>2. /\ pc' \in [Tasks -> TaskPlaces] /\ fetched' \in [Tasks -> Entries]
        /\ held \o queue \in Seq(Events) /\ <<>> \in Seq(Events)
    BY <1>1, <1>2 DEF ConsumerCrash, PaymentTypeOK
  <2>3. stale' \subseteq Keys /\ late' \subseteq Tasks
    BY <1>1, <1>2 DEF ConsumerCrash, PaymentTypeOK
  <2> QED BY <1>2, <2>1, <2>2, <2>3 DEF PaymentTypeOK, ConsumerCrash
<1>3. ASSUME NEW t \in Tasks \ Events, HandlerCrash(t) PROVE PaymentTypeOK'
  <2>1. faults' \in 0 .. MaxPaymentFaults
    BY <1>3, FaultType DEF HandlerCrash
  <2>2. pc' \in [Tasks -> TaskPlaces]
    <3>1. EndOf(t, "failed") \in TaskPlaces
      BY EndPlace DEF TaskPlaces
    <3> QED BY <1>3, <3>1, GotoType DEF HandlerCrash
  <2>3. stale' \subseteq Keys /\ late' \subseteq Tasks /\ fetched' \in [Tasks -> Entries]
    BY <1>1, <1>3 DEF HandlerCrash, PaymentTypeOK
  <2> QED BY <1>3, <2>1, <2>2, <2>3 DEF PaymentTypeOK, HandlerCrash, queueVars
<1> QED BY <1>2, <1>3

LEMMA RefundTypes ==
  ASSUME PaymentTypeOK, NEW r \in Refunds, CheckSum(r) \/ InsertRefund(r)
  PROVE  PaymentTypeOK'
<1>1. r \in Tasks /\ RefundOf[r] \in Payments
  BY PaymentAssumption DEF Tasks
<1>2. pc' \in [Tasks -> TaskPlaces]
  BY <1>1, GotoType DEF CheckSum, InsertRefund, TaskPlaces
<1>3. CASE CheckSum(r)
  BY <1>1, <1>2, <1>3 DEF PaymentTypeOK, CheckSum, queueVars
<1>4. CASE InsertRefund(r)
  <2>1. faults' \in 0 .. MaxPaymentFaults
    BY <1>4, FaultType DEF InsertRefund, PaymentTypeOK
  <2>2. refund' \in [Refunds -> {"absent", "pending", "success"}]
    BY <1>4 DEF InsertRefund, PaymentTypeOK
  <2> QED BY <1>2, <1>4, <2>1, <2>2 DEF PaymentTypeOK, InsertRefund, queueVars, historyVars
<1> QED BY <1>3, <1>4

LEMMA StepType == PaymentTypeOK /\ KeyInv /\ [Next]_vars => PaymentTypeOK'
<1> SUFFICES ASSUME PaymentTypeOK, KeyInv, [Next]_vars PROVE PaymentTypeOK'
  OBVIOUS
<1>1. ASSUME NEW p \in Payments, CreatePayment(p) PROVE PaymentTypeOK'
  BY <1>1, PaymentAssumption
     DEF PaymentTypeOK, CreatePayment, PaymentStatuses, queueVars, historyVars
<1>2. ASSUME NEW k \in Keys, Expire(k) PROVE PaymentTypeOK'
  BY <1>2 DEF PaymentTypeOK, Expire, queueVars
<1>3. CASE Consume
  BY <1>3, HeldMessage, FindType DEF Consume
<1>4. CASE UNCHANGED vars
  BY <1>4 DEF PaymentTypeOK, vars, queueVars, historyVars
<1> QED BY <1>1, <1>2, <1>3, <1>4, FindType, FillType, UpdateType, EvictType,
           QueueTypes, CrashTypes, RefundTypes DEF Next, TaskStep

-----------------------------------------------------------------------------
(* Entries and their causes.                                               *)

CacheInv == KeyInv /\ FillInv /\ StaleHasCause /\ PaidInv

LEMMA InitCache == Init => CacheInv
BY EntryShape
   DEF Init, CacheInv, KeyInv, OfKey, FillInv, StaleHasCause, PaidInv, RowEntries, Tasks

LEMMA FindCache ==
  ASSUME PaymentTypeOK, CacheInv, NEW t \in Tasks, Find(t)
  PROVE  CacheInv'
<1> DEFINE k == KeyOf(t)
<1>1. k \in Keys /\ OfKey(k, cache[k]) /\ (t \in Refunds => k = RefundOf[t])
  BY KeyOfTask DEF CacheInv, KeyInv
<1>2. CASE cache[k] # None
  <2>1. cache[k] \in Entries /\ Goto(t, OnceFound(t, cache[k])) /\ fetched' = fetched
    BY <1>1, <1>2 DEF PaymentTypeOK, Find
  <2>2. /\ pc'[t] = OnceFound(t, cache[k])
        /\ \A u \in Tasks \ {t} : pc'[u] = pc[u]
    BY <2>1, GotoType
  <2>3. pc'[t] \notin {"fill", "insert", "evict"} /\ pc[t] # "evict"
    BY <2>1, <2>2, FoundPlace DEF Find
  <2>4. pc'[t] = "sum" => t \in Refunds /\ RefundOf[t] \in everPaid
    <3> SUFFICES ASSUME pc'[t] = "sum" PROVE t \in Refunds /\ RefundOf[t] \in everPaid
      OBVIOUS
    <3>1. t \in Refunds /\ cache[k] \in RowEntries /\ cache[k].status = "paid"
      BY <2>1, <2>2, FoundPlace
    <3>2. cache[k].payment = RefundOf[t]
      BY <1>1, <3>1, PaymentAssumption DEF OfKey
    <3> QED BY <1>1, <3>1, <3>2 DEF CacheInv, PaidInv
  <2> QED BY <2>1, <2>2, <2>3, <2>4
          DEF Find, CacheInv, KeyInv, OfKey, FillInv, StaleHasCause, PaidInv,
              historyVars, Tasks
<1>3. CASE cache[k] = None
  <2>1. Goto(t, "fill") /\ fetched' = [fetched EXCEPT ![t] = Query(k)]
    BY <1>3 DEF Find
  <2>2. /\ pc'[t] = "fill" /\ pc[t] = "idle"
        /\ \A u \in Tasks \ {t} : pc'[u] = pc[u] /\ fetched'[u] = fetched[u]
        /\ fetched'[t] = Query(k)
    BY <2>1, GotoType DEF Find, PaymentTypeOK
  <2>3. /\ OfKey(k, fetched'[t])
        /\ fetched'[t] \in RowEntries =>
             fetched'[t].payment \in Payments /\ fetched'[t].status = row[fetched'[t].payment]
    BY <1>1, <2>2, QueryEntry DEF CacheInv
  <2> QED BY <2>2, <2>3
          DEF Find, CacheInv, KeyInv, OfKey, FillInv, StaleHasCause, PaidInv,
              historyVars, Tasks
<1> QED BY <1>2, <1>3

LEMMA FillCache ==
  ASSUME PaymentTypeOK, CacheInv, NEW t \in Tasks, Fill(t)
  PROVE  CacheInv'
<1> DEFINE k == KeyOf(t)
<1>1. /\ k \in Keys /\ (t \in Refunds => k = RefundOf[t])
      /\ fetched[t] \in Entries /\ OfKey(k, fetched[t])
  BY KeyOfTask DEF PaymentTypeOK, Fill, CacheInv, KeyInv
<1>2. /\ pc[t] = "fill" /\ pc'[t] = OnceFound(t, fetched[t])
      /\ \A u \in Tasks \ {t} : pc'[u] = pc[u] /\ fetched'[u] = fetched[u]
  BY GotoType DEF Fill, PaymentTypeOK
<1>3. pc'[t] \notin {"fill", "insert", "evict"}
  BY <1>1, <1>2, FoundPlace
<1>4. /\ cache'[k] = fetched[t] /\ \A j \in Keys \ {k} : cache'[j] = cache[j]
      /\ row' = row /\ latest' = latest /\ everPaid' = everPaid
      /\ \A u \in Tasks \ {t} : u \in late' <=> u \in late
      /\ \A j \in Keys \ {k} : j \in stale' <=> j \in stale
      /\ t \in late => k \in stale'
  BY <1>1 DEF PaymentTypeOK, Fill
<1> HIDE DEF k
<1>5. KeyInv' /\ FillInv'
  BY <1>1, <1>2, <1>3, <1>4 DEF CacheInv, KeyInv, OfKey, FillInv
<1>6. StaleHasCause'
  <2> SUFFICES ASSUME NEW j \in Keys, cache'[j] \in RowEntries
               PROVE  \/ cache'[j].status = row'[cache'[j].payment]
                      \/ j \in stale'
                      \/ \E m \in Reports : pc'[m] = "evict" /\ j \in KeysOf(m)
    BY DEF StaleHasCause, RowEntries, KeysOf
  <2>1. CASE j = k
    BY <1>2, <1>4, <2>1 DEF CacheInv, FillInv
  <2>2. CASE j # k
    BY <1>2, <1>4, <2>2 DEF CacheInv, StaleHasCause, RowEntries, Tasks
  <2> QED BY <2>1, <2>2
<1>7. PaidInv'
  <2>1. pc'[t] = "sum" /\ t \in Refunds => RefundOf[t] \in everPaid
    <3> SUFFICES ASSUME pc'[t] = "sum", t \in Refunds PROVE RefundOf[t] \in everPaid
      OBVIOUS
    <3>1. fetched[t] \in RowEntries /\ fetched[t].status = "paid"
      BY <1>1, <1>2, FoundPlace
    <3>2. fetched[t].payment = RefundOf[t]
      BY <1>1, <3>1, PaymentAssumption DEF OfKey
    <3> QED BY <1>2, <3>1, <3>2 DEF CacheInv, PaidInv
  <2> QED BY <1>2, <1>3, <1>4, <2>1 DEF CacheInv, PaidInv, Tasks
<1> QED BY <1>5, <1>6, <1>7 DEF CacheInv

\* Steps after which fewer tasks are where the invariant looks at them.
LEMMA LeaveCache ==
  ASSUME CacheInv, cache' = cache, latest' = latest, row' = row, everPaid' = everPaid,
         \A t \in Tasks : pc'[t] = "fill" => /\ pc[t] = "fill" /\ fetched'[t] = fetched[t]
                                             /\ t \in late => t \in late',
         \A r \in Refunds : pc'[r] \in {"sum", "insert"} => pc[r] \in {"sum", "insert"},
         \A k \in Keys : k \in stale => k \in stale',
         \A m \in Reports : pc[m] = "evict" =>
            pc'[m] = "evict" \/ \A k \in KeysOf(m) : k \in stale'
  PROVE  CacheInv'
BY DEF CacheInv, KeyInv, OfKey, FillInv, StaleHasCause, PaidInv, KeysOf

LEMMA UpdateCache ==
  ASSUME PaymentTypeOK, CacheInv, NEW m \in Reports, UpdateRow(m)
  PROVE  CacheInv'
<1>1. About[m] \in Payments /\ m \in Tasks /\ m \notin Refunds
  BY ReportKeys, KeyOfTask
<1>2. /\ pc[m] = "update" /\ \A t \in Tasks \ {m} : pc'[t] = pc[t]
      /\ cache' = cache /\ fetched' = fetched /\ latest' = latest /\ stale' = stale
  BY <1>1, GotoType DEF UpdateRow
<1>3. CASE pc'[m] = EndOf(m, "failed") /\ row' = row /\ everPaid' = everPaid /\ late' = late
  <2>1. pc'[m] \notin {"fill", "evict"}
    BY <1>3 DEF EndOf
  <2> QED BY <1>1, <1>2, <1>3, <2>1, LeaveCache, PaymentAssumption DEF Tasks
<1>4. CASE /\ row' = [row EXCEPT ![About[m]] = Status[m]]
           /\ everPaid' = IF Status[m] = "paid" THEN everPaid \cup {About[m]} ELSE everPaid
           /\ late' = late \cup {t \in Tasks : pc[t] = "fill" /\ KeyOf(t) \in KeysOf(m)}
           /\ Goto(m, "evict")
  <2>1. pc'[m] = "evict"
    BY <1>1, <1>4, GotoType
  <2>2. /\ row'[About[m]] = Status[m]
        /\ \A p \in Payments \ {About[m]} : row'[p] = row[p]
    BY <1>1, <1>4 DEF PaymentTypeOK
  <2>3. KeyInv'
    BY <1>2, <2>1 DEF CacheInv, KeyInv, OfKey
  <2>4. FillInv'
    <3> SUFFICES ASSUME NEW t \in Tasks, pc'[t] = "fill", fetched[t] \in RowEntries, t \notin late'
                 PROVE  fetched[t].status = row'[fetched[t].payment]
      BY <1>2 DEF FillInv
    <3>1. pc[t] = "fill" /\ t \notin late /\ KeyOf(t) \notin KeysOf(m)
      BY <1>2, <1>4, <2>1
    <3>2. fetched[t].payment # About[m] /\ fetched[t].payment \in Payments
      BY <3>1, KeyOfTask, ReportKeys DEF CacheInv, KeyInv, RowEntries
    <3> QED BY <2>2, <3>1, <3>2 DEF CacheInv, FillInv
  <2>5. StaleHasCause'
    <3> SUFFICES ASSUME NEW k \in Keys, cache[k] \in RowEntries
                 PROVE  \/ cache[k].status = row'[cache[k].payment]
                        \/ k \in stale
                        \/ \E n \in Reports : pc'[n] = "evict" /\ k \in KeysOf(n)
      BY <1>2 DEF StaleHasCause, RowEntries, KeysOf
    <3>1. CASE cache[k].payment = About[m]
      BY <2>1, <3>1, ReportKeys DEF CacheInv, KeyInv
    <3>2. CASE cache[k].payment # About[m]
      <4>1. row'[cache[k].payment] = row[cache[k].payment]
        BY <2>2, <3>2 DEF RowEntries
      <4>2. \A n \in Reports : pc[n] = "evict" => pc'[n] = "evict"
        BY <1>2, <2>1 DEF Tasks
      <4> QED BY <4>1, <4>2 DEF CacheInv, StaleHasCause, RowEntries
    <3> QED BY <3>1, <3>2
  <2>6. PaidInv'
    BY <1>1, <1>2, <1>4, <2>1, <2>2 DEF CacheInv, PaidInv, Tasks
  <2> QED BY <2>3, <2>4, <2>5, <2>6 DEF CacheInv
<1>5. Goto(m, EndOf(m, "failed")) => pc'[m] = EndOf(m, "failed")
  BY <1>1, GotoType
<1> QED BY <1>3, <1>4, <1>5 DEF UpdateRow

LEMMA EvictCache ==
  ASSUME PaymentTypeOK, CacheInv, NEW m \in Reports, EvictRow(m)
  PROVE  CacheInv'
<1>1. KeysOf(m) \subseteq Keys /\ m \in Tasks /\ m \notin Refunds
  BY ReportKeys, KeyOfTask
<1>2. /\ pc'[m] = EndOf(m, "ok") /\ \A t \in Tasks \ {m} : pc'[t] = pc[t]
      /\ row' = row /\ fetched' = fetched /\ latest' = latest /\ everPaid' = everPaid
      /\ late' = late
  BY <1>1, GotoType DEF EvictRow
<1>3. pc'[m] \notin {"fill", "evict"}
  BY <1>2 DEF EndOf
<1>4. CASE stale' = stale \cup KeysOf(m) /\ cache' = cache
  BY <1>1, <1>2, <1>3, <1>4, LeaveCache DEF Tasks
<1>5. CASE cache' = Evict(m) /\ stale' = stale \ KeysOf(m)
  <2>1. \A k \in Keys : IF k \in KeysOf(m) THEN cache'[k] = None
                                           ELSE cache'[k] = cache[k]
    BY <1>5 DEF Evict
  <2>2. KeyInv'
    BY <1>2, <1>3, <2>1, EntryShape DEF CacheInv, KeyInv, OfKey
  <2>3. FillInv'
    BY <1>2, <1>3 DEF CacheInv, FillInv
  <2>4. StaleHasCause'
    <3> SUFFICES ASSUME NEW k \in Keys, cache'[k] \in RowEntries
                 PROVE  \/ cache'[k].status = row[cache'[k].payment]
                        \/ k \in stale'
                        \/ \E n \in Reports : pc'[n] = "evict" /\ k \in KeysOf(n)
      BY <1>2 DEF StaleHasCause, RowEntries, KeysOf
    <3>1. k \notin KeysOf(m) /\ cache'[k] = cache[k]
      BY <2>1, EntryShape
    <3>2. \A n \in Reports : pc[n] = "evict" /\ k \in KeysOf(n) => pc'[n] = "evict"
      BY <1>2, <3>1 DEF Tasks
    <3> QED BY <1>5, <3>1, <3>2 DEF CacheInv, StaleHasCause, RowEntries
  <2>5. PaidInv'
    BY <1>1, <1>2, <1>3, <2>1, EntryShape DEF CacheInv, PaidInv, Tasks
  <2> QED BY <2>2, <2>3, <2>4, <2>5 DEF CacheInv
<1> QED BY <1>4, <1>5 DEF EvictRow

LEMMA CreateCache ==
  ASSUME PaymentTypeOK, CacheInv, NEW p \in Payments, CreatePayment(p)
  PROVE  CacheInv'
<1>1. /\ row[p] = "missing" /\ row'[p] = "pending"
      /\ \A q \in Payments \ {p} : row'[q] = row[q]
      /\ UNCHANGED <<cache, pc, fetched, everPaid, late, stale>>
  BY DEF CreatePayment, PaymentTypeOK, historyVars
<1>2. /\ OrderOf[p] \in Orders /\ latest'[OrderOf[p]] = p
      /\ \A o \in Orders \ {OrderOf[p]} : latest'[o] = latest[o]
  BY PaymentAssumption DEF CreatePayment, PaymentTypeOK
<1>3. KeyInv'
  BY <1>1, <1>2 DEF CacheInv, KeyInv, OfKey
<1>4. \A e \in RowEntries : e.payment \in Payments /\ e.status # "missing"
  BY DEF RowEntries, PaymentStatuses
<1>5. FillInv' /\ StaleHasCause'
  BY <1>1, <1>4 DEF CacheInv, FillInv, StaleHasCause, RowEntries, KeysOf
<1>6. PaidInv'
  BY <1>1 DEF CacheInv, PaidInv
<1> QED BY <1>3, <1>5, <1>6 DEF CacheInv

LEMMA ExpireCache ==
  ASSUME PaymentTypeOK, CacheInv, NEW k \in Keys, Expire(k)
  PROVE  CacheInv'
<1>1. /\ cache'[k] = None /\ \A j \in Keys \ {k} : cache'[j] = cache[j]
      /\ stale' = stale \ {k}
      /\ UNCHANGED <<latest, row, pc, fetched, everPaid, late>>
  BY DEF Expire, PaymentTypeOK
<1> QED BY <1>1, EntryShape
        DEF CacheInv, KeyInv, OfKey, FillInv, StaleHasCause, PaidInv, RowEntries, KeysOf

LEMMA RestCache ==
  ASSUME PaymentTypeOK, CacheInv,
         \/ (\E m \in Events : Publish(m)) \/ Deliver \/ AckOrNack \/ ConsumerCrash
         \/ \E t \in Tasks \ Events : HandlerCrash(t)
         \/ \E r \in Refunds : CheckSum(r) \/ InsertRefund(r)
         \/ UNCHANGED vars
  PROVE  CacheInv'
<1>1. ASSUME NEW m \in Events, Publish(m) PROVE CacheInv'
  BY <1>1, LeaveCache DEF Publish, historyVars
<1>2. CASE Deliver
  BY <1>2, LeaveCache DEF Deliver, historyVars
<1>3. CASE AckOrNack
  <2>1. Head(held) \in Events /\ Head(held) \in Tasks
    BY <1>3, HeldMessage DEF AckOrNack
  <2>2. /\ pc[Head(held)] # "evict" /\ pc'[Head(held)] = "idle"
        /\ \A u \in Tasks \ {Head(held)} : pc'[u] = pc[u]
    BY <1>3, <2>1, GotoType DEF AckOrNack
  <2> QED BY <1>3, <2>2, LeaveCache DEF AckOrNack, historyVars, Tasks
<1>4. CASE ConsumerCrash
  <2>1. /\ \A t \in Tasks : IF t \in Events THEN pc'[t] = "idle"
                            ELSE /\ pc'[t] = pc[t] /\ fetched'[t] = fetched[t]
                                 /\ t \in late => t \in late'
        /\ UNCHANGED <<cache, latest, row, everPaid>>
        /\ \A k \in Keys : k \in stale => k \in stale'
    BY <1>4 DEF ConsumerCrash
  <2>2. \A m \in Events : pc[m] = "evict" => \A k \in KeysOf(m) : k \in stale'
    BY <1>4 DEF ConsumerCrash, Unevicted
  <2> QED BY <2>1, <2>2, LeaveCache DEF Tasks, Reports
<1>5. ASSUME NEW t \in Tasks \ Events, HandlerCrash(t) PROVE CacheInv'
  <2>1. /\ pc'[t] \in {"idle", "done"} /\ \A u \in Tasks \ {t} : pc'[u] = pc[u]
        /\ \A u \in Tasks \ {t} : fetched'[u] = fetched[u] /\ (u \in late => u \in late')
    BY <1>5, GotoType DEF HandlerCrash, EndOf, PaymentTypeOK
  <2>2. t \in Reports /\ pc[t] = "evict" => \A k \in KeysOf(t) : k \in stale'
    BY <1>5 DEF HandlerCrash, Unevicted
  <2> QED BY <1>5, <2>1, <2>2, LeaveCache DEF HandlerCrash, Tasks
<1>6. ASSUME NEW r \in Refunds, CheckSum(r) \/ InsertRefund(r) PROVE CacheInv'
  <2>1. /\ r \in Tasks /\ r \notin Reports
        /\ pc[r] \in {"sum", "insert"}
        /\ pc'[r] \in {"insert", "done"} /\ (pc'[r] = "insert" => pc[r] = "sum")
        /\ \A u \in Tasks \ {r} : pc'[u] = pc[u]
    BY <1>6, GotoType, PaymentAssumption DEF CheckSum, InsertRefund, Tasks
  <2>2. UNCHANGED <<cache, latest, row, everPaid, fetched, late, stale>>
    BY <1>6 DEF CheckSum, InsertRefund, historyVars
  <2> QED BY <2>1, <2>2, LeaveCache DEF Tasks
<1>7. CASE UNCHANGED vars
  BY <1>7, LeaveCache DEF vars, historyVars
<1> QED BY <1>1, <1>2, <1>3, <1>4, <1>5, <1>6, <1>7

LEMMA StepCache == PaymentTypeOK /\ CacheInv /\ [Next]_vars => CacheInv'
<1> SUFFICES ASSUME PaymentTypeOK, CacheInv, [Next]_vars PROVE CacheInv'
  OBVIOUS
<1>1. CASE Consume
  BY <1>1, HeldMessage, FindCache DEF Consume
<1> QED BY <1>1, FindCache, FillCache, UpdateCache, EvictCache, CreateCache, ExpireCache,
           RestCache DEF Next, TaskStep

-----------------------------------------------------------------------------
(* What refunds amount to.                                                 *)

UnitsOf(r) == {r} \X (1 .. RefundAmount[r])

LEMMA UnitsOfOne ==
  ASSUME NEW r \in Refunds
  PROVE  /\ IsFiniteSet(UnitsOf(r)) /\ Cardinality(UnitsOf(r)) = RefundAmount[r]
         /\ RefundAmount[r] \in Nat
<1> DEFINE N == RefundAmount[r]
<1>1. N \in Nat \ {0}
  BY PaymentAssumption
<1>2. IsFiniteSet({r}) /\ Cardinality({r}) = 1
  BY FS_Singleton
<1>3. IsFiniteSet(1 .. N) /\ Cardinality(1 .. N) = N
  <2>1. /\ IsFiniteSet(1 .. N)
        /\ Cardinality(1 .. N) = IF 1 > N THEN 0 ELSE N - 1 + 1
    BY <1>1, FS_Interval
  <2> QED BY <1>1, <2>1
<1> HIDE DEF N
<1>4. /\ IsFiniteSet({r} \X (1 .. N))
      /\ Cardinality({r} \X (1 .. N)) = Cardinality({r}) * Cardinality(1 .. N)
  BY <1>2, <1>3, FS_Product
<1>5. Cardinality({r} \X (1 .. N)) = N
  BY <1>1, <1>2, <1>3, <1>4
<1> QED BY <1>1, <1>4, <1>5 DEF UnitsOf, N

LEMMA TotalType ==
  ASSUME NEW R \in SUBSET Refunds
  PROVE  Total(R) \in Nat /\ IsFiniteSet(UNION {UnitsOf(r) : r \in R})
<1>1. IsFiniteSet(R)
  BY PaymentAssumption, FS_Subset
<1>2. IsFiniteSet({UnitsOf(r) : r \in R})
  <2> DEFINE f == [r \in R |-> UnitsOf(r)]
  <2>1. f \in Surjection(R, {UnitsOf(r) : r \in R})
    BY DEF Surjection
  <2> HIDE DEF f
  <2> QED BY <1>1, <2>1, FS_Surjection
<1>3. IsFiniteSet(UNION {UnitsOf(r) : r \in R})
  BY <1>2, UnitsOfOne, FS_UNION
<1> QED BY <1>3, FS_CardinalityType DEF Total, UnitsOf

LEMMA TotalNone == Total({}) = 0
<1>1. UNION {{r} \X (1 .. RefundAmount[r]) : r \in {}} = {}
  OBVIOUS
<1> QED BY <1>1, FS_EmptySet DEF Total

\* One more refund adds its amount.
LEMMA TotalAdd ==
  ASSUME NEW R \in SUBSET Refunds, NEW r \in Refunds, r \notin R
  PROVE  Total(R \cup {r}) = Total(R) + RefundAmount[r]
<1> DEFINE U == UNION {UnitsOf(q) : q \in R}
           V == UNION {UnitsOf(q) : q \in R \cup {r}}
<1>1. V = U \cup UnitsOf(r)
  OBVIOUS
<1>2. U \cap UnitsOf(r) = {}
  BY DEF UnitsOf
<1>3. IsFiniteSet(U) /\ IsFiniteSet(UnitsOf(r))
  BY TotalType, UnitsOfOne
<1>4. Total(R) = Cardinality(U) /\ Total(R \cup {r}) = Cardinality(V)
  BY DEF Total, UnitsOf
<1>5. Total(R) \in Nat
  BY TotalType
<1> HIDE DEF U, V
<1>6. Cardinality(U \cup UnitsOf(r)) =
        Cardinality(U) + Cardinality(UnitsOf(r)) - Cardinality(U \cap UnitsOf(r))
  BY <1>3, FS_Union
<1>7. Cardinality({}) = 0
  BY FS_EmptySet
<1>8. Cardinality(V) = Cardinality(U) + Cardinality(UnitsOf(r)) - Cardinality({})
  BY <1>1, <1>2, <1>6, Zenon
<1>9. Cardinality(UnitsOf(r)) = RefundAmount[r] /\ RefundAmount[r] \in Nat
  BY UnitsOfOne
<1> QED BY <1>4, <1>5, <1>7, <1>8, <1>9

-----------------------------------------------------------------------------
(* Refunds.                                                                *)

RefundInv == DoneInv /\ FitInv /\ RefundsOnlyPaid

LEMMA InitRefund == Init => RefundInv
<1> SUFFICES ASSUME Init PROVE RefundInv
  OBVIOUS
<1>1. \A p \in Payments : Counted(p) = {}
  BY DEF Init, Counted, RefundsOf
<1>2. ASSUME NEW p \in Payments PROVE Fits(p)
  <2>1. Total(Counted(p)) = 0
    BY <1>1, TotalNone
  <2>2. Amount[p] \in Nat /\ \A r \in RefundsOf(p) : pc[r] # "insert"
    BY PaymentAssumption DEF Init, RefundsOf, Tasks
  <2> QED BY <2>1, <2>2 DEF Fits
<1> QED BY <1>2 DEF Init, RefundInv, DoneInv, FitInv, RefundsOnlyPaid

\* Steps that bring no refund nearer to its row.
LEMMA LeaveRefund ==
  ASSUME RefundInv, refund' = refund, everPaid \subseteq everPaid',
         overlapped' = overlapped,
         \A r \in Refunds : /\ pc[r] = "done" => pc'[r] = "done"
                            /\ pc'[r] = "insert" => pc[r] = "insert"
  PROVE  RefundInv'
<1>1. \A p \in Payments : Counted(p)' = Counted(p) /\ RefundsOf(p) \subseteq Refunds
  BY DEF Counted, RefundsOf
<1>2. \A p \in Payments : Total(Counted(p))' = Total(Counted(p))
  BY <1>1 DEF Total
<1>3. ASSUME NEW p \in Payments, Fits(p) PROVE Fits(p)'
  BY <1>1, <1>2, <1>3 DEF Fits, RefundsOf
<1> QED BY <1>3 DEF RefundInv, DoneInv, FitInv, RefundsOnlyPaid

LEMMA SumRefund ==
  ASSUME PaymentTypeOK, RefundInv, NEW r \in Refunds, CheckSum(r)
  PROVE  RefundInv'
<1> DEFINE p == RefundOf[r]
<1>1. /\ p \in Payments /\ r \in Tasks /\ r \in RefundsOf(p)
      /\ \A q \in Payments : RefundsOf(q) \subseteq Refunds
      /\ \A q \in Payments \ {p} : r \notin RefundsOf(q)
  BY PaymentAssumption DEF RefundsOf, Tasks
<1>2. /\ pc[r] = "sum" /\ pc'[r] \in {"insert", "done"}
      /\ pc'[r] = "insert" => Total(Counted(p)) + RefundAmount[r] <= Amount[p]
      /\ \A t \in Tasks \ {r} : pc'[t] = pc[t]
      /\ refund' = refund /\ everPaid' = everPaid
  BY <1>1, GotoType DEF CheckSum
<1>3. DoneInv' /\ RefundsOnlyPaid'
  BY <1>2 DEF RefundInv, DoneInv, RefundsOnlyPaid, Tasks
<1>4. \A q \in Payments : Counted(q)' = Counted(q)
  BY <1>2 DEF Counted
<1>5. \A q \in Payments : Total(Counted(q))' = Total(Counted(q))
  BY <1>4 DEF Total
<1>6. ASSUME NEW q \in Payments, q \notin overlapped' PROVE Fits(q)'
  <2>1. q \notin overlapped
    BY <1>6 DEF CheckSum
  <2>2. Fits(q)
    BY <2>1 DEF RefundInv, FitInv
  <2>3. CASE q = p
    <3>1. \A other \in RefundsOf(p) \ {r} : pc'[other] # "insert"
      BY <1>1, <1>2, <1>6, <2>3 DEF CheckSum, Tasks
    <3>2. RefundsOf(q)' = RefundsOf(q)
      BY DEF RefundsOf
    <3> QED BY <1>2, <1>5, <2>2, <2>3, <3>1, <3>2 DEF Fits
  <2>4. CASE q # p
    <3>1. \A other \in RefundsOf(q) : pc'[other] = pc[other]
      BY <1>1, <1>2, <2>4 DEF Tasks
    <3>2. RefundsOf(q)' = RefundsOf(q)
      BY DEF RefundsOf
    <3> QED BY <1>5, <2>2, <3>1, <3>2 DEF Fits
  <2> QED BY <2>3, <2>4
<1> QED BY <1>3, <1>6 DEF RefundInv, FitInv

LEMMA InsertFits ==
  ASSUME PaymentTypeOK, RefundInv, PaidInv, NEW r \in Refunds, InsertRefund(r)
  PROVE  RefundInv'
<1> DEFINE p == RefundOf[r]
<1>1. /\ p \in Payments /\ r \in Tasks /\ r \in RefundsOf(p)
      /\ \A q \in Payments : RefundsOf(q) \subseteq Refunds /\ RefundsOf(q)' = RefundsOf(q)
      /\ \A q \in Payments \ {p} : r \notin RefundsOf(q)
  BY PaymentAssumption DEF RefundsOf, Tasks
<1>2. /\ pc[r] = "insert" /\ pc'[r] = "done"
      /\ \A t \in Tasks \ {r} : pc'[t] = pc[t]
      /\ everPaid' = everPaid /\ overlapped' = overlapped
      /\ \A q \in Refunds \ {r} : refund'[q] = refund[q]
  BY <1>1, GotoType DEF InsertRefund, historyVars, PaymentTypeOK
<1>3. refund[r] = "absent"
  BY <1>2 DEF RefundInv, DoneInv
<1>4. DoneInv' /\ RefundsOnlyPaid'
  BY <1>2 DEF RefundInv, DoneInv, RefundsOnlyPaid, PaidInv, Tasks
<1>5. CASE refund' = refund
  BY <1>2, <1>5, LeaveRefund DEF Tasks
<1>6. CASE refund'[r] # "absent"
  <2>1. ASSUME NEW q \in Payments, q \notin overlapped PROVE Fits(q)'
    <3>1. Fits(q)
      BY <2>1 DEF RefundInv, FitInv
    <3>2. CASE q = p
      <4>1. Counted(q)' = Counted(p) \cup {r} /\ r \notin Counted(p)
            /\ Counted(p) \in SUBSET Refunds
        BY <1>1, <1>2, <1>3, <1>6, <3>2 DEF Counted
      <4>2. Total(Counted(p) \cup {r}) = Total(Counted(p)) + RefundAmount[r]
        BY <4>1, TotalAdd
      <4>3. Total(Counted(q))' = Total(Counted(p) \cup {r})
        BY <4>1 DEF Total
      <4>4. \A other \in RefundsOf(p) : pc'[other] # "insert"
        BY <1>1, <1>2, <3>1, <3>2 DEF Fits, Tasks
      <4> QED BY <1>1, <1>2, <3>1, <3>2, <4>2, <4>3, <4>4 DEF Fits
    <3>3. CASE q # p
      <4>1. Counted(q)' = Counted(q)
        BY <1>1, <1>2, <3>3 DEF Counted
      <4>2. Total(Counted(q))' = Total(Counted(q))
        BY <4>1 DEF Total
      <4>3. \A other \in RefundsOf(q) : pc'[other] = pc[other]
        BY <1>1, <1>2, <3>3 DEF Tasks
      <4> QED BY <1>1, <3>1, <4>2, <4>3 DEF Fits
    <3> QED BY <3>2, <3>3
  <2> QED BY <1>2, <1>4, <2>1 DEF RefundInv, FitInv
<1>7. refund' = refund \/ refund'[r] # "absent"
  BY DEF InsertRefund, PaymentTypeOK
<1> QED BY <1>5, <1>6, <1>7

LEMMA RestRefund ==
  ASSUME PaymentTypeOK, RefundInv,
         \/ (\E p \in Payments : CreatePayment(p)) \/ \E k \in Keys : Expire(k)
         \/ (\E m \in Events : Publish(m)) \/ Deliver \/ AckOrNack \/ ConsumerCrash
         \/ \E t \in Tasks : Find(t) \/ Fill(t)
         \/ \E m \in Reports : UpdateRow(m) \/ EvictRow(m)
         \/ \E t \in Tasks \ Events : HandlerCrash(t)
         \/ UNCHANGED vars
  PROVE  RefundInv'
<1>1. \A r \in Refunds : r \in Tasks /\ r \notin Reports /\ r \notin Events
  BY PaymentAssumption DEF Tasks, Reports
<1>2. CASE \/ (\E p \in Payments : CreatePayment(p)) \/ \E k \in Keys : Expire(k)
           \/ (\E m \in Events : Publish(m)) \/ Deliver \/ UNCHANGED vars
  BY <1>2, LeaveRefund DEF CreatePayment, Expire, Publish, Deliver, vars, historyVars
<1>3. CASE AckOrNack
  <2>1. /\ Head(held) \in Tasks /\ Head(held) \notin Refunds
        /\ \A u \in Tasks \ {Head(held)} : pc'[u] = pc[u]
    BY <1>1, <1>3, HeldMessage, GotoType DEF AckOrNack
  <2> QED BY <1>1, <1>3, <2>1, LeaveRefund DEF AckOrNack, historyVars
<1>4. CASE ConsumerCrash
  BY <1>1, <1>4, LeaveRefund DEF ConsumerCrash
<1>5. ASSUME NEW t \in Tasks, Find(t) PROVE RefundInv'
  <2>1. KeyOf(t) \in Keys
    BY KeyOfTask
  <2>2. \A u \in Tasks \ {t} : pc'[u] = pc[u]
    BY <1>5, GotoType DEF Find
  <2>3. pc[t] = "idle" /\ pc'[t] # "insert"
    <3>1. CASE cache[KeyOf(t)] # None
      <4>1. cache[KeyOf(t)] \in Entries /\ pc'[t] = OnceFound(t, cache[KeyOf(t)])
        BY <1>5, <2>1, <3>1, GotoType DEF Find, PaymentTypeOK
      <4> QED BY <1>5, <4>1, FoundPlace DEF Find
    <3>2. CASE cache[KeyOf(t)] = None
      BY <1>5, <3>2, GotoType DEF Find
    <3> QED BY <3>1, <3>2
  <2> QED BY <1>1, <1>5, <2>2, <2>3, LeaveRefund DEF Find, historyVars
<1>6. ASSUME NEW t \in Tasks, Fill(t) PROVE RefundInv'
  <2>1. fetched[t] \in Entries /\ pc'[t] = OnceFound(t, fetched[t])
        /\ \A u \in Tasks \ {t} : pc'[u] = pc[u]
    BY <1>6, GotoType DEF Fill, PaymentTypeOK
  <2>2. pc[t] = "fill" /\ pc'[t] # "insert"
    BY <1>6, <2>1, FoundPlace DEF Fill
  <2> QED BY <1>1, <1>6, <2>1, <2>2, LeaveRefund DEF Fill
<1>7. ASSUME NEW m \in Reports, UpdateRow(m) \/ EvictRow(m) PROVE RefundInv'
  <2>1. /\ m \in Tasks /\ m \notin Refunds
        /\ \A u \in Tasks \ {m} : pc'[u] = pc[u]
    BY <1>1, <1>7, GotoType DEF UpdateRow, EvictRow, Tasks
  <2>2. everPaid \subseteq everPaid' /\ refund' = refund /\ overlapped' = overlapped
    BY <1>7 DEF UpdateRow, EvictRow
  <2> QED BY <1>1, <2>1, <2>2, LeaveRefund
<1>8. ASSUME NEW t \in Tasks \ Events, HandlerCrash(t) PROVE RefundInv'
  <2>1. /\ pc[t] # "done" /\ pc'[t] \in {"idle", "done"}
        /\ \A u \in Tasks \ {t} : pc'[u] = pc[u]
    BY <1>8, GotoType DEF HandlerCrash, EndOf
  <2> QED BY <1>1, <1>8, <2>1, LeaveRefund DEF HandlerCrash
<1> QED BY <1>2, <1>3, <1>4, <1>5, <1>6, <1>7, <1>8

LEMMA StepRefund == PaymentTypeOK /\ CacheInv /\ RefundInv /\ [Next]_vars => RefundInv'
<1> SUFFICES ASSUME PaymentTypeOK, CacheInv, RefundInv, [Next]_vars PROVE RefundInv'
  OBVIOUS
<1>1. CASE Consume
  BY <1>1, HeldMessage, RestRefund DEF Consume
<1> QED BY <1>1, SumRefund, InsertFits, RestRefund DEF Next, TaskStep, CacheInv

-----------------------------------------------------------------------------
(* Theorems.                                                               *)

PaymentInv == PaymentTypeOK /\ CacheInv /\ RefundInv

\* The invariant above holds in every behaviour.
THEOREM PaymentInvariant == Spec => []PaymentInv
<1>1. Init => PaymentInv
  BY InitType, InitCache, InitRefund DEF PaymentInv
<1>2. PaymentInv /\ [Next]_vars => PaymentInv'
  BY StepType, StepCache, StepRefund DEF PaymentInv, CacheInv
<1> QED BY <1>1, <1>2, PTL DEF Spec

\* Rows, cache entries, handlers and messages are what they should be.
THEOREM PaymentTypes == Spec => []PaymentTypeOK
BY PaymentInvariant, PTL DEF PaymentInv

\* paymentModel.FindOne*, Update: a cached status that is not that of the row
\* has a cause, for any number of readers, reports and faults.
THEOREM StaleStatusHasCause == Spec => []StaleHasCause
BY PaymentInvariant, PTL DEF PaymentInv, CacheInv

\* RefundLogic: money goes back only on a payment once reported as paid.
THEOREM OnlyPaidRefunded == Spec => []RefundsOnlyPaid
BY PaymentInvariant, PTL DEF PaymentInv, RefundInv

\* RefundLogic: refunds that did not overlap never exceed their payment.
THEOREM RefundsStayWithin == Spec => []RefundsWithinPayment
<1>1. PaymentInv => RefundsWithinPayment
  <2> SUFFICES ASSUME PaymentInv, NEW p \in Payments \ overlapped
               PROVE  Total({r \in RefundsOf(p) : refund[r] # "absent"}) <= Amount[p]
    BY DEF RefundsWithinPayment
  <2>1. Fits(p)
    BY DEF PaymentInv, RefundInv, FitInv
  <2> QED BY <2>1 DEF Fits, Counted
<1> QED BY <1>1, PaymentInvariant, PTL
=============================================================================
