---------------------------- MODULE OrderStatus ----------------------------
(***************************************************************************)
(* The status of one order (apps/order): UpdateOrderStatus reads it through *)
(* the row cache, checks the table of transitions and updates the row if it *)
(* still has the status that was read. Neither that update nor the          *)
(* cancellation by CreateOrderDTMRevert evicts the cached row.              *)
(***************************************************************************)
EXTENDS Integers, Sequences, FiniteSets

CONSTANTS
    Updates, NewStatus,  \* calls of UpdateOrderStatus, what each asks for
    Viewers,             \* callers of GetOrderById
    MaxLost              \* bound: log entries that are not written

ASSUME OrderStatusAssumption ==
    /\ NewStatus \in [Updates -> 0 .. 8] /\ IsFiniteSet(Updates)
    /\ Updates \cap Viewers = {} /\ MaxLost \in Nat

Canceled == 0
Pending == 1
Statuses == 0 .. 8
NotCached == 9

VARIABLES
    orderStatus, \* the column
    cachedStatus,\* the row cached under its id, NotCached if there is none
    step, seen,  \* per call: where it is, the status it read
    statusLog,   \* order_status_log: pairs of statuses
    trail,       \* history: the statuses the order has had
    lost         \* history: how many log entries were not written

statusVars == <<orderStatus, cachedStatus, step, seen, statusLog, trail, lost>>

Readers == Updates \cup Viewers

OrderStatusTypeOK ==
    /\ orderStatus \in Statuses /\ cachedStatus \in Statuses \cup {NotCached}
    /\ step \in [Readers -> {"idle", "fill", "found", "log", "done", "rejected", "conflict"}]
    /\ seen \in [Readers -> Statuses \cup {NotCached}]
    /\ \A c \in Readers : step[c] # "idle" => seen[c] \in Statuses
    /\ statusLog \subseteq Statuses \X Statuses
    /\ trail \in Seq(Statuses) /\ trail[Len(trail)] = orderStatus
    /\ lost \in 0 .. MaxLost

OrderStatusInit ==
    /\ orderStatus = Pending /\ trail = <<Pending>>
    /\ cachedStatus = NotCached
    /\ step = [c \in Readers |-> "idle"] /\ seen = [c \in Readers |-> NotCached]
    /\ statusLog = {} /\ lost = 0

Step(c, place) == step' = [step EXCEPT ![c] = place]
See(c, s) == seen' = [seen EXCEPT ![c] = s]

\* A view is over once the row is there, and may begin again.
AfterFind(c) == IF c \in Updates THEN "found" ELSE "idle"

\* The row is in the cache.
Hit == cachedStatus # NotCached

FindOrder(c) ==
    /\ step[c] = "idle"
    /\ IF Hit
         THEN See(c, cachedStatus) /\ Step(c, AfterFind(c))
         ELSE See(c, orderStatus) /\ Step(c, "fill")
    /\ UNCHANGED <<orderStatus, cachedStatus, statusLog, trail, lost>>

FillOrder(c) ==
    /\ step[c] = "fill"
    /\ cachedStatus' = seen[c] /\ Step(c, AfterFind(c))
    /\ UNCHANGED <<orderStatus, seen, statusLog, trail, lost>>

OrderExpires ==
    /\ cachedStatus # NotCached /\ cachedStatus' = NotCached
    /\ UNCHANGED <<orderStatus, step, seen, statusLog, trail, lost>>

\* orderStatusTransitions.
Transitions(s) ==
    CASE s = 1 -> {2, 6, 7}
      [] s = 2 -> {3, 4, 7}
      [] s = 3 -> {4, 5}
      [] s = 4 -> {5, 6}
      [] s = 5 -> {6}
      [] s = 7 -> {8}
      [] s \in {0, 6, 8} -> {}

CanTransitionTo(u) == NewStatus[u] \in Transitions(seen[u])

\* Mutant: the update does not ask for the status that was read.
MatchesAny(u) == TRUE

\* The WHERE of UpdateStatusIf.
Matches(u) == orderStatus = seen[u]

Rejected(u) ==
    /\ step[u] = "found" /\ ~CanTransitionTo(u)
    /\ Step(u, "rejected")
    /\ UNCHANGED <<orderStatus, cachedStatus, seen, statusLog, trail, lost>>

UpdateStatusIf(u) ==
    /\ step[u] = "found" /\ CanTransitionTo(u) /\ Matches(u)
    /\ orderStatus' = NewStatus[u] /\ trail' = Append(trail, NewStatus[u])
    /\ Step(u, "log")
    /\ UNCHANGED <<cachedStatus, seen, statusLog, lost>>

\* No row was affected: "status changed concurrently, please retry".
Conflict(u) ==
    /\ step[u] = "found" /\ CanTransitionTo(u) /\ ~Matches(u)
    /\ Step(u, "conflict")
    /\ UNCHANGED <<orderStatus, cachedStatus, seen, statusLog, trail, lost>>

Retry(u) ==
    /\ step[u] = "conflict" /\ Step(u, "idle")
    /\ UNCHANGED <<orderStatus, cachedStatus, seen, statusLog, trail, lost>>

\* Mutant: the entry names the status of the row, which has changed by then.
LogEntryNow(u) == <<orderStatus, NewStatus[u]>>

LogEntry(u) == <<seen[u], NewStatus[u]>>

\* A failed insert is only logged, a crash here is the same.
InsertStatusLog(u) ==
    /\ step[u] = "log"
    /\ \/ statusLog' = statusLog \cup {LogEntry(u)} /\ UNCHANGED lost
       \/ lost < MaxLost /\ lost' = lost + 1 /\ UNCHANGED statusLog
    /\ Step(u, "done")
    /\ UNCHANGED <<orderStatus, cachedStatus, seen, trail>>

\* CreateOrderDTMRevert.
CancelOrder ==
    /\ orderStatus # Canceled
    /\ orderStatus' = Canceled /\ trail' = Append(trail, Canceled)
    /\ UNCHANGED <<cachedStatus, step, seen, statusLog, lost>>

OrderStatusNext ==
    \/ \E c \in Readers : FindOrder(c) \/ FillOrder(c)
    \/ \E u \in Updates : \/ Rejected(u) \/ UpdateStatusIf(u) \/ Conflict(u)
                          \/ Retry(u) \/ InsertStatusLog(u)
    \/ OrderExpires \/ CancelOrder

OrderStatusSpec == OrderStatusInit /\ [][OrderStatusNext]_statusVars

\* However old the status that an update read from the cache, the order takes
\* only the transitions of the table and its cancellation, which is final.
StatusFollowsTable ==
    [][orderStatus' # orderStatus =>
         \/ orderStatus' \in Transitions(orderStatus)
         \/ orderStatus # Canceled /\ orderStatus' = Canceled]_statusVars

Taken == {<<trail[i], trail[i + 1]>> : i \in 1 .. Len(trail) - 1}

\* Every entry of the log is a step the order took. A step that is in no entry
\* is the cancellation, or about to be logged, or its entry was lost.
LogTellsTrail ==
    /\ statusLog \subseteq Taken
    /\ Cardinality({t \in Taken : t[2] # Canceled} \ statusLog) =
         lost + Cardinality({u \in Updates : step[u] = "log"})

\* An update is told of a concurrent change only if the order had left the
\* status the update read, which a retry may read from the cache again.
ConflictOutran ==
    \A u \in Updates : step[u] = "conflict" =>
        \E i \in 1 .. Len(trail) - 1 : trail[i] = seen[u]

\* What UpdateOrderStatus reports, in order_status_log and to its caller, is
\* what happened to the order.
LogTruthful == LogTellsTrail /\ ConflictOutran

=============================================================================
