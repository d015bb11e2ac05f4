----------------------------- MODULE Addresses -----------------------------
(***************************************************************************)
(* The receive addresses of one user (apps/user): rows, of which one may be *)
(* the default; the cache of single rows, read by FindOne; and the cached  *)
(* list, whose key carries a version number that every change increments.  *)
(* Several processes serve the calls.                                      *)
(***************************************************************************)
EXTENDS Integers, FiniteSets

CONSTANTS
    AddressIds, Owned,  \* ids of addresses, those the user has to begin with
    Calls, Op, Subject, \* a call: "add", "edit" or "delete", and its address
    Listers,            \* callers of GetUserReceiveAddressList
    MaxFaults           \* bound: failed calls to Redis, handlers that die

NoAddress == "no address"

\* An id is given to one new address.
ASSUME AddressAssumption ==
    /\ Op \in [Calls -> {"add", "edit", "delete"}] /\ Subject \in [Calls -> AddressIds]
    /\ Owned \subseteq AddressIds /\ IsFiniteSet(Owned) /\ NoAddress \notin AddressIds
    /\ \A c, d \in Calls :
         Op[c] = "add" /\ Op[d] = "add" /\ Subject[c] = Subject[d] => c = d
    /\ Calls \cap Listers = {} /\ IsFiniteSet(Calls) /\ MaxFaults \in Nat

Clients == Calls \cup Listers
Finders == {c \in Calls : Op[c] # "add"}
Versions == 1 .. Cardinality(Calls) + 1

VARIABLES
    address,  \* address[a]: columns is_default and is_delete
    entry,    \* entry[a]: the row cached under the key of FindOne
    version,  \* user:address:ver:uid, 0 if the key is not there
    list,     \* list[v]: the list cached under version v, if any: {} or {a list}
    at, read, \* per client: where it is, and the row it found
    key, rows, \* per lister: the version it asks for, the rows it selected
    old,      \* per call: the default address its transaction found
    overlap,  \* history: transactions on the default ran side by side
    issued,   \* history: greatest version that was current
    reused,   \* history: versions current again, or left current by a fault
    passed,   \* history: cached entries that a change did not evict
    addressFaults

cacheVars == <<entry, version, list>>
clientVars == <<at, read, key, rows, old>>
addressHistory == <<overlap, issued, reused, passed>>
addressVars == <<address, cacheVars, clientVars, addressHistory, addressFaults>>

Row == [default : BOOLEAN, deleted : BOOLEAN]
NoRow == [default |-> FALSE, deleted |-> TRUE, none |-> TRUE]
Lists == SUBSET (AddressIds \X BOOLEAN)
AddressTypeOK ==
    /\ address \in [AddressIds -> Row \cup {NoRow}]
    /\ entry \in [AddressIds -> Row \cup {NoRow}]
    /\ version \in Versions \cup {0}
    /\ list \in [Versions -> SUBSET Lists]
    /\ at \in [Clients -> {"idle", "fill", "select", "commit", "write", "drop",
                           "bump", "listed", "done"}]
    /\ read \in [Finders -> Row \cup {NoRow}]
    /\ key \in [Listers -> Versions] /\ rows \in [Listers -> Lists]
    /\ old \in [Calls -> AddressIds \cup {NoAddress}]
    /\ overlap \in BOOLEAN
    /\ issued \in Versions /\ reused \subseteq Versions
    /\ passed \subseteq AddressIds
    /\ addressFaults \in 0 .. MaxFaults

Exists(a) == address[a] # NoRow
Live == {a \in AddressIds : Exists(a) /\ ~address[a].deleted}
Defaults == {a \in Live : address[a].default}

AddressInit ==
    /\ address \in [AddressIds -> {NoRow} \cup [default : BOOLEAN, deleted : {FALSE}]]
    /\ {a \in AddressIds : Exists(a)} = Owned /\ Cardinality(Defaults) <= 1
    /\ entry = [a \in AddressIds |-> NoRow]
    /\ version = 0 /\ list = [v \in Versions |-> {}]
    /\ at = [c \in Clients |-> "idle"]
    /\ read = [c \in Finders |-> NoRow]
    /\ key = [l \in Listers |-> 1] /\ rows = [l \in Listers |-> {}]
    /\ old = [c \in Calls |-> NoAddress]
    /\ overlap = FALSE /\ issued = 1 /\ reused = {} /\ passed = {}
    /\ addressFaults = 0

AddressFault == addressFaults < MaxFaults /\ addressFaults' = addressFaults + 1
Move(c, place) == at' = [at EXCEPT ![c] = place]
TheList == {<<a, address[a].default>> : a \in Live}

\* GetVersion: 1 when the key is not there.
Current == IF version = 0 THEN 1 ELSE version

-----------------------------------------------------------------------------
(* FindOne, with which edit and delete begin, and which is all that        *)
(* GetUserReceiveAddressInfo does.                                         *)

\* An edit goes on by whether the is_default of its request is 1.
Answer(c) == IF Op[c] = "edit" THEN {"select", "write"} ELSE {"write"}

FindOne(c) ==
    /\ at[c] = "idle" /\ Exists(Subject[c])
    /\ IF entry[Subject[c]] # NoRow
         THEN /\ read' = [read EXCEPT ![c] = entry[Subject[c]]]
              /\ \E next \in Answer(c) : Move(c, next)
         ELSE /\ read' = [read EXCEPT ![c] = address[Subject[c]]]
              /\ Move(c, "fill")
    /\ UNCHANGED <<address, cacheVars, key, rows, old, addressHistory, addressFaults>>

FillEntry(c) ==
    /\ at[c] = "fill"
    /\ entry' = [entry EXCEPT ![Subject[c]] = read[c]]
    /\ passed' = IF read[c] = address[Subject[c]] THEN passed \ {Subject[c]}
                                                 ELSE passed \cup {Subject[c]}
    /\ \E next \in Answer(c) : Move(c, next)
    /\ UNCHANGED <<address, version, list, read, key, rows, old, overlap,
                   issued, reused, addressFaults>>

-----------------------------------------------------------------------------
(* The default address: CancelOldDefaultAddress, then the insert or update. *)

\* Mutant: only a new address increments the version.
AfterwardsAdds(c) == IF Op[c] = "add" THEN "drop" ELSE "done"

\* What a changed row is followed by.
Afterwards(c) == IF Op[c] = "add" THEN "drop" ELSE "bump"

\* A new default address, and an edit that makes one, begin a transaction.
Begins(c) == \/ at[c] = "select"
             \/ at[c] = "idle" /\ Op[c] = "add" /\ ~Exists(Subject[c])

\* SELECT ... LIMIT 1 takes no lock.
SelectOld(c) ==
    /\ c \in Calls /\ Begins(c)
    /\ \/ Defaults = {} /\ old' = [old EXCEPT ![c] = NoAddress]
       \/ \E a \in Defaults : old' = [old EXCEPT ![c] = a]
    /\ overlap' = (overlap \/ \E other \in Calls : at[other] = "commit")
    /\ Move(c, "commit")
    /\ UNCHANGED <<address, cacheVars, read, key, rows, issued, reused, passed,
                   addressFaults>>

\* Mutant: the old default is not cancelled.
CancelledNot(c) == address

\* The rows after the old default was cancelled.
Cancelled(c) == IF old[c] = NoAddress THEN address
                ELSE [address EXCEPT ![old[c]].default = FALSE]

\* What a change that evicts no entry leaves cached.
Passed(changed) == passed \cup {a \in changed : entry[a] # NoRow}

\* The key that is evicted here is not the one FindOne caches under.
Commit(c) ==
    /\ c \in Calls /\ at[c] = "commit"
    /\ address' = [Cancelled(c) EXCEPT ![Subject[c]] =
                     [default |-> TRUE,
                      deleted |-> IF Op[c] = "add" THEN FALSE
                                                   ELSE address[Subject[c]].deleted]]
    /\ passed' = Passed({Subject[c], old[c]} \cap AddressIds)
    /\ Move(c, Afterwards(c))
    /\ UNCHANGED <<cacheVars, read, key, rows, old, overlap, issued, reused,
                   addressFaults>>

-----------------------------------------------------------------------------
(* The other changes, one statement each.                                  *)

Insert(c) ==
    /\ c \in Calls /\ Op[c] = "add" /\ at[c] = "idle" /\ ~Exists(Subject[c])
    /\ address' = [address EXCEPT ![Subject[c]] = [default |-> FALSE, deleted |-> FALSE]]
    /\ Move(c, Afterwards(c))
    /\ UNCHANGED <<cacheVars, read, key, rows, old, addressHistory, addressFaults>>

\* Mutant: copier.Copy leaves is_delete at zero.
EditedRowZero(c) == [default |-> FALSE, deleted |-> FALSE]

\* EditUserReceiveAddress writes back is_delete as FindOne gave it.
EditedRow(c) == [default |-> FALSE, deleted |-> read[c].deleted]

\* The generated Update evicts the entry of the row.
EditedEntry(a) == [entry EXCEPT ![a] = NoRow]

Update(c) ==
    /\ c \in Calls /\ at[c] = "write" /\ Op[c] = "edit"
    /\ address' = [address EXCEPT ![Subject[c]] = EditedRow(c)]
    /\ entry' = EditedEntry(Subject[c])
    /\ passed' = passed \ {Subject[c]}
    /\ Move(c, Afterwards(c))
    /\ UNCHANGED <<version, list, read, key, rows, old, overlap, issued, reused,
                   addressFaults>>

\* UpdateIsDelete: two evictions of a key nobody caches under.
UpdateIsDelete(c) ==
    /\ c \in Calls /\ at[c] = "write" /\ Op[c] = "delete"
    /\ address' = [address EXCEPT ![Subject[c]].deleted = TRUE]
    /\ passed' = Passed({Subject[c]})
    /\ Move(c, Afterwards(c))
    /\ UNCHANGED <<cacheVars, read, key, rows, old, overlap, issued, reused,
                   addressFaults>>

-----------------------------------------------------------------------------
(* The version of the list.                                                *)

\* After an insert the list of the version that is current is deleted first.
DropList(c) ==
    /\ c \in Calls /\ at[c] = "drop"
    /\ list' = [list EXCEPT ![Current] = {}]
    /\ Move(c, "bump")
    /\ UNCHANGED <<address, entry, version, read, key, rows, old, addressHistory,
                   addressFaults>>

\* INCR: of a key that is not there, it yields 1, the version readers
\* assumed until then.
Incremented == version + 1

\* After an edit the list of the new version is deleted as well.
IncVersion(c) ==
    /\ c \in Calls /\ at[c] = "bump"
    /\ \/ /\ version' = Incremented
          /\ list' = IF Op[c] = "edit" THEN [list EXCEPT ![version'] = {}]
                                       ELSE list
          /\ reused' = IF Incremented <= issued THEN reused \cup {Incremented} ELSE reused
          /\ issued' = IF version' > issued THEN version' ELSE issued
          /\ UNCHANGED addressFaults
       \/ /\ AddressFault
          /\ reused' = reused \cup {Current}
          /\ UNCHANGED <<version, list, issued>>
    /\ Move(c, "done")
    /\ UNCHANGED <<address, entry, read, key, rows, old, overlap, passed>>

\* FindAllByUid: the cached list of the version that GetVersion gave, or 1 if
\* Redis did not answer; else the rows, which are cached under it.
FindAllByUid(l) ==
    /\ l \in Listers /\ at[l] = "idle"
    /\ \/ key' = [key EXCEPT ![l] = Current] /\ UNCHANGED <<reused, addressFaults>>
       \/ AddressFault /\ key' = [key EXCEPT ![l] = 1] /\ reused' = reused \cup {1}
    /\ Move(l, "select")
    /\ UNCHANGED <<address, cacheVars, read, rows, old, overlap, issued, passed>>

SelectList(l) ==
    /\ l \in Listers /\ at[l] = "select"
    /\ IF list[key[l]] # {}
         THEN Move(l, "idle") /\ UNCHANGED rows
         ELSE Move(l, "listed") /\ rows' = [rows EXCEPT ![l] = TheList]
    /\ UNCHANGED <<address, cacheVars, read, key, old, addressHistory, addressFaults>>

FillList(l) ==
    /\ l \in Listers /\ at[l] = "listed"
    /\ list' = [list EXCEPT ![key[l]] = {rows[l]}]
    /\ Move(l, "idle")
    /\ UNCHANGED <<address, entry, version, read, key, rows, old,
                   addressHistory, addressFaults>>

\* The version key lives for a day, cached lists and rows for a week.
VersionExpires ==
    /\ version # 0
    /\ version' = 0 /\ reused' = reused \cup {1}
    /\ UNCHANGED <<address, entry, list, clientVars, overlap, issued, passed,
                   addressFaults>>

EntryExpires(a) ==
    /\ entry[a] # NoRow
    /\ entry' = [entry EXCEPT ![a] = NoRow] /\ passed' = passed \ {a}
    /\ UNCHANGED <<address, version, list, clientVars, overlap, issued, reused,
                   addressFaults>>

\* A handler dies after it changed the row and before it changed the version.
HandlerDies(c) ==
    /\ c \in Calls /\ at[c] \in {"select", "commit", "write", "drop", "bump"}
    /\ AddressFault
    /\ reused' = IF at[c] \in {"drop", "bump"} THEN reused \cup {Current} ELSE reused
    /\ Move(c, "done")
    /\ UNCHANGED <<address, cacheVars, read, key, rows, old, overlap, issued, passed>>

-----------------------------------------------------------------------------

AddressNext ==
    \/ \E c \in Finders : FindOne(c) \/ FillEntry(c)
    \/ \E c \in Calls :
         \/ SelectOld(c) \/ Commit(c) \/ Insert(c) \/ Update(c)
         \/ UpdateIsDelete(c) \/ DropList(c) \/ IncVersion(c) \/ HandlerDies(c)
    \/ \E l \in Listers : FindAllByUid(l) \/ SelectList(l) \/ FillList(l)
    \/ VersionExpires \/ \E a \in AddressIds : EntryExpires(a)

AddressSpec == AddressInit /\ [][AddressNext]_addressVars

\* A user has one default address, however the calls that set it were cut
\* short or repeated, unless two such calls looked for the old one at once.
OneDefault == ~overlap => Cardinality(Defaults) <= 1

\* A cached list of the current version shows the addresses as they are, or a
\* change is about to increment the version, or the version was used before:
\* INCR of a missing key yields 1 again, the key expired, or Redis failed.
ListCurrent ==
    ~(list[Current] \subseteq {TheList}) =>
        \/ Current \in reused
        \/ \E c \in Calls : at[c] \in {"drop", "bump"}

\* A cached row differs from the table only because it was cached after it
\* had changed, or because the change evicts another key: the deletion, and
\* the transactions on the default.
EntryCurrent ==
    \A a \in AddressIds : entry[a] \notin {NoRow, address[a]} => a \in passed

\* Neither kind of cached answer, the list of a user or the row of an
\* address, is out of date without a cause.
CachesCurrent == ListCurrent /\ EntryCurrent

\* Edit gives back a deleted address only if the row it found, in the cache
\* or before the deletion, was not deleted.
NotRevived ==
    [][\A a \in AddressIds :
         Exists(a) /\ address[a].deleted /\ ~address'[a].deleted =>
             \E c \in Calls : Subject[c] = a /\ at[c] = "write" /\ ~read[c].deleted]_addressVars

\* The comment on the prefix of the keys: it is that of the keys FindOne
\* caches under, so that a deleted address is not served once the deletion
\* has returned.
DeletedNotServed ==
    \A c \in Calls :
        Op[c] = "delete" /\ at[c] = "done" /\ address[Subject[c]].deleted =>
            entry[Subject[c]] \in {NoRow, address[Subject[c]]}

=============================================================================
