------------------------------ MODULE PreLock ------------------------------
(***************************************************************************)
(* The Redis stock ledger that the order service keeps next to the         *)
(* database: one hash product:stock:<id> per product and, per saga and     *)
(* product, the keys product:prelock:gid:<g>:<p>[:confirmed|:reverted].    *)
(* The three Lua scripts of createorderdtmlogic.go are the only writers of *)
(* the keys; Redis runs a script atomically, so a script is one action.    *)
(* The hash is also overwritten by the product service, which does not look *)
(* at the keys, and hash and keys expire, each at a time of its own.       *)
(*                                                                         *)
(* The three keys of a saga and product are one cell, which also remembers *)
(* what Redis does not: whether the decision was taken on a pre-lock or on *)
(* the caller's fallback quantity, and whether the hash that counted it is *)
(* still the present one.                                                  *)
(*   none           no key                                                 *)
(*   held           the pre-lock key                                       *)
(*   overwritten    the pre-lock key, of a hash that is gone               *)
(*   confirmed      the confirm key, written on a held pre-lock            *)
(*   overconfirmed  the confirm key, on another one or on the fallback     *)
(*   settled        the confirm key, of a hash that is gone                *)
(*   released       the revert key, written on a held pre-lock             *)
(*   overreleased   the revert key, on an overwritten one                  *)
(*   refunded       the revert key, on the fallback quantity               *)
(*   closed         the revert key, of a hash that is gone                 *)
(***************************************************************************)
EXTENDS StockUnits

\* Bound: pieces per product and kind whose keys expire under one hash.
CONSTANT MaxLapsed

VARIABLES
    loaded,    \* loaded[p]: the hash has a field available
    total,     \* field total, written only when the hash is loaded
    available, \* field available
    preLocked, \* field pre_locked
    used,      \* field used
    cell,      \* cell[g][p]: the keys of saga g and product p
    lapsed     \* history, lapsed[p][k]: pieces in the hash of p whose cell
               \* was k when its key expired

ledgerVars == <<loaded, total, available, preLocked, used, cell, lapsed>>

Held      == {"held", "overwritten"}
Confirmed == {"confirmed", "overconfirmed", "settled"}
Reverted  == {"released", "overreleased", "refunded", "closed"}
Cells     == {"none"} \cup Held \cup Confirmed \cup Reverted
\* The cells whose pieces the fields of the present hash count.
Booked    == {"held", "confirmed", "overconfirmed", "overreleased", "refunded"}

LedgerTypeOK ==
    /\ loaded \in [Products -> BOOLEAN]
    /\ total \in [Products -> Nat]
    /\ available \in [Products -> Nat]
    /\ preLocked \in [Products -> Int]
    /\ used \in [Products -> Nat]
    /\ cell \in [Gids -> [Products -> Cells]]
    /\ lapsed \in [Products -> [Booked -> Nat]]

LedgerInit ==
    /\ loaded = [p \in Products |-> FALSE]
    /\ total = [p \in Products |-> 0]
    /\ available = [p \in Products |-> 0]
    /\ preLocked = [p \in Products |-> 0]
    /\ used = [p \in Products |-> 0]
    /\ cell = [g \in Gids |-> [p \in Products |-> "none"]]
    /\ lapsed = [p \in Products |-> [k \in Booked |-> 0]]

-----------------------------------------------------------------------------
(* What the scripts answer, in the order of their return statements.       *)

\* Mutant: the script does not compare available with the quantity.
PreLockCodeUnchecked(g, p) ==
    CASE cell[g][p] \in Held         -> 2
      [] cell[g][p] \in Confirmed    -> 3
      [] cell[g][p] \in Reverted     -> 4
      [] cell[g][p] = "none" /\ ~loaded[p] -> 5
      [] OTHER -> 1

\* luaPreLockStock.  (6, is_invalid, cannot come up: DecrStock runs first
\* and refuses a product that is not in the database.)
PreLockCode(g, p) ==
    CASE cell[g][p] \in Held         -> 2
      [] cell[g][p] \in Confirmed    -> 3
      [] cell[g][p] \in Reverted     -> 4
      [] cell[g][p] = "none" /\ ~loaded[p] -> 5
      [] cell[g][p] = "none" /\ loaded[p] /\ available[p] < Qty[g][p] -> 0
      [] OTHER -> 1

\* Mutant: a hash that is not loaded is an error.
PreLockAcceptsLoadedOnly(g, p) == PreLockCode(g, p) \in {1, 2}

\* preLockStockByGID: the answers it hands to its caller as success.
PreLockAccepts(g, p) == PreLockCode(g, p) \in {1, 2, 5}

\* luaConfirmStock and luaRevertStock; the fallback quantity of their
\* callers is the quantity of the item, never 0, so that confirm does not
\* answer 0 and revert does not answer 4.
ConfirmCode(g, p) ==
    CASE cell[g][p] \in Confirmed -> 2
      [] cell[g][p] \in Reverted  -> 3
      [] OTHER -> 1

\* Mutant: the script does not look at the confirm key.
RevertCodeUnconfirmed(g, p) == IF cell[g][p] \in Reverted THEN 2 ELSE 1

RevertCode(g, p) ==
    CASE cell[g][p] \in Reverted  -> 2
      [] cell[g][p] \in Confirmed -> 3
      [] OTHER -> 1

-----------------------------------------------------------------------------
(* What the scripts do: only answer 1 changes Redis.                       *)

\* luaPreLockStock: pieces move from available to pre_locked.
PreLock(g, p) ==
    /\ PreLockCode(g, p) = 1
    /\ available' = [available EXCEPT ![p] = @ - Qty[g][p]]
    /\ preLocked' = [preLocked EXCEPT ![p] = @ + Qty[g][p]]
    /\ cell' = [cell EXCEPT ![g][p] = "held"]
    /\ UNCHANGED <<loaded, total, used, lapsed>>

\* luaConfirmStock: pieces move from pre_locked to used, whether or not
\* the pre-lock key is still (or was ever) there.
Confirm(g, p) ==
    /\ ConfirmCode(g, p) = 1
    /\ preLocked' = [preLocked EXCEPT ![p] = @ - Qty[g][p]]
    /\ used' = [used EXCEPT ![p] = @ + Qty[g][p]]
    /\ cell' = [cell EXCEPT ![g][p] =
                  IF @ = "held" THEN "confirmed" ELSE "overconfirmed"]
    /\ UNCHANGED <<loaded, total, available, lapsed>>

\* What a revert leaves of a cell.
RevertedCell(g, p) ==
    CASE cell[g][p] = "held"        -> "released"
      [] cell[g][p] = "overwritten" -> "overreleased"
      [] OTHER                      -> "refunded"

\* Mutant: pre_locked is reduced on the fallback quantity, too.
RevertBlindly(g, p) ==
    /\ RevertCode(g, p) = 1
    /\ loaded' = [loaded EXCEPT ![p] = TRUE]
    /\ available' = [available EXCEPT ![p] = @ + Qty[g][p]]
    /\ preLocked' = [preLocked EXCEPT ![p] = @ - Qty[g][p]]
    /\ cell' = [cell EXCEPT ![g][p] = RevertedCell(g, p)]
    /\ UNCHANGED <<total, used, lapsed>>

\* luaRevertStock: pieces go back to available; they leave pre_locked only
\* if the pre-lock key is there.  HINCRBY creates a missing field.
Revert(g, p) ==
    /\ RevertCode(g, p) = 1
    /\ loaded' = [loaded EXCEPT ![p] = TRUE]
    /\ available' = [available EXCEPT ![p] = @ + Qty[g][p]]
    /\ cell' = [cell EXCEPT ![g][p] = RevertedCell(g, p)]
    /\ preLocked' = IF cell[g][p] \in Held
                      THEN [preLocked EXCEPT ![p] = @ - Qty[g][p]]
                      ELSE preLocked
    /\ UNCHANGED <<total, used, lapsed>>

\* Mutant: the keys and the stock are not looked at, as in a pre-lock that
\* is not one script.
RunPreLockBlindly(g, p) ==
    /\ available' = [available EXCEPT ![p] = @ - Qty[g][p]]
    /\ preLocked' = [preLocked EXCEPT ![p] = @ + Qty[g][p]]
    /\ cell' = [cell EXCEPT ![g][p] = "held"]
    /\ UNCHANGED <<loaded, total, used, lapsed>>

\* A call of a script, whatever it answers.
RunPreLock(g, p) ==
    PreLock(g, p) \/ (PreLockCode(g, p) # 1 /\ UNCHANGED ledgerVars)
RunRevert(g, p) ==
    Revert(g, p) \/ (RevertCode(g, p) # 1 /\ UNCHANGED ledgerVars)

\* A key of the saga reaches its time to live: 30 minutes for a pre-lock, 24
\* hours for a decision, which a call that it refuses does not renew.  The
\* hash goes on counting the pieces.
ExpireKey(g, p) ==
    /\ cell[g][p] # "none"
    /\ cell' = [cell EXCEPT ![g][p] = "none"]
    /\ IF cell[g][p] \in Booked
         THEN /\ lapsed[p][cell[g][p]] + Qty[g][p] <= MaxLapsed
              /\ lapsed' = [lapsed EXCEPT ![p][cell[g][p]] = @ + Qty[g][p]]
         ELSE UNCHANGED lapsed
    /\ UNCHANGED <<loaded, total, available, preLocked, used>>

\* A cell, once the hash is gone that counted it.
Forgotten(c) == CASE c \in Held      -> "overwritten"
                  [] c \in Confirmed -> "settled"
                  [] c \in Reverted  -> "closed"
                  [] OTHER           -> "none"

NewBook(p) ==
    /\ cell' = [g \in Gids |-> [cell[g] EXCEPT ![p] = Forgotten(@)]]
    /\ lapsed' = [lapsed EXCEPT ![p] = [k \in Booked |-> 0]]

\* The product service writes a stock of n that it has read some time ago,
\* because the hash had no field available then (warm-up of
\* NewServiceContext, syncStockFromDBToRedis): HMSET overwrites whatever the
\* scripts have counted since.
LoadStock(p, n) ==
    /\ loaded' = [loaded EXCEPT ![p] = TRUE]
    /\ total' = [total EXCEPT ![p] = n]
    /\ available' = [available EXCEPT ![p] = n]
    /\ preLocked' = [preLocked EXCEPT ![p] = 0]
    /\ used' = [used EXCEPT ![p] = 0]
    /\ NewBook(p)

\* The hash expires, 7 days after its load.  (One that HINCRBY has made has
\* no time to live; it may expire here, too.)
ExpireHash(p) ==
    /\ loaded' = [loaded EXCEPT ![p] = FALSE]
    /\ total' = [total EXCEPT ![p] = 0]
    /\ available' = [available EXCEPT ![p] = 0]
    /\ preLocked' = [preLocked EXCEPT ![p] = 0]
    /\ used' = [used EXCEPT ![p] = 0]
    /\ NewBook(p)

LedgerNext ==
    \/ \E g \in Gids : \E p \in Items(g) :
          \/ PreLock(g, p)
          \/ Confirm(g, p)
          \/ Revert(g, p)
          \/ ExpireKey(g, p)
    \/ \E p \in Products :
          \/ \E n \in 0 .. InitStock[p] : LoadStock(p, n)
          \/ ExpireHash(p)

LedgerSpec == LedgerInit /\ [][LedgerNext]_ledgerVars

-----------------------------------------------------------------------------
(* Properties.                                                             *)

\* The pieces that the present hash of p counts as k.
In(k, p) == Pieces({g \in Gids : cell[g][p] = k}, p) + lapsed[p][k]

\* The books of every product, from one load of its hash to the next: each
\* field is accounted for by the keys.  The hash drifts from its total by
\* what a script did on a fallback quantity, on a key of an overwritten or
\* expired hash, or on a second key after the first had lapsed, and by
\* pre-locks that lapsed with nothing to release them; by nothing else.
LedgerBalanced ==
    \A p \in Products :
        /\ available[p] = total[p] - In("held", p) - In("confirmed", p)
                                   + In("refunded", p) + In("overreleased", p)
        /\ preLocked[p] = In("held", p) - In("overconfirmed", p)
                                        - In("overreleased", p)
        /\ used[p] = In("confirmed", p) + In("overconfirmed", p)

\* Under one hash the scripts never promise a piece twice: what is pre-locked
\* or confirmed, its key expired or not, is covered by what the hash was
\* loaded with and what was given back to it without having been taken out.
NoOverLock ==
    \A p \in Products :
        In("held", p) + In("confirmed", p)
            <= total[p] + In("refunded", p) + In("overreleased", p)

\* A decision is final while its key lives: no interleaving of the scripts,
\* the expiry of the pre-lock key and the loads of the hash confirms what was
\* reverted or reverts what was confirmed, and no pieces move as a decision
\* key goes.
DecisionsFinal ==
    [][\A g \in Gids, p \in Products, D \in {Confirmed, Reverted} :
          cell[g][p] \in D =>
              \/ cell'[g][p] \in D
              \/ /\ cell'[g][p] = "none"
                 /\ UNCHANGED <<available[p], preLocked[p], used[p]>>]_ledgerVars
=============================================================================
