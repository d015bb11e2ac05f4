-------------------------------- MODULE Cart --------------------------------
(***************************************************************************)
(* The cart of one user (apps/cart): the rows it has had for one product.  *)
(* A call reads the live row, changes its copy and writes the whole row    *)
(* back by its id, with no lock in between. Deletion is a column, and the  *)
(* table has a unique key on user, product and that column.                *)
(***************************************************************************)
EXTENDS Integers, Sequences, FiniteSets

CONSTANTS
    CartCalls, Kind, \* a call: "add", "update" or "delete"
    Quantity         \* the quantity in the request of an add or an update

ASSUME CartAssumption ==
    /\ Kind \in [CartCalls -> {"add", "update", "delete"}]
    /\ Quantity \in [CartCalls -> Nat]

VARIABLES
    cart,         \* the rows, in the order of their ids
    stage,        \* per call: "new", "found", "missing", "done" or "refused"
    item, itemId, \* per call: the row it found and its id, 0 if there was none
    credited,     \* history: what the calls, in the order they wrote, come to
    since,        \* history: who wrote between the reading of c and its writing
    outran        \* history: a row was overwritten that was not as it was read

cartVars == <<cart, stage, item, itemId, credited, since, outran>>

CartRow == [quantity : Nat, deleted : BOOLEAN]
NewRow == [quantity |-> 0, deleted |-> FALSE]
LiveRows == {i \in DOMAIN cart : ~cart[i].deleted}

CartTypeOK ==
    /\ cart \in Seq(CartRow) /\ Cardinality(LiveRows) <= 1 /\ Len(cart) <= 2
    /\ stage \in [CartCalls -> {"new", "found", "missing", "done", "refused"}]
    /\ item \in [CartCalls -> CartRow]
    /\ itemId \in [CartCalls -> 0 .. Len(cart)]
    /\ credited \in Nat /\ since \in [CartCalls -> SUBSET CartCalls]
    /\ outran \in BOOLEAN

CartInit ==
    /\ cart = <<>>
    /\ stage = [c \in CartCalls |-> "new"]
    /\ item = [c \in CartCalls |-> NewRow] /\ itemId = [c \in CartCalls |-> 0]
    /\ credited = 0 /\ since = [c \in CartCalls |-> {}] /\ outran = FALSE

Stage(c, s) == stage' = [stage EXCEPT ![c] = s]

\* The rows that FindOneByUserAndProduct selects.
Found == LiveRows

\* Without a row an add inserts one, the other calls answer that it is missing.
FindOneByUserAndProduct(c) ==
    /\ stage[c] = "new"
    /\ \/ \E i \in Found :
            /\ item' = [item EXCEPT ![c] = cart[i]]
            /\ itemId' = [itemId EXCEPT ![c] = i]
            /\ Stage(c, "found")
       \/ /\ Found = {}
          /\ Stage(c, IF Kind[c] = "add" THEN "found" ELSE "missing")
          /\ UNCHANGED <<item, itemId>>
    /\ UNCHANGED <<cart, credited, since, outran>>

\* An add of no quantity adds one; an update of none leaves the quantity.
Added(c) == IF Quantity[c] = 0 THEN 1 ELSE Quantity[c]
Updated(c, quantity) == IF Quantity[c] = 0 THEN quantity ELSE Quantity[c]

\* Mutant: an add of a product that is in the cart sets its quantity.
ChangedSets(c) ==
    CASE Kind[c] = "add" -> [item[c] EXCEPT !.quantity = Added(c)]
      [] Kind[c] = "update" -> [item[c] EXCEPT !.quantity = Updated(c, @)]
      [] Kind[c] = "delete" -> [item[c] EXCEPT !.deleted = TRUE]

\* The row the call writes.
Changed(c) ==
    CASE Kind[c] = "add" -> [item[c] EXCEPT !.quantity = @ + Added(c)]
      [] Kind[c] = "update" -> [item[c] EXCEPT !.quantity = Updated(c, @)]
      [] Kind[c] = "delete" -> [item[c] EXCEPT !.deleted = TRUE]

\* The unique key: another row has the delete_status the call writes.
Clashes(c) == \E i \in DOMAIN cart :
                 i # itemId[c] /\ cart[i].deleted = Changed(c).deleted

\* Insert, or Update by id.
Written(c) == IF itemId[c] = 0 THEN Append(cart, Changed(c))
                               ELSE [cart EXCEPT ![itemId[c]] = Changed(c)]

Write(c) ==
    /\ stage[c] = "found" /\ ~Clashes(c)
    /\ cart' = Written(c)
    /\ outran' = (outran \/ (itemId[c] # 0 /\ cart[itemId[c]] # item[c]))
    /\ credited' = CASE Kind[c] = "add" -> credited + Added(c)
                     [] Kind[c] = "update" -> Updated(c, credited)
                     [] Kind[c] = "delete" -> 0
    /\ since' = [d \in CartCalls |->
                   IF d # c /\ stage[d] = "found" THEN since[d] \cup {c} ELSE since[d]]
    /\ Stage(c, "done")
    /\ UNCHANGED <<item, itemId>>

\* The statement fails on the key, and the call with an internal error.
Refused(c) ==
    /\ stage[c] = "found" /\ Clashes(c)
    /\ Stage(c, "refused")
    /\ UNCHANGED <<cart, item, itemId, credited, since, outran>>

CartNext == \E c \in CartCalls : FindOneByUserAndProduct(c) \/ Write(c) \/ Refused(c)

CartSpec == CartInit /\ [][CartNext]_cartVars

\* totalCount of GetCartList.
TotalCount == IF LiveRows = {} THEN 0 ELSE cart[CHOOSE i \in LiveRows : TRUE].quantity

\* Additions, updates and deletions add up, whatever rows they were spread
\* over, until one of them overwrites a row that changed after it was read.
CartAddsUp == ~outran => TotalCount = credited

\* A deleted product comes back with its old quantity only through a call
\* that had read its row before the deletion.
DeletedStaysDeleted ==
    [][\A i \in DOMAIN cart : cart[i].deleted /\ ~cart'[i].deleted =>
         \E c \in CartCalls : itemId[c] = i /\ stage'[c] = "done"
             /\ \E d \in since[c] : Kind[d] = "delete"]_cartVars

\* A deletion fails only if an earlier one has left its deleted row behind,
\* and an addition or update only if another, which may have given back a
\* deleted row, wrote after it had read.
RefusedForCause ==
    \A c \in CartCalls : stage[c] = "refused" =>
        IF Kind[c] = "delete"
          THEN \E d \in CartCalls : Kind[d] = "delete" /\ stage[d] = "done"
          ELSE \E d \in since[c] : Kind[d] # "delete"

\* The cart shows what its calls were told: what succeeded adds up, and what
\* was refused had a cause.
CartTruthful == CartAddsUp /\ RefusedForCause

=============================================================================
