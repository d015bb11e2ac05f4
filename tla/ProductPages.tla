---------------------------- MODULE ProductPages ----------------------------
(***************************************************************************)
(* The products of one category, page by page (apps/product, ProductList): *)
(* a page comes from a sorted set in Redis if that holds enough products,   *)
(* otherwise from the table, and what the table gave is added to the set in *)
(* the background. The cursor is the second the last product of the page    *)
(* was created in: the set counts that second in, the table leaves it out.  *)
(***************************************************************************)
EXTENDS Integers, FiniteSets, FiniteSetsExt

CONSTANTS
    Products, CreateTime,  \* CreateTime[p]: the second p is created in
    PageReaders,
    Ps,                    \* size of a page
    MaxFirst,              \* the library takes the largest score first
    Opening, Closing       \* the seconds in which the model begins and ends

ASSUME ProductPagesAssumption ==
    /\ CreateTime \in [Products -> Nat \ {0}] /\ Products \subseteq Nat
    /\ IsFiniteSet(Products) /\ Ps \in Nat \ {0} /\ MaxFirst \in BOOLEAN
    /\ Opening \in Nat \ {0} /\ Closing \in Nat /\ Opening <= Closing

VARIABLES
    product,  \* the products in the table
    second,   \* the clock
    zset,     \* category:cid, the products in it; their scores do not change
    adding,   \* the goroutines of addCacheProductList: what each has left to add
    cursor,   \* per reader: 0 before the first page
    isEnd,    \* per reader: it was told that there is no more
    shown,    \* history: the products of its pages
    passedBy, \* history: products that were not in the set when its pages from
              \* the set went past them
    began     \* history: the second of its first page

pageVars == <<product, second, zset, adding, cursor, isEnd, shown, passedBy, began>>

ProductPagesTypeOK ==
    /\ product \subseteq Products /\ zset \subseteq product
    /\ second \in Opening .. Closing /\ adding \subseteq SUBSET product
    /\ cursor \in [PageReaders -> 0 .. Closing]
    /\ isEnd \in [PageReaders -> BOOLEAN]
    /\ shown \in [PageReaders -> SUBSET product]
    /\ passedBy \in [PageReaders -> SUBSET product]
    /\ began \in [PageReaders -> 0 .. Closing]
    \* The cursor 0 would begin again with the newest product.
    /\ \A r \in PageReaders : began[r] # 0 /\ cursor[r] = 0 => isEnd[r]

ProductPagesInit ==
    /\ second = Opening /\ product = {p \in Products : CreateTime[p] < Opening}
    /\ zset = {} /\ adding = {}
    /\ cursor = [r \in PageReaders |-> 0] /\ isEnd = [r \in PageReaders |-> FALSE]
    /\ shown = [r \in PageReaders |-> {}] /\ passedBy = [r \in PageReaders |-> {}]
    /\ began = [r \in PageReaders |-> 0]

\* The table orders by create_time, the set by score and then by name.
Before(p, q) == CreateTime[p] > CreateTime[q]
BeforeInSet(p, q) == Before(p, q) \/ (CreateTime[p] = CreateTime[q] /\ p > q)

\* The first n of S in an order: several sets if the order leaves it open.
FirstOf(S, n, precedes(_, _)) ==
    {P \in SUBSET S : /\ Cardinality(P) = Min({n, Cardinality(S)})
                      /\ \A p \in P, q \in S \ P : ~precedes(q, p)}

\* A reader begins with the present second.
Cursor(r) == IF cursor[r] = 0 THEN second ELSE cursor[r]

\* The timestamp of the last product.
Timestamp(P) == IF P = {} THEN 0 ELSE Min({CreateTime[p] : p \in P})

\* cacheProductList passes the cursor and then 0, for the largest and the
\* smallest score. A library that takes the smallest first, as go-zero's does,
\* finds nothing between them, and every page comes from the table.
InSet(r) ==
    {p \in zset : CreateTime[p] \in IF MaxFirst THEN 0 .. Cursor(r) ELSE Cursor(r) .. 0}

\* The end mark in the set, of score 0, does not count as a product: a page
\* that holds it is too short, like one that ends without it.
Enough(r) == Cardinality(InSet(r)) >= Ps

Show(r, page) ==
    /\ shown' = [shown EXCEPT ![r] = @ \cup page]
    /\ cursor' = [cursor EXCEPT ![r] = Timestamp(page)]
    /\ began' = [began EXCEPT ![r] = IF @ = 0 THEN second ELSE @]

\* cacheProductList and productsByIds. IsEnd is never true here.
PageFromSet(r) ==
    /\ ~isEnd[r] /\ Enough(r)
    /\ \E page \in FirstOf(InSet(r), Ps, BeforeInSet) :
         /\ Show(r, page)
         /\ passedBy' = [passedBy EXCEPT ![r] = @ \cup
              {p \in product \ zset : CreateTime[p] \in Timestamp(page) .. Cursor(r)}]
    /\ UNCHANGED <<product, second, zset, adding, isEnd>>

\* Mutant: no product beyond the page is asked for.
LimitNone == Ps

\* One product more than the page, by which the end is known.
Limit == Ps + 1

\* FindByCategory: also when Redis fails, or a product of the set is not found.
PageFromTable(r) ==
    /\ ~isEnd[r]
    /\ \E rows \in FirstOf({p \in product : CreateTime[p] < Cursor(r)}, Limit, Before) :
         /\ isEnd' = [isEnd EXCEPT ![r] = Cardinality(rows) <= Ps]
         /\ adding' = IF rows = {} THEN adding ELSE adding \cup {rows}
         /\ \E page \in FirstOf(rows, Ps, Before) : Show(r, page)
    /\ UNCHANGED <<product, second, zset, passedBy>>

\* One ZADD of one goroutine, in the order of its rows. One that fails is
\* logged, and the next follows.
AddToSet ==
    /\ \E rows \in adding : \E first \in FirstOf(rows, 1, Before) :
         /\ zset' \in {zset \cup first, zset}
         /\ adding' = (adding \ {rows}) \cup ({rows \ first} \ {{}})
    /\ UNCHANGED <<product, second, cursor, isEnd, shown, passedBy, began>>

\* The process dies and its goroutines with it, or the set expires.
LoseSet ==
    /\ \/ adding # {} /\ adding' = {} /\ UNCHANGED zset
       \/ zset # {} /\ zset' = {} /\ UNCHANGED adding
    /\ UNCHANGED <<product, second, cursor, isEnd, shown, passedBy, began>>

CreateProduct(p) ==
    /\ p \notin product /\ CreateTime[p] = second
    /\ product' = product \cup {p}
    /\ UNCHANGED <<second, zset, adding, cursor, isEnd, shown, passedBy, began>>

Tick ==
    /\ second < Closing /\ second' = second + 1
    /\ UNCHANGED <<product, zset, adding, cursor, isEnd, shown, passedBy, began>>

ProductPagesNext ==
    \/ \E r \in PageReaders : PageFromSet(r) \/ PageFromTable(r)
    \/ \E p \in Products : CreateProduct(p)
    \/ AddToSet \/ LoseSet \/ Tick

ProductPagesSpec == ProductPagesInit /\ [][ProductPagesNext]_pageVars

\* A reader that was told it has seen everything has seen every product there
\* was before it began, but those it can lose: products of a second that a page
\* ended in, and products the set did not hold when a page from it went past.
MissingHasCause ==
    \A r \in PageReaders : isEnd[r] =>
        \A p \in product : CreateTime[p] < began[r] /\ p \notin shown[r] =>
            p \in passedBy[r] \/ \E q \in shown[r] : CreateTime[q] = CreateTime[p]

\* Products, set and cursors keep their types, and pages leave out nothing
\* without a cause.
PagesComplete == ProductPagesTypeOK /\ MissingHasCause

=============================================================================
