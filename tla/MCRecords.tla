----------------------------- MODULE MCRecords -----------------------------
(***************************************************************************)
(* Five parts that answer from a cache in front of a table, write back what *)
(* they read, or share a key: addresses, the cart, the status of an order,  *)
(* the pages of products, calls with one request id. They share no state:   *)
(* each behaviour exercises one and leaves the others as they were.         *)
(***************************************************************************)
EXTENDS Addresses, Cart, OrderStatus, ProductPages, OrderRequests

CONSTANTS
    Parts,                                          \* the services to explore
    home, work, addWork, editHome, deleteHome, lister,
    addTwo, addOne, setFive, select, deleteFirst, deleteAgain,
    pay, deliver, finish, sendBack, viewer,
    reader, rival,
    ask, again, broken, noAsker

VARIABLE part

recordsVars == <<part, addressVars, cartVars, statusVars, pageVars, requestVars>>

MCOp == [c \in Calls |-> CASE c = addWork -> "add"
                           [] c = editHome -> "edit"
                           [] c = deleteHome -> "delete"]
MCSubject == [c \in Calls |-> IF c = addWork THEN work ELSE home]

MCKind == [c \in CartCalls |-> CASE c \in {addTwo, addOne} -> "add"
                                 [] c \in {setFive, select} -> "update"
                                 [] c \in {deleteFirst, deleteAgain} -> "delete"]
MCQuantity == [c \in CartCalls |-> CASE c = addTwo -> 2 [] c = setFive -> 5 [] OTHER -> 0]

MCNewStatus == [u \in Updates |-> CASE u = pay -> 2 [] u = deliver -> 4
                                    [] u = finish -> 6 [] u = sendBack -> 7]

\* Products 2 and 3 were created in the same second, 5 is still to come.
MCProducts == 1 .. 5
MCCreateTime == [p \in MCProducts |-> <<1, 2, 2, 3, 4>>[p]]

RecordsInit ==
    /\ part \in Parts
    /\ AddressInit /\ CartInit /\ OrderStatusInit /\ ProductPagesInit
    /\ RequestInit
    /\ part # "addresses" => Defaults = {}

Explore(p) == part = p /\ UNCHANGED part

AddressStep ==
    Explore("addresses") /\ AddressNext /\ UNCHANGED <<cartVars, statusVars, pageVars, requestVars>>
CartStep ==
    Explore("cart") /\ CartNext /\ UNCHANGED <<addressVars, statusVars, pageVars, requestVars>>
StatusStep ==
    /\ Explore("status") /\ OrderStatusNext
    /\ UNCHANGED <<addressVars, cartVars, pageVars, requestVars>>
PageStep ==
    /\ Explore("pages") /\ ProductPagesNext
    /\ UNCHANGED <<addressVars, cartVars, statusVars, requestVars>>
RequestStep ==
    Explore("requests") /\ RequestNext /\ UNCHANGED <<addressVars, cartVars, statusVars, pageVars>>

RecordsSpec ==
    RecordsInit /\ [][AddressStep \/ CartStep \/ StatusStep \/ PageStep \/ RequestStep]_recordsVars

\* What was deleted, an address or the product of a cart, comes back only
\* through a call that had read it as it was before the deletion.
DeletionsHold == NotRevived /\ DeletedStaysDeleted

=============================================================================
