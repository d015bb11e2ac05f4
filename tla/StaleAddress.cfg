\* One address, deleted by a call that nothing disturbs.
SPECIFICATION RecordsSpec
CONSTANTS
    Parts = {"addresses"}
    home = home
    work = work
    addWork = addWork
    editHome = editHome
    deleteHome = deleteHome
    lister = lister
    addTwo = addTwo
    addOne = addOne
    setFive = setFive
    select = select
    deleteFirst = deleteFirst
    deleteAgain = deleteAgain
    pay = pay
    deliver = deliver
    finish = finish
    sendBack = sendBack
    viewer = viewer
    reader = reader
    rival = rival
    ask = ask
    again = again
    broken = broken
    noAsker = noAsker
    AddressIds = {home, work}
    Owned = {home}
    Calls = {deleteHome}
    Op <- MCOp
    Subject <- MCSubject
    Listers = {}
    MaxFaults = 0
    CartCalls = {addTwo, addOne, setFive, select, deleteFirst, deleteAgain}
    Kind <- MCKind
    Quantity <- MCQuantity
    Updates = {pay, deliver, finish, sendBack}
    NewStatus <- MCNewStatus
    Viewers = {viewer}
    MaxLost = 1
    Products <- MCProducts
    CreateTime <- MCCreateTime
    PageReaders = {reader, rival}
    Ps = 2
    MaxFirst = TRUE
    Opening = 4
    Closing = 5
    Askers = {ask, again, broken}
    Malformed = {broken}
    NoAsker = noAsker
    MaxTroubles = 2
\* Calls are made once each.
CHECK_DEADLOCK FALSE
INVARIANT DeletedNotServed
