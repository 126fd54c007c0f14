\* Two cashouts of one wallet, two webhooks at a time, every fault.
SPECIFICATION FairSpec
CONSTANTS
    Ada = Ada  Ben = Ben  c = c  d = d  h1 = h1  h2 = h2  t1 = t1
    Undefined = Undefined
    NoEvent = NoEvent
    Users = {Ada}
    Cashouts = {c, d}
    Handlers = {h1, h2}
    Amount <- OneAndTwoNaira
    Opening <- Covered
    CallerId <- NoIdSent
    OtherKeys = {t1}
    OtherAmounts = {100}
    MaxTries <- TwoAndOne
    Faults = {"payout", "payoutReply", "payoutFails", "database", "email", "crash"}
INVARIANTS TypeOK RecordsTellOutcome DebitedIsCompletedUnlessEarly PaidIsDebitedOrDue
PROPERTIES PaidIsDebited ImplementsLedger
CHECK_DEADLOCK FALSE
