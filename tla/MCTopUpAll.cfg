\* One payment, two deliveries at once, every fault.
SPECIFICATION FairSpec
CONSTANTS
    Ada = Ada  Ben = Ben  p = p  h1 = h1  h2 = h2
    Undefined = Undefined
    NoEvent = NoEvent
    Users = {Ada, Ben}
    References = {p}
    Handlers = {h1, h2}
    Owner <- OwnerOf
    Amounts = {200, 150}
    Opening <- Empty
    Events = {"success", "other"}
    MaxTries = 2
    Faults = {"initialize", "verify", "database", "reply", "crash"}
    Switchable = {Ada}
INVARIANTS TypeOK CreditedOnceUnlessOverlapped UnpaidStaysPending
PROPERTIES CompletedIsFinal PaidIsCredited
CHECK_DEADLOCK FALSE
