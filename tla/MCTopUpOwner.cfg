\* One payment of two naira, one delivery.
SPECIFICATION Spec
CONSTANTS
    Ada = Ada  Ben = Ben  p = p  h1 = h1  h2 = h2
    Undefined = Undefined
    NoEvent = NoEvent
    Users = {Ada, Ben}
    References = {p}
    Handlers = {h1}
    Owner <- OwnerOf
    Amounts = {200}
    Opening <- Empty
    Events = {"success"}
    MaxTries = 2
    Faults = {}
    Switchable = {}
INVARIANTS CreditedToOwner
CHECK_DEADLOCK FALSE
