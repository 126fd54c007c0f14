\* One payment of a naira and a half.
SPECIFICATION Spec
CONSTANTS
    Ada = Ada  Ben = Ben  p = p  h1 = h1  h2 = h2
    Undefined = Undefined
    NoEvent = NoEvent
    Users = {Ada, Ben}
    References = {p}
    Handlers = {h1}
    Owner <- OwnerOf
    Amounts = {150}
    Opening <- Empty
    Events = {"success"}
    MaxTries = 2
    Faults = {}
    Switchable = {}
INVARIANTS CompletedIsCredited
CHECK_DEADLOCK FALSE
