\* A mailer that may fail.
SPECIFICATION Spec
CONSTANTS
    Ada = Ada  Ben = Ben  c = c  d = d  h1 = h1  h2 = h2  t1 = t1
    Undefined = Undefined
    NoEvent = NoEvent
    Users = {Ada, Ben}
    Cashouts = {c, d}
    Handlers = {h1}
    Amount <- NairaEach
    Opening <- Covered
    CallerId <- NoIdSent
    OtherKeys = {}
    OtherAmounts = {100}
    MaxTries <- TwoAndOne
    Faults = {"email"}
INVARIANTS DebitedAtMostOnce
CHECK_DEADLOCK FALSE
