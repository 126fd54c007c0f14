\* As many sign-ups as connections.
SPECIFICATION FairSpec
CONSTANTS
    adaMail = adaMail  benMail = benMail
    name = name  upper = upper  admin = admin  Admin = Admin
    longMail = longMail  longIn = longIn
    adaIn = adaIn  adaAgain = adaAgain  benIn = benIn
    toName = toName  toUpper = toUpper  toAdmin = toAdmin
    Emails = {adaMail, benMail, longMail}
    Long = {longMail}
    Names = {name, upper, admin, Admin}
    LowerCase <- Lower
    Reserved = {admin}
    NoWallet = NoWallet
    NoJob = NoJob
    Jobs = {adaIn, adaAgain, benIn, toName, toUpper, toAdmin, longIn}
    Work <- WorkOf
    PoolSize = 2
    Mixes = {{adaIn, benIn}}
    Breakable = {}
PROPERTIES EveryEntryEnds
CHECK_DEADLOCK FALSE
