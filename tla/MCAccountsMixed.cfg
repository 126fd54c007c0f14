\* Two sign-ups or a login, renamed meanwhile, with connections enough.
SPECIFICATION FairSpec
CONSTANTS
    adaMail = adaMail  benMail = benMail
    name = name  upper = upper  admin = admin  Admin = Admin
    longMail = longMail  longIn = longIn
    adaIn = adaIn  adaAgain = adaAgain  benIn = benIn
    toName = toName  toUpper = toUpper  toAdmin = toAdmin
    Emails = {adaMail, benMail, longMail}
    Long = {longMail}
    Names = {name, upper, admin, Admin}
    LowerCase <- Lower
    Reserved = {admin}
    NoWallet = NoWallet
    NoJob = NoJob
    Jobs = {adaIn, adaAgain, benIn, toName, toUpper, toAdmin, longIn}
    Work <- WorkOf
    PoolSize = 4
    Mixes = {{adaIn, adaAgain, benIn}, {adaIn, adaAgain, toName, toUpper}, {adaIn, benIn, toName, toUpper}, {adaIn, longIn, toAdmin}}
    Breakable = {adaIn, adaAgain}
INVARIANTS TypeOK UsersAreDistinct LeftoversOnlyOfInterrupted TotalNeverAbove
PROPERTIES OnlyRenamesRename EveryEntryEnds
CHECK_DEADLOCK FALSE
