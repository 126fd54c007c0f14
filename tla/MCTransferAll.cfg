\* Two calls over four wallets.
SPECIFICATION FairSpec
CONSTANTS
    Ada = Ada  Ben = Ben  Cy = Cy  Dan = Dan
    k1 = k1  k2 = k2  r1 = r1  r2 = r2
    NoWallet = NoWallet
    NoUser = NoUser
    NoRequest = NoRequest
    Wallets = {Ada, Ben, Cy, Dan}
    Keys = {k1, k2}
    Amounts <- AllAmounts
    Requests = {r1, r2}
    Opening <- Purse
    Calls <- Pairs
    Switchable = {Ada, Ben}
INVARIANTS Inv OverdrawnOnlyByNegative DoubleEntry OneTransferPerKey
    FrozenWalletsDoNotMove AnswerIsTrue
    HistoryNamesCounterpart
    BalanceIsHistory
PROPERTIES EveryCallEnds ImplementsLedger
CHECK_DEADLOCK FALSE
