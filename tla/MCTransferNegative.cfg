\* One call, of a negative amount.
SPECIFICATION Spec
CONSTANTS
    Ada = Ada  Ben = Ben  Cy = Cy  Dan = Dan
    k1 = k1  k2 = k2  r1 = r1  r2 = r2
    NoWallet = NoWallet
    NoUser = NoUser
    NoRequest = NoRequest
    Wallets = {Ada, Ben, Cy, Dan}
    Keys = {k1, k2}
    Amounts <- AllAmounts
    Requests = {r1}
    Opening <- Purse
    Calls <- Negative
    Switchable = {}
INVARIANTS NoOverdraft
CHECK_DEADLOCK FALSE
