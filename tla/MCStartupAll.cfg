\* Two instances, four starts, two scripts.
SPECIFICATION FairSpec
CONSTANTS
    Ada = Ada  k1 = k1  k2 = k2  i1 = i1  i2 = i2
    triggers = triggers  later = later
    Files <- TwoFiles
    BalanceScript = triggers
    Instances = {i1, i2}
    MaxStarts = 4
    Wallets = {Ada}
    Keys = {k1, k2}
    Amounts = {1, 2}
    Opening <- One
INVARIANTS ScriptsInv
PROPERTIES UndisturbedStartsListen ImplementsLedger
CHECK_DEADLOCK FALSE
