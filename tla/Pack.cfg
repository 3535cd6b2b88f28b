SPECIFICATION FairSpec
CONSTANTS
    t1 = t1
    t2 = t2
    Transactions = {t1, t2}
    Packs = {p, q}
    NoTransaction = NoTransaction
    NoPack = NoPack
    Worlds <- Survivable
    MaxCrashes = 3
    MaxErrors = 2
CHECK_DEADLOCK FALSE
PROPERTIES  StartupEnds
