SPECIFICATION Spec
CONSTANTS
    Users <- MCUsers
    Menu <- SweepMenu
    Deposit <- MCDeposit
    FeeBase = 10
    MakerFeeBp = 1
    TakerFeeBp = 2
    Depth = 2
    StartsUp = TRUE
    GroupExists = TRUE
    MaxQty = 2
    MaxOrders = 3
    MaxCancels = 1
    MaxDuplicates = 0
    MaxAborts = 1
    MaxCrashes = 0
CHECK_DEADLOCK FALSE
INVARIANT TypeOK
INVARIANT LockedMatchesOpenOrders
INVARIANT Conservation
INVARIANT OrderAccounting
