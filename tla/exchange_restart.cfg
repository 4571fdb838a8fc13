SPECIFICATION Spec
CONSTANTS
    Users <- MCUsers
    Menu <- RestartMenu
    Deposit <- MCDeposit
    FeeBase = 10
    MakerFeeBp = 1
    TakerFeeBp = 2
    Depth = 2
    StartsUp = TRUE
    GroupExists = TRUE
    MaxQty = 2
    MaxOrders = 3
    MaxCancels = 1
    MaxDuplicates = 0
    MaxAborts = 0
    MaxCrashes = 1
CHECK_DEADLOCK FALSE
INVARIANT TradesExplainFills
INVARIANT BookWithinOrders
INVARIANT BookExactUntilFault
PROPERTY TerminalIsFinal
