SPECIFICATION FairSpec
CONSTANTS
    Keys = {k1}
    Batch = 2
    MaxRows = 3
    MaxOpen = 2
    MaxFailures = 1
    MaxPoison = 1
    MaxCrashes = 1
    MaxAdmin = 1
CHECK_DEADLOCK FALSE
INVARIANT NoRowLost
 
INVARIANT OvertakenOnlyIfExcused
PROPERTY KeepsPromise
PROPERTY Delivered
