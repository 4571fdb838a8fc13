SPECIFICATION FairSpec
CONSTANTS
    u1 = u1
    u2 = u2
    b1 = b1
    b2 = b2
    k = k
    Users = {u1, u2}
    Bodies = {b1, b2}
    Keys = {k}
    NoKey = NoKey
    BadKey = BadKey
    Calls <- MCCalls
    Funds = 2
    SweepBatch = 1
    MaxAttempts = 3
    MaxFaults = 1
    MaxCrashes = 1
INVARIANTS
    RetryGetsOldAnswer
    SubmitAnswersOwnBody

    
CHECK_DEADLOCK FALSE
