SPECIFICATION FairSpec
CONSTANTS
    Events = {e1}
    InFlight = 2
    MaxMessages = 1
    MaxFaults = 2
    MaxRequests = 1
CHECK_DEADLOCK FALSE
INVARIANT LostOnlyBehindOrphan
INVARIANT EffectOnce
 
PROPERTY Drains
