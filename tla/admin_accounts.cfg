SPECIFICATION Spec
CONSTANTS
    Operators = {ann, ben}
    ann = ann
    ben = ben
    Roles <- MCRoles
    Assets = {"KRW", "DOGE"}
    Listed = {"KRW"}
    Opening = 1
    Deltas <- MCDeltas
    Fees = {1}
    MaxOrders = 1
    MaxRequests = 2
    MaxSignups = 1
    MaxDemotions = 1
    MaxFaults = 1
INVARIANTS
    FundsExplained
    AuditIsTruthful

    
SYMMETRY OperatorsAlike
CHECK_DEADLOCK FALSE
