SPECIFICATION FairSpec
CONSTANTS
    Users = {u1, u2}
    NoUser = none
    Symbols = {s1, s2}
    Home = s1
    Prices = {p1}
    NoPrice = nop
    Layouts = {"mobile", "desktop"}
    MaxClicks = 4
    MaxRequests = 3
    MaxExpiries = 1
    MaxFaults = 1
INVARIANTS
    OrderIsTheAskers
    OneOrderPerClick
    
PROPERTY
    RequestsEnd
CHECK_DEADLOCK FALSE
