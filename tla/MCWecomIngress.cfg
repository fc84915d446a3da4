CONSTANTS
    s1 = s1  s2 = s2  k1 = k1  k2 = k2  nokf = nokf  noid = noid
    Main = s1
    Branches = {s2}
    Kfs = {k1, k2}
    NoKf = nokf
    Msgs <- Callbacks
    NoId = noid
    MaxFaults = 3
SPECIFICATION Spec
INVARIANTS ShopsStayReachable
CHECK_DEADLOCK FALSE
