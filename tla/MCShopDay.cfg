SPECIFICATION PartSpec
CONSTANTS
    a1 = a1  a2 = a2  c1 = c1  b1 = b1  b2 = b2  l1 = l1
    g1 = g1  s1 = s1  s2 = s2  n1 = n1  n2 = n2  w1 = w1
    old1 = old1  old2 = old2  new1 = new1  x1 = x1  x2 = x2
    Appts = {a1, a2}
    Customers = {c1}
    Barbers = {b1, b2}
    NoBarber = NoBarber
    Leaves = {l1}
    Times = {2}
    MaxTime = 3
    Owner <- MCOwner
    FreeWindow = 2
    Grace = 1
    LateThreshold = 3
    MaxUndos = 1
    Guests = {g1}
    Subs = {s1, s2}
    Notes = {n1, n2}
    Admins = {w1}
    Window <- MCWindow
    Ends = {2, 3, 4}
    Period = 4
    MaxClock = 8
    Legacy = {old1, old2}
    News = {new1}
    Executors = {x1, x2}
    Detail <- OldAndNew
    MaxPlans = 2
SYMMETRY Symmetry
CONSTRAINT Bounds
INVARIANTS RecordsAgree AttendedOrExcused OutreachIsTrue MovedFaithfully
CHECK_DEADLOCK FALSE
