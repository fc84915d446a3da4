SPECIFICATION PartSpec
CONSTANTS
    o1 = o1  o2 = o2  c1 = c1  c2 = c2  k1 = k1  r1 = r1  r2 = r2  n1 = n1  n2 = n2
    p1 = p1  p2 = p2  s1 = s1  s2 = s2  north = north  south = south  a1 = a1  a2 = a2
    Operators = {o1, o2}
    Cards = {c1, c2}
    Kind = "stored_value"
    Initial = 3
    Amounts = {1, 2, 3}
    MaxBalance = 4
    NoCard = NoCard
    Shops = {s1, s2}
    Products = {p1, p2}
    Sold = {k1}
    ProductNames = {"cut"}
    Requests = {r1, r2}
    MaxCents = 2
    MaxAsked = 3
    NoId = NoId
    Plans = {"basic", "flagship"}
    Limit <- SmallLimit
    ServiceNames = {n1, n2}
    MaxRows = 3
    MaxMade = 4
    Tags = {"VIP", "BLACKLIST"}
    Branches = {north, south}
    Appts = {a1, a2}
    ShopOf <- Where
    CustomerOf <- Whose
    Customers = {1, 2}
    Types = {"handoff_to_human", "other"}
    Week = 1
    First = 2
    Baseline = 1
    RankLimit = 1
    PageLimit = 1
    MaxTime = 4
SYMMETRY Symmetry
CONSTRAINT Bounds
INVARIANTS BalanceIsSum ArchivedIsUnused EmptyIsNotActive OwnersTablesKept FiguresAgree
CHECK_DEADLOCK FALSE
