SPECIFICATION PartSpec
CONSTANTS
    m1 = m1  m2 = m2  p1 = p1  r1 = r1  r2 = r2  basic = basic  pro = pro
    server = server  tool = tool  d = d  b = b  tony = tony  cut = cut  dye = dye
    admin = admin  platform = platform  a1 = a1  a2 = a2  v1 = v1  v2 = v2  s1 = s1  s2 = s2
    Admins = {m1, m2, p1}
    FirstRole <- MCFirstRole
    Requests = {r1, r2}
    Routes = {"role", "disable", "create", "renew", "setplan"}
    Plans = {basic, pro}
    TTL = 2
    Grace = 0
    Month = 2
    MaxTime = 3
    MaxSubs = 2
    NoAdmin = NoAdmin
    Procs = {server, tool}
    Tool = tool
    Shops = {d, b}
    Default = d
    Defaults = {cut, dye}
    Barbers = {tony}
    Admin = admin
    Platform = platform
    Others = {}
    Perms = {v1, v2}
    PlatformPerms = {v2}
    Appts = {a1, a2}
    Slots = {s1, s2}
    NameOf <- Whose
    MaxFaults = 1
    MaxEdits = 1
    MaxStarts = 2
SYMMETRY Symmetry
CONSTRAINT Bounds
INVARIANTS OwnerRemains PlanIsServed StartsInOrder
PROPERTIES StepsAllowed
CHECK_DEADLOCK FALSE
