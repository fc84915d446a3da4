SPECIFICATION PartSpec
CONSTANTS
    g1 = g1  g2 = g2
    k1 = k1  k2 = k2  k3 = k3  deepseek = deepseek  openai = openai  ark = ark  other = other
    A = A  B = B  i1 = i1  i2 = i2  none = none
    Requests = {g1, g2}
    Keys = {k1, k2, k3}
    Cap = 1
    burst = 2
    globalBurst = 3
    MaxAsks = 5
    MaxTime = 2
    MaxBuckets = 5
    Providers = {deepseek, openai, ark}
    Lists <- TwoOrThree
    maxModelRetriesPerProvider = 1
    MaxIteration = 2
    degradationWindow = 1
    degradationMinCalls = 2
    degradationAlertDelay = 2
    AlertShare = 3
    chainMaxTime = 3
    MaxRecords = 4
    Letters = {"a", "A", "b"}
    small <- SmallOf
    Cats = {"violence", "ad", "general"}
    Counted = {"violence", "ad"}
    Rank <- RankOf
    Files <- Lexicons
    MaxText = 3
    LLMMinLength = 2
    Threshold <- DefaultThreshold
    Checks = {1}
    MaxChecks = 2
    Channels = {"web", "wecom"}
    Texts = {A, B}
    NoText = none
    Ids = {i1, i2}
    Sizes = {1, 3}
    MaxMessages = 3
    MaxChars = 4
    SummaryTrigger = 4
    MaxTurns = 3
    MaxEvents = 3
SYMMETRY Symmetry
CONSTRAINT Bounds
INVARIANTS WayKept
CHECK_DEADLOCK FALSE
