SPECIFICATION PartSpec
CONSTANTS
    m1 = m1  m2 = m2  m3 = m3  c1 = c1  c2 = c2  w1 = w1  w2 = w2  x1 = x1
    Msgs = {m1, m2, m3}
    MaxMsgs = 2
    First = First
    NoMsg = NoMsg
    NoState = NoState
    Callers = {c1, c2}
    Workers = {w1, w2}
    Closers = {x1}
    Kinds = {"Submit", "TrySubmit", "PreCheck"}
    queueSize = 1
    MaxJobs = 2
INVARIANTS NoneForgotten JobsOnce
PROPERTIES ImplementsBatching EveryMessageTaken CallsEnd
CHECK_DEADLOCK FALSE
