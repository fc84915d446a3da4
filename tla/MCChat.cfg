SPECIFICATION PartSpec
CONSTANTS
    q1 = q1  q2 = q2  p1 = p1  m1 = m1  m2 = m2  n1 = n1
    Chats = {q1, q2}
    Approvals = {p1}
    MaxLoops = 3
    MaxAborts = 1
    Replies = {m1, m2}
    Notices = {n1}
    Parties <- OnePair
    AutoModes = {TRUE, FALSE}
    Life = 3
    Margin = 2
    clientMaxAttempts = 2
    MaxTime = 3
INVARIANTS AnswersKeepApart
PROPERTIES AnswersEnd PersonKeeps
CHECK_DEADLOCK FALSE
