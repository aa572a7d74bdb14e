SPECIFICATION PollsSpec
CONSTANTS
    s1 = s1
    s2 = s2
    c1 = c1
    c2 = c2
    p1 = p1
    p2 = p2
    p3 = p3
    m1 = m1
    Streams = {s1, s2}
    Consumers = {c1, c2}
    Polls = {p1, p2, p3}
    Messages = {m1}
    StreamOf <- TwoShards
    Target <- ThreePolls
    Owner <- OneMessage
    MaxWaiters = 1
    MaxPerConsumer = 2
    MaxAckPending = 1
    WakeBatch = 2
    EventDepth = 1
    NoWait = {p2, p3}
    Remote = {m1}
    Faults = {"stop", "gone", "busy"}
INVARIANT RegistryCounts
PROPERTIES
    WakesArrive
    ShutdownAnswers
CHECK_DEADLOCK FALSE
