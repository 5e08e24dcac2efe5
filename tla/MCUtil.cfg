SPECIFICATION UtilSpec
CONSTANTS
    v1 = v1
    v2 = v2
    s1 = s1
    s2 = s2
    t1 = t1
    t2 = t2
    t3 = t3
    p1 = p1
    p2 = p2
    c1 = c1
    c2 = c2
    Workers = {v1, v2}
    Clients = {s1, s2}
    Tasks = {t1, t2, t3}
    Producers = {p1, p2}
    Consumers = {c1, c2}
    Capacity = 2
    MaxCalls = 2
INVARIANTS
    TypeOK
    NoLostWakeup
    DrainedWhenGone
    QueueSound
PROPERTIES
    UtilCallsReturn
    ImplementsTaskPool
