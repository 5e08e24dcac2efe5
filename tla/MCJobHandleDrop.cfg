SPECIFICATION Spec
CONSTANTS
    w1 = w1
    w2 = w2
    p1 = p1
    Clients = {w1}
    Waiters = {w1}
    JobErrors = {"Io"}
    Throws = FALSE
    MaxEvents = 2
CHECK_DEADLOCK FALSE
PROPERTY DroppedJobEnds
