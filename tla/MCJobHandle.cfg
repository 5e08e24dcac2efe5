SPECIFICATION Spec
CONSTANTS
    w1 = w1
    w2 = w2
    p1 = p1
    Clients = {w1, p1}
    Waiters = {w1}
    JobErrors = {"Io"}
    Throws = TRUE
    MaxEvents = 2
CHECK_DEADLOCK FALSE
INVARIANTS
    TypeOK
    AnswersTruthful
PROPERTIES
    ProgressMonotone
    CallsReturn
