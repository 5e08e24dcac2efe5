CONSTANTS
    Packs = {p1}
    Cancels = {c1}
    Destroys = TRUE
    NoPack = NoPack
SPECIFICATION Spec
CHECK_DEADLOCK FALSE
INVARIANT DestroyWaits
