CONSTANTS
    Packs = {p1, p2}
    Cancels = {c1}
    Destroys = TRUE
    NoPack = NoPack
    Hosts = {"any", "gui"}
    GpuAvailable = TRUE
    MaxEvents = 2
SPECIFICATION GuiSpec
CHECK_DEADLOCK FALSE
INVARIANTS
    GuiTypeOK
    PackBlocks
    ReportsOwn
    CancelsMeant
    ToggleObeyed
    ResultStands
PROPERTIES
    CancelReachesWaiting
    AllReturn
