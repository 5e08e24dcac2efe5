CONSTANTS
    CommandLines <- MCCommandLines
    Sizes <- MCSizes
    Paths <- MCPaths
    Tree <- MCTree
    Machines <- MCMachines
    DefaultThreshold = 6
    DefaultBlock = 16
    Hardware = 0
    W64 = 256
    W32 = 16
    ReaderBlock = 8
    Up = 0
    BadSize = 255
    MaxFaults = 2
SPECIFICATION Spec
INVARIANTS
    TypeOK
    ListingExact
    GpuAsAsked
    JobAsAsked
    OutputKept
