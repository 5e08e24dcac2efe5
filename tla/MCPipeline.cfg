SPECIFICATION Spec
CONSTANTS
    c1 = c1
    c2 = c2
    i1 = i1
    i2 = i2
    NumFiles = 3
    BlockCount <- OneTwoOne
    MaxBlocks = 2
    GpuFiles = {2, 3}
    CpuWorkers = {c1, c2}
    IoWorkers = {i1, i2}
    SetupErrors = {"InvalidArgument"}
    ReadErrors = {"Io"}
    CompressErrors = {"CodecError"}
    WriteErrors = {"FormatError"}
INVARIANTS
    TypeOK
    ArchiveInOrder
    OkIsComplete
    TallyExact
    FailureIsFirst
    PendingIsOwned
PROPERTIES
    ProgressHonest
    CancelSticks
    ReadsEnd
    ImplementsPackJob
