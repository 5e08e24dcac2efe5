SPECIFICATION Spec
CONSTANTS
    c1 = c1
    c2 = c2
    i1 = i1
    i2 = i2
    NumFiles = 2
    BlockCount <- TwoAndOne
    MaxBlocks = 2
    GpuFiles = {2}
    CpuWorkers = {c1, c2}
    IoWorkers = {i1, i2}
    SetupErrors = {"InvalidArgument"}
    ReadErrors = {"Io"}
    CompressErrors = {"CodecError"}
    WriteErrors = {"FormatError"}
INVARIANT NoDanglingFrame
