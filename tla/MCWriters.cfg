CONSTANTS
    Formats = {"zip", "gzip", "zstd"}
    MaxFiles = 3
    U32_MAX = 200
    U16_MAX = 3
    BlockSizes = {0, 1, 2, 3, 5, 10, 12, 16, 20, 250}
    DefaultBlock = 4
    W32 = 16
    W64 = 256
    CrcBase = 31
    CrcMod = 97
    Totals = {0, 1, 2, 3, 4, 5, 6, 9, 12, 16, 17, 20, 33}
    Files <- MCFiles
SPECIFICATION Spec
INVARIANTS
    TypeOK
    DirectoryFound
    UniformRecovered
    EntriesComplete
    PayloadIsFile
    OneMember
    OneBlockReadBack
