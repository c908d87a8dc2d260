SPECIFICATION LibrarySpec
CONSTANTS
    States = {s1, s2, s3}
    Garbage = garbage
    BufferSize = 4
    OverflowCap = 3
    Strings <- MCStrings
    Hash <- MCHash
    Meanings = {m1}
    NoMeaning = null
    InitialBuckets = 1
    MaxLoad = 1
    Requests <- MCRequests
    Unit = 2
    Header = 6
    FirstPage = 16
    IntMax = 127
    Memory = 150
INVARIANTS
    TypeOK
    OverflowBehindFullBuffer
    TableTypeOK
    NodesInTheirBuckets
    LoadBounded
    ArenaTypeOK
    BlocksInsideSlabs
    PageSizePaidFor
PROPERTIES
    ImplementsFifoQueue
    ImplementsInternedNames
    GrowsOnlyForMore
    ImplementsDistinctBlocks
