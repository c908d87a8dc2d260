SPECIFICATION ArenaSpec
CONSTANTS
    Requests <- NodeRequests
    Unit = 2
    Header = 6
    FirstPage = 16
    IntMax = 127
    Memory = 150
INVARIANT
    AlwaysANewSlab
