\* An allocator that grew past its reservation.
SPECIFICATION TracedSpec
CONSTANTS
    CommitGranularity = 1
    AllocGranularity = 1
    AddressEnd = 7
    ReleaseMayFail = FALSE
    Blocks = {b1, b2, b3}
    InitialSizes = {1}
    Sizes = {0, 1, 2}
    Alignments = {1}
    MayShrink = TRUE
    Asserts = TRUE
    WordSize = 256
    AllocMem = AllocMem
    Locals = {l1, l2}
    VmemCapacity = 2
    PtrCapacity = 2
SYMMETRY TracedSymmetry
\* The program may stop.
CHECK_DEADLOCK FALSE
INVARIANTS
    RegionIsTraced
