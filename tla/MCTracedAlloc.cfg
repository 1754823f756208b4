\* One more block than the allocator has entries for, in a debug build; every
\* reservation, commit and release may fail.
SPECIFICATION TracedSpec
CONSTANTS
    CommitGranularity = 1
    AllocGranularity = 1
    AddressEnd = 7
    ReleaseMayFail = TRUE
    Blocks = {b1, b2, b3}
    InitialSizes = {1}
    Sizes = {0, 1, 2}
    Alignments = {1}
    MayShrink = TRUE
    Asserts = TRUE
    WordSize = 256
    AllocMem = AllocMem
    Locals = {l1, l2}
    VmemCapacity = 2
    PtrCapacity = 2
SYMMETRY TracedSymmetry
\* The program may stop.
CHECK_DEADLOCK FALSE
INVARIANTS
    TraceFollowsClients
