\* Clients that grow and shrink their blocks, in a release build, on a system
\* whose pages are smaller than its reservation unit (Windows); every
\* reservation and commit may fail.  A copy may leave the committed memory,
\* which ends the program.
SPECIFICATION Spec
CONSTANTS
    CommitGranularity = 2
    AllocGranularity = 4
    AddressEnd = 24
    ReleaseMayFail = FALSE
    Blocks = {b1, b2}
    InitialSizes = {3}
    Sizes = {0, 1, 5}
    Alignments = {1, 4}
    MayShrink = TRUE
    Asserts = FALSE
    WordSize = 256
SYMMETRY BlockSymmetry
CHECK_DEADLOCK FALSE
INVARIANTS
    TypeOK
    SizesNested
    VmemRequestsValid
    OwnsItsRegions
    BlocksDisjoint
    DataIntact
    PointersAligned
PROPERTIES
    ImplementsArena
