\* A release build whose client shrinks a block that is not the last.
SPECIFICATION Spec
CONSTANTS
    CommitGranularity = 2
    AllocGranularity = 2
    AddressEnd = 18
    ReleaseMayFail = FALSE
    Blocks = {b1, b2}
    InitialSizes = {16}
    Sizes = {1, 5}
    Alignments = {1}
    MayShrink = TRUE
    Asserts = FALSE
    WordSize = 256
SYMMETRY BlockSymmetry
INVARIANTS
    NeverFaults
