\* Sizes of 4 bits, elements of two bytes: a block of 16 bytes does not exist.
SPECIFICATION Spec
CONSTANTS
    SizeMax = 15
    Powers = {1, 2, 4, 8}
    ElementSize = 2
    Values = {a, b}
    Junk = Junk
    Lengths = {0, 1, 2, 3, 4, 5, 7, 8, 15}
    Asserts = TRUE
\* A failing assertion ends the program.
CHECK_DEADLOCK FALSE
INVARIANTS
    TypeOK
    BlockHoldsCapacity
PROPERTIES
    PushNeverAborts
    ImplementsStack
