\* Two threads, three objects and room for two of them, in a debug and in a
\* traced release build, with a mutex whose operations may fail.
SPECIFICATION Spec
CONSTANTS
    Threads = {t1, t2}
    Handles = {h1, h2}
    Null = Null
    Free = Free
    MayFail = {"create", "close", "wait", "release"}
    Objects = {o1, o2, o3}
    Data = {d1, d2}
    NoObject = NoObject
    NoDatum = NoDatum
    Capacity = 2
SYMMETRY TracerSymmetry
\* The program may stop.
CHECK_DEADLOCK FALSE
INVARIANTS
    TypeOK
    EntriesApart
PROPERTIES
    ImplementsTable
