\* Both systems, with and without tracing, and a file that changes twice.
SPECIFICATION Spec
CONSTANTS
    Systems = {"unix", "windows"}
    Bytes = {x, y}
    MaxLen = 4
    MaxChanges = 2
    DwordSize = 4
    FirstReserve = 2
    NoBuf = NoBuf
\* The program ends.
CHECK_DEADLOCK FALSE
INVARIANTS
    SuccessMeansRead
    NothingLeftBehind
PROPERTIES
    RunEnds
