\* Two threads that print twice, to a console or to a file.
SPECIFICATION FairSpec
CONSTANTS
    Threads = {t1, t2}
    Handles = {h1, h2}
    Null = Null
    Free = Free
    MayFail = {"create", "release"}
    Messages <- SmallMessages
    NoMessage = NoMessage
    BufLen = 4
    Devices = {"console", "file"}
    MaxPrints = 3
CHECK_DEADLOCK FALSE
INVARIANTS
    TypeOK
    OneMutexKept
    OneThreadPrints
PROPERTIES
    ImplementsTerminal
    WaitEnds
    SomePrintReturns
