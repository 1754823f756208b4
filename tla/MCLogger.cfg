\* Two threads, every handle of a small pool, failing prints and mutexes.
\* A mutex that cannot be unlocked does not stop the threads: locking may fail.
SPECIFICATION FairSpec
CONSTANTS
    Threads = {t1, t2}
    PoolSize = 2
    MaxId = 2
    Levels = {1, 2}
    NoRequest = NoRequest
    Free = Free
    MayFail = TRUE
INVARIANTS
    TypeOK
    MessageSeesOnePool
PROPERTIES
    StaleForever
    ImplementsRegistry
    HolderReleases
