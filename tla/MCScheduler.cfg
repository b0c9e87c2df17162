CONSTANTS
    Threads = {t1, t2}
    Fibers = {f1, f2}
    Client = client
    NoThread = NoThread
    NoFiber = NoFiber
SPECIFICATION FairSpec
INVARIANTS
    OneThreadPerFiber
    NoFiberLost
    StopDrains
PROPERTIES
    EveryFiberIsTaken
    StopReturns
    ImplementsPool
