CONSTANTS
    Fds = {40}
    Fibers = {f1, f2, f3}
    Callbacks = {c1}
    Workers = {t1, t2, t3}
    Outside = outside
    Nobody = Nobody
    MaxRefused = 2
SPECIFICATION Spec
SYMMETRY Symmetry
INVARIANTS
    KernelMatchesTable
    PendingCounts
    NoWaiterLost
    NoGhost
    AddAborts
PROPERTIES
    ImplementsService
