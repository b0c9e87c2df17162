CONSTANTS
    Fds = {64}
    Fibers = {f1, f2}
    Nobody = nobody
    MaxSockets = 2
    MaxOut = 1
    MaxRefused = 1
SPECIFICATION Spec
SYMMETRY Symmetry
CONSTRAINT OneOrTheOther
INVARIANTS
    ContextIsCurrent
    WaitersMatchEpoll
    ConnectHonest
    TimeoutsAreOwn
    AbortsOnlyByOrphan
    TimedWaitsGuarded
CHECK_DEADLOCK FALSE
