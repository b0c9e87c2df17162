CONSTANTS
    Fds = {64}
    Fibers = {f1, f2}
    Nobody = nobody
    MaxSockets = 2
    MaxOut = 1
    MaxRefused = 0
SPECIFICATION Spec
SYMMETRY Symmetry
INVARIANTS
    CancelDefined
CHECK_DEADLOCK FALSE
