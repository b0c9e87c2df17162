CONSTANTS
    Fds = {40}
    Fibers = {f1, f2}
    Callbacks = {c1}
    Workers = {t1, t2}
    Outside = outside
    Nobody = Nobody
    MaxRefused = 0
SPECIFICATION Spec
SYMMETRY Symmetry
INVARIANTS
    TriggerPre
