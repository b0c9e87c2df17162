CONSTANTS
    Timers = {a, b}
    Recurring = {b}
    Idlers = {i, j}
    Periods = {1, 2}
    MAX_TIMEOUT = 2
    Wrap = 16
    MaxTime = 2
    MaxCalls = 1
SPECIFICATION Spec
SYMMETRY Symmetry
INVARIANTS
    ManagedHasCb
    LostOnlyByAliasing
    UndefinedOnlyAfterExpiry
    FiresOnce
    SleepsUntilFront
    WakesUnlessAdvanced
