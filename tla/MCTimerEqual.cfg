CONSTANTS
    Timers = {a, b}
    Recurring = {b}
    Idlers = {i}
    Periods = {1, 2}
    MAX_TIMEOUT = 3
    Wrap = 16
    MaxTime = 3
    MaxCalls = 1
SPECIFICATION Spec
INVARIANTS
    Managed
