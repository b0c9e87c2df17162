CONSTANTS
    Workers = {w1, w2}
    Jobs = {j1, j2}
    Sleepers = {j1, j2}
    Readers = {j2}
    Owner = owner
    Signalled = {w2}
SPECIFICATION Spec
INVARIANTS
    OncePerJob
    PendingCovers
    StopLeavesNothing
PROPERTIES
    EveryJobGoesOn
    StopReturns
    ImplementsPool
