CONSTANTS
    Objects = {s1, s2}
    Fibers = {f1, f2}
    Numbers = {n3, n4}
    Addresses = {a1}
    Foreign = {foreign}
    Unknown = unknown
    None = none
    MaxSockets = 2
SPECIFICATION Spec
SYMMETRY Symmetry
CONSTRAINTS TornIsSmall FamiliesApart
INVARIANTS
    OpenIsOwned
    ConnectedHonest
    ClosesItsOwn
    LocalIsCurrent
CHECK_DEADLOCK FALSE
