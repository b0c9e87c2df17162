SPECIFICATION Spec
CONSTANTS
    Letters = {"m", "d", "x"}
    Others = {"."}
    BufSize = 2
    MaxLen = 7
INVARIANTS
    RendersAsWritten
    RefusedExactly
CHECK_DEADLOCK FALSE
