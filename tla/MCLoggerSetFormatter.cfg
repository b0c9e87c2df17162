SPECIFICATION Spec
CONSTANTS
    t1 = t1
    t2 = t2
    root = root
    lib = lib
    out0 = out0
    out1 = out1
    file = file
    own1 = own1
    Threads = {t1, t2}
    Names = {root, lib}
    Root = root
    Appenders = {out0, out1, file}
    FirstAppender <- MCFirstAppender
    FileAppenders = {file}
    Formatters = {own1}
    Default = Default
    NoFormatter = NoFormatter
    Nobody = Nobody
    Levels = {1, 2}
    DebugLevel = 1
    InfoLevel = 2
    MaxCalls = 5
    MaxListed = 2
SYMMETRY Symmetry
INVARIANT
    SetFormatterReturns
CHECK_DEADLOCK FALSE
