SPECIFICATION Spec
CONSTANTS
    a = a
    b = b
    d = d
    e = e
    c1 = c1
    Writers = {w1, w2}
    Names = {a, b, d, e}
    Ids = {c1}
    Free = Free
    Corrupt = Corrupt
    NoScan = NoScan
    Ops <- AllOps
    Start <- MCStart
    MaxAliases = 2
    Attempts = 3
    Inits = TRUE
    Default = d
    NewId = c1
    WriteFaults = TRUE
    Damages = TRUE
    MaxReloads = 1
SYMMETRY Symmetry
CHECK_DEADLOCK FALSE
INVARIANTS
    AliasIsExported
PROPERTIES
    EditAppliesToCurrent
    DegradedTableIsKept
