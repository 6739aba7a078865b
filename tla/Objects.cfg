SPECIFICATION Spec
CONSTANTS
    c1 = c1
    c2 = c2
    Clients = {u, v}
    Slots = {k1, k2}
    Cols = {c1, c2}
    ItemIds = {1, 2, 3, 4}
    ColOf <- HomeOf
    Stored = {1, 2, 3}
    Requests <- Few
    MaxSessions = 2
    MaxOpened = 3
    MaxSecret = 3
    Block = 2
    None = None
SYMMETRY Symmetry
CHECK_DEADLOCK FALSE
INVARIANTS
    BatchIsWhole
    
    SizeIsJudgedExactly

    
