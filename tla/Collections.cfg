SPECIFICATION Spec
CONSTANTS
    a = a
    b = b
    c = c
    n1 = n1
    n2 = n2
    d1 = d1
    d2 = d2
    w1 = w1
    w2 = w2
    Ids <- ThreeNames
    Creators = {n1, n2}
    Deleters = {d1, d2}
    Writers = {w1, w2}
    Attempts = 2
    MaxReloads = 2
    MaxVaults = 2
    Reload = Reload
    Offline = Offline
    Calls <- Compatible
    NoFile = NoFile
CHECK_DEADLOCK FALSE
INVARIANTS
    
    ListedHasFile
PROPERTIES
    DeletedStaysDeleted
