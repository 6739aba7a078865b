CONSTANTS
    Ids = {i1, i2, i3}
    Pairs = {p1}
    Bodies = {b1}
    Labels = {l1, l2}
    Passwords = {pw1}
    Salts = {s1, s2, s3}
    IndexSalts = {x1, x2}
    Nonces = {n1, n2}
    SizeLimit = 2
    NoItem = NoItem
    NoKey = NoKey
    NoFile = NoFile
    NoHeader = NoHeader
SYMMETRY Symmetry
SPECIFICATION Spec
INVARIANTS
    FileAlwaysOpens
    
    
    SearchAgrees

    
