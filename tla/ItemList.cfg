SPECIFICATION Spec
CONSTANTS
    Ids = {i1, i2, i3, i4}
    Attrs = {x, y}
    Bodies = {b, c}
    TooLarge = TooLarge
    MaxLen = 4
    MaxBatch = 2
SYMMETRY Symmetry
INVARIANTS
    DeltaUndoes
