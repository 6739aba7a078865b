SPECIFICATION Spec
CONSTANTS
    k1 = k1
    k2 = k2
    p1 = p1
    p2 = p2
    c1 = c1
    c2 = c2
    Clients = {k1, k2}
    Prompts = {p1, p2}
    Colls = {c1}
    Callers <- TwoCallers
    Nobody = Nobody
    Control = Control
    Kinds = {"unlock"}
    Requests <- One
    Pins = {FALSE}
    MaxPrompts = 1
    MaxTries = 1
CHECK_DEADLOCK FALSE
INVARIANTS
    
    DialogHasOwner
