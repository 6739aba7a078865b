SPECIFICATION FairSpec
CONSTANTS
    k1 = k1
    k2 = k2
    p1 = p1
    p2 = p2
    c1 = c1
    c2 = c2
    Clients = {k1}
    Prompts = {p1}
    Colls = {c1, c2}
    Callers <- OneCaller
    Nobody = Nobody
    Control = Control
    Kinds = {"unlock", "modify"}
    Requests <- Both
    Pins = {TRUE, FALSE}
    MaxPrompts = 1
    MaxTries = 2
CHECK_DEADLOCK FALSE
INVARIANTS
    CompletedOnce
PROPERTIES
    DismissStops
    PromptIsAnswered
