SPECIFICATION FairSpec
CONSTANTS
    r1 = r1
    r2 = r2
    r3 = r3
    NoOne = NoOne
    Requests = {r1, r2, r3}
    Background = {b1}
    Kinds <- MCKinds
    Hold = 5
    QueueFactor = 3
    MaxTries = 2
    MaxConcurrent = 2
    DeriveTime = 1
CHECK_DEADLOCK FALSE
INVARIANTS
    FirstInLineIsServed
    DerivationsBounded
PROPERTIES
    EveryRequestEnds
