SPECIFICATION FairSpec
CONSTANTS
    l1 = l1
    Hooks = {l1}
    Calls = {l1}
    User = 1000
    ValidIds = {1, 2, 3}
    DefaultId = 1
    MinM = 19
    MinT = 2
    MaxM = 64
    MaxT = 4
    MaxP = 2
    Directories <- MCDirectories
    Arguments <- MCArguments
    Database <- MCDatabase
    Callers = {0, 1000}
    HookKinds = {"session", "password"}
    HookBudget = 8
    CallBudget = 3
    StartTimeout = 5
    ReapTimeout = 2
    DeriveTime = 1
CHECK_DEADLOCK FALSE
INVARIANTS
    StashGone
    EveryVaultTried
    SentIsDelivered
    
PROPERTIES
    HookReturns
