SPECIFICATION Spec
CONSTANTS
    c1 = c1
    c2 = c2
    Collections <- MCCollections
    Scenarios <- MCScenarios
    Ring <- MCRing
    Filter <- MCFilter
    MaxTasks = 2
CHECK_DEADLOCK FALSE
INVARIANTS
    
    ConsentFirst
    AgentGetsItsOwn
