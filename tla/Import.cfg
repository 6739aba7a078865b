SPECIFICATION Spec
CONSTANTS
    MAX_MAP_ENTRIES = 2
    MAX_ITEM_SECRET = 12
    MAX_LABEL = 2
    MAX_ATTRIBUTES = 3
    MAX_VALUE = 3
    MAX_SECRET_BYTES = 18
    MAX_ENTRIES = 3
    MAX_ITEMS_PER_COLLECTION = 3
    Sources <- MCSources
CHECK_DEADLOCK FALSE
INVARIANTS
    HeaderIsExact
    
    ItemIsEntry
    AdviceIsEarned
    

    
