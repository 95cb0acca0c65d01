SPECIFICATION Spec
CONSTANTS
    Instances = {"send_one", "send_crypto", "send_two", "send_share", "receive_one",
        "receive_two", "life_two", "life_limit", "ranges"}
    Unknown = Unknown
INVARIANTS
    RangesAreSets
    
    SendKeepsPromises
    ReceiveInOrder
    
    
PROPERTIES
    SettledStays
CHECK_DEADLOCK FALSE
