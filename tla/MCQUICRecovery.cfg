SPECIFICATION Spec
CONSTANTS
    Instances = {"loss_order", "loss_time", "loss_delays", "acks_ranges", "acks_limit",
        "handshake_close"}
INVARIANTS
    LossSettledOnce
    AckTellsReceived
    
PROPERTIES
    DropsForReason
CHECK_DEADLOCK FALSE
