SPECIFICATION FairSpec
CONSTANTS
    HandshakePieces = 1
    MaxAllowance = 3
    MaxFlight = 2
    MaxVanished = 1
    Patient = TRUE
    ClosesWhen = {"connected"}
INVARIANT NothingStranded
PROPERTY HandshakeCompletes
CHECK_DEADLOCK FALSE
