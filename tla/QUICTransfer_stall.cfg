SPECIFICATION FairSpec
CONSTANTS
    Streams = {s1}
    Unknown = Unknown
    StreamWindow = 2
    DataWindow = 2
    MaxWritten = 3
    MaxFrame = 2
    MaxFlight = 1
    MaxLate = 1
    MaxGrants = 1
PROPERTIES
    TransferredAlways
CHECK_DEADLOCK FALSE
