SPECIFICATION FairSpec
CONSTANTS
    Threads = {t1, t2}
    MaxJobs = 4
    Capacity = 1
    Budget = 2
INVARIANTS
    RingIsQueue
    SleepsOnlyIdle
PROPERTIES
    IsJobQueue
    
CHECK_DEADLOCK FALSE
