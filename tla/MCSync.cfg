CONSTANTS
    Consumers = {c1, c2, c3}
    Others = {c1, c2}
    Producers = {p1}
    Owners = {o1}
    Broadcasters = {}
    Mutex1 = m1
    NoMutex = NoMutex
    MaxFaults = 2
    RawMax = 3
    Nobody = Nobody
SPECIFICATION FairSpec
 
INVARIANT CvNoLostSignal
INVARIANT LocksExact
PROPERTY CvShutdown
PROPERTY NobodyStuck
CHECK_DEADLOCK FALSE
