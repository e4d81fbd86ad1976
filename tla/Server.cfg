\* Two threads, three clients with one session each, a stop and one fault.
CONSTANTS
    Workers = {w1, w2}
    Clients = {c1, c2, c3}
    MaxRequests = 1
    MaxFaults = 1
    None = None
SPECIFICATION FairSpec
INVARIANTS
    TypeOK
    OneReader
    AcksReachHandler
    StaysInRun
PROPERTIES
    RequestsAreServed
    StopEnds
\* The process ends.
CHECK_DEADLOCK FALSE
