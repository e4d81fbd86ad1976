\* One thread and no client; nothing fails.
CONSTANTS
    Workers = {w1}
    Clients = {c1}
    MaxRequests = 1
    MaxFaults = 0
    None = None
SPECIFICATION Spec
INVARIANTS
    StopsThreadsIfAny
\* The process ends.
CHECK_DEADLOCK FALSE
