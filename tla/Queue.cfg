\* Two threads that enqueue and two that dequeue, one fault, small blocks.
CONSTANTS
    p1 = p1
    p2 = p2
    c1 = c1
    c2 = c2
    b1 = b1
    None = None
    Threads = {p1, p2, c1, c2}
    Producers = {p1, p2}
    Consumers = {c1, c2}
    Blocks = {b1, b2, b3, b4}
    BLOCK_SIZE = 2
    IndexSize = 2
    InitialBlocks <- MCPool
    Workloads <- MCWorkloads
    MaxVain = 1
    MaxFaults = 1
SPECIFICATION Spec
SYMMETRY ConsumerSymmetry
INVARIANTS
    TypeOK
    AssertsHold
    NothingStranded
PROPERTIES
    ImplementsStreams
\* The threads stop when their workload is done.
CHECK_DEADLOCK FALSE
