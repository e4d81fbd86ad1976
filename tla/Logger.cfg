\* The main thread and three others, which log up to two messages each.
CONSTANTS
    m = m
    w1 = w1
    w2 = w2
    w3 = w3
    Senders = {m, w1, w2, w3}
    Main = m
    HashOf <- MCHashOf
    HashSize = 2
    None = None
    Workloads <- MCWorkloads
SPECIFICATION FairSpec
INVARIANTS
    TypeOK
    TablesHaveRoom
    LossBounded
PROPERTIES
    PrintsInOrder
    Settles
\* The process ends.
CHECK_DEADLOCK FALSE
