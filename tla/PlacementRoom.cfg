\* One worker.
CONSTANTS
    Workers = {w1}
    MaxRequests = 1
    Catalogue <- FourStorages
    Joinable = {"a", "b"}
    Table <- TwoEntries
    Requests <- SomeRequests
    FloatBits = 24
    WordBits = 28
    HashChunk = 1000000
SPECIFICATION Spec
INVARIANTS
    RoomWhereSent
\* Every request is answered and every storage registered.
CHECK_DEADLOCK FALSE
