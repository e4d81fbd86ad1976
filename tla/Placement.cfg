\* Two workers, four storages that register one after the other, three uploads or
\* listings.
CONSTANTS
    Workers = {w1, w2}
    MaxRequests = 3
    Catalogue <- FourStorages
    Joinable = {"a", "b"}
    Table <- TwoEntries
    Requests <- SomeRequests
    FloatBits = 24
    WordBits = 28
    HashChunk = 1000000
SPECIFICATION FairSpec
INVARIANTS
    TypeOK
    DefinedAlone
    PlacedWhole
    Balanced
    KnowsListed
PROPERTIES
    UploadPlaced
\* Every request is answered and every storage registered.
CHECK_DEADLOCK FALSE
