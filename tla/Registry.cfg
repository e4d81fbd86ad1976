\* Two threads of the master register two storages, one at a time and beside
\* listings; both are started twice, with two crashes or broken sessions.
CONSTANTS
    h1 = h1
    h2 = h2
    h3 = h3
    Workers = {w1, w2}
    Hosts = {h1, h2}
    AvSpace <- MCAvSpace
    NoFile = NoFile
    EmptyFile = EmptyFile
    MaxBoots = 2
    MaxFaults = 2
SPECIFICATION OneRegistersSpec
INVARIANTS
    TypeOK
    ListingNeverThrows
    IdsAreRegistered
    IdResolvesToHolder
PROPERTIES
    AllocatesIds
    StartSettles
\* Servers that no request reaches are idle for ever.
CHECK_DEADLOCK FALSE
