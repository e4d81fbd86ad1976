\* 7 bytes in three parts, nothing fails.
CONSTANTS
    s1 = s1
    s2 = s2
    Storages = {s1, s2}
    Fields <- ThreeParts
    Size = 7
    FloatBits = 24
    WordBits = 28
    HashChunk = 1000000
    None = None
    MaxFaults = 0
SPECIFICATION Spec
INVARIANTS
    DownloadIsWhole
\* The client is done.
CHECK_DEADLOCK FALSE
