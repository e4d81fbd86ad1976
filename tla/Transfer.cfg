\* One file of 7 bytes in three parts on two storages, uploaded and downloaded
\* again, with one fault.
CONSTANTS
    s1 = s1
    s2 = s2
    Storages = {s1, s2}
    Fields <- ThreeParts
    Size = 7
    FloatBits = 24
    WordBits = 28
    HashChunk = 1000000
    None = None
    MaxFaults = 1
SPECIFICATION FairSpec
INVARIANTS
    TypeOK
    ToldIsStored
    UploadReport
    BytesAreRight
    DownloadReport
PROPERTIES
    TransfersReturn
\* The client is done.
CHECK_DEADLOCK FALSE
