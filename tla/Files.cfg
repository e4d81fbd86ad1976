\* Two threads of the master, two uploads of the same name, one of two parts, two
\* that are refused, a download during the uploads, one fault.
CONSTANTS
    u1 = u1
    u2 = u2
    u3 = u3
    u4 = u4
    None = None
    Workers = {w1, w2}
    Uploads = {u1, u2, u3, u4}
    Downloads = {d1}
    Base <- SameBase
    NbParts <- MCNbParts
    Rdcy <- MCRdcy
    NbStorages = 2
    MaxFaults = 1
SPECIFICATION OneCreatesSpec
INVARIANTS
    TypeOK
    AckIsRecorded
    AcksNeverThrow
    AnswersAreTrue
PROPERTIES
    LocationsKept
    KeepsCatalogue
    AcksSettle
\* All requests are served; a server without requests is idle.
CHECK_DEADLOCK FALSE
