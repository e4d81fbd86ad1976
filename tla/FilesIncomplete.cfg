\* One thread, one upload of two parts and a download during it; nothing fails.
CONSTANTS
    u1 = u1
    u2 = u2
    u3 = u3
    u4 = u4
    None = None
    Workers = {w1}
    Uploads = {u1}
    Downloads = {d1}
    Base <- OwnBase
    NbParts <- MCNbParts
    Rdcy <- OneCopy
    NbStorages = 2
    MaxFaults = 0
SPECIFICATION Spec
INVARIANTS
    AnswersAreWhole
\* All requests are served; a server without requests is idle.
CHECK_DEADLOCK FALSE
