\* Two threads create two files with different names; nothing fails.
CONSTANTS
    u1 = u1
    u2 = u2
    u3 = u3
    u4 = u4
    None = None
    Workers = {w1, w2}
    Uploads = {u1, u2}
    Downloads = {}
    Base <- OwnBase
    NbParts <- MCNbParts
    Rdcy <- OneCopy
    NbStorages = 1
    MaxFaults = 0
SPECIFICATION Spec
INVARIANTS
    UniqueFids
\* All requests are served; a server without requests is idle.
CHECK_DEADLOCK FALSE
