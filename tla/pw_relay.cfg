\* An upload through one browser whose socket is replaced.
SPECIFICATION FairSpec
CONSTANTS
    file = file
    k1 = k1
    k2 = k2
    NoSocket = NoSocket
    Req = {file}
    Upload = {file}
    Socket = {k1, k2}
    MaxPending = 1
    MaxFaults = 2
INVARIANTS
    PendingIsOwed
    StagedCopyAccounted
PROPERTIES
    WithdrawnIsAborted
    EveryRequestAnswered
CHECK_DEADLOCK FALSE
