SPECIFICATION FairSpec
CONSTANTS
    m1 = m1
    m2 = m2
    s1 = s1
    s2 = s2
    NoSocket = NoSocket
    Message = {m1, m2}
    Session = {s1, s2}
    SessionOf <- MCOneSession
    Socket = {k1, k2}
    Ending = {s1, s2}
    MaxFaults = 2
INVARIANTS
    NothingLost
    StoredInOrder
PROPERTY DeliveredUnlessStuck
CHECK_DEADLOCK FALSE
