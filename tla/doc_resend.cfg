\* .agents/spec/001_chat_harness/plan.md:498: a message typed while disconnected is
\* delivered exactly once when the connection returns.
SPECIFICATION FairSpec
CONSTANTS
    m1 = m1
    m2 = m2
    s1 = s1
    s2 = s2
    NoSocket = NoSocket
    Message = {m1, m2}
    Session = {s1, s2}
    SessionOf <- MCTwoSessions
    Socket = {k1, k2}
    Ending = {}
    MaxFaults = 1
PROPERTY EveryMessageDelivered
CHECK_DEADLOCK FALSE
