\* Two receivers of one session: a human row that does not decrypt, and an inbox
\* row behind it.
SPECIFICATION RecvFairSpec
CONSTANTS
    u1 = u1
    a1 = a1
    s1 = s1
    s2 = s2
    alpha = alpha
    beta = beta
    c1 = c1
    c2 = c2
    UserMsg = {u1}
    ReplyMsg = {}
    AgentMsg = {a1}
    Session = {s1, s2}
    Identity = {alpha, beta}
    SessionOf <- MCSessionOf
    Recipient <- MCRecipient
    AgentIdentity <- MCAgentIdentity
    Corrupt = {u1}
    RowLimit = 1
    MaxCalls = 8
    Client = {c1, c2}
    ClientSession <- MCClientSession
    MaxFailures = 1
    MaxSlow = 1
INVARIANTS
    NoMissedWakeup
    DeliveredWasPrinted
    NoClaimOrphaned
PROPERTIES
    EventuallyDelivered
CHECK_DEADLOCK FALSE
