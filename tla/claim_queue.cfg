\* Both queues of one session, an undecryptable row, a rival for the shared inbox, every prune.
SPECIFICATION Spec
CONSTANTS
    u1 = u1
    u2 = u2
    r1 = r1
    r2 = r2
    a1 = a1
    a2 = a2
    s1 = s1
    s2 = s2
    s3 = s3
    alpha = alpha
    beta = beta
    UserMsg = {u1, u2}
    ReplyMsg = {r1}
    AgentMsg = {a1}
    Session = {s1, s2, s3}
    Identity = {alpha, beta}
    SessionOf <- MCSessionOfMixed
    Recipient <- MCRecipient
    AgentIdentity <- MCAgentIdentity
    Corrupt = {u1}
    RowLimit = 1
    MaxCalls = 2
INVARIANTS
    ExclusiveLease
    DeliveredByHolder
    NoOvertaking
    NoSilentLoss
PROPERTIES
    ImplementsAtLeastOnce
CHECK_DEADLOCK FALSE
