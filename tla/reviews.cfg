\* Two chats, an issue and a repository, a stop, a crash and a day.
SPECIFICATION FairSpec
CONSTANTS
    c1 = c1
    c2 = c2
    m1 = m1
    m2 = m2
    p1 = p1
    Chat = {c1, c2}
    Message = {m1, m2}
    Fix = {f1}
    Deps = {d1}
    Pr = {p1}
    NoPr = NoPr
    PrOf <- MCPrOf
    Stream <- MCStream
    Nobody = Nobody
    Workers = 2
    MaxQueued = 2
    MaxRuns = 2
    MaxAsks = 1
    MaxDays = 1
    MaxStops = 1
    MaxCrashes = 1
INVARIANTS
    OneJobPerKey
    NoRequestForgotten
PROPERTIES
    AnsweredOnce
    EveryJobSettles
CHECK_DEADLOCK FALSE
