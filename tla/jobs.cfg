\* Two jobs under the timer, the job CLI and one crash.
SPECIFICATION FairSpec
CONSTANTS
    j1 = j1
    j2 = j2
    i1 = i1
    i2 = i2
    t1 = t1
    t2 = t2
    now1 = now1
    cli1 = cli1
    c1 = c1
    w1 = w1
    w2 = w2
    Lane = {w1, w2}
    SCHEDULER = SCHEDULER
    NoJob = NoJob
    NoTick = NoTick
    Session <- MCSession
    Key <- MCKey
    Job = {j1, j2}
    Item = {}
    Notify = {}
    Tick = {t1, t2}
    RunNow = {}
    Cli = {}
    Chat = {}
    MaxPerSession = 2
    MaxDaemonWide = 2
    MaxPerMinute = 1
    Interval = 1
    Chunk = 1
    FeedLimit = 1
    MaxOutside = 0
INVARIANTS
    TickOutlivesOnlyByRejection
PROPERTIES
    EnabledJobKeepsRunning
CHECK_DEADLOCK FALSE
