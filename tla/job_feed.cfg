\* One job with two items run by the timer, the dashboard and a CLI process.
SPECIFICATION Spec
CONSTANTS
    j1 = j1
    j2 = j2
    i1 = i1
    i2 = i2
    t1 = t1
    t2 = t2
    now1 = now1
    cli1 = cli1
    c1 = c1
    w1 = w1
    w2 = w2
    Lane = {w1, w2}
    SCHEDULER = SCHEDULER
    NoJob = NoJob
    NoTick = NoTick
    Session <- MCSession
    Key <- MCKey
    Job = {j1}
    Item = {i1, i2}
    Notify = {j1}
    Tick = {t1}
    RunNow = {now1}
    Cli = {cli1}
    Chat = {c1}
    MaxPerSession = 2
    MaxDaemonWide = 2
    MaxPerMinute = 1
    Interval = 1
    Chunk = 1
    FeedLimit = 1
    MaxOutside = 2
INVARIANTS
    AdmissionExact
    AnnouncedExactlyOnce
CHECK_DEADLOCK FALSE
SYMMETRY FeedSymmetry
