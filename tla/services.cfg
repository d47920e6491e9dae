\* One autostarted service through crashes, reboots, reused pids and shutdowns.
SPECIFICATION FairSpec
CONSTANTS
    bot = bot
    p1 = p1
    p2 = p2
    p3 = p3
    NoPid = NoPid
    Label = {bot}
    Autostart = {bot}
    Pid = {p1, p2, p3}
    MaxPeers = 1
    MaxFaults = 2
INVARIANTS
    OneInstance
    ShutdownStopsServices
    IdleWindowUnbroken
PROPERTIES
    CrashedServiceRestarts
    ShutdownCompletes
CHECK_DEADLOCK FALSE
