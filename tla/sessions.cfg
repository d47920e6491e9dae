\* Two sessions, one crash and one graceful stop, upgrades that fail.
SPECIFICATION FairSpec
CONSTANTS
    Session = {s1, s2}
    Unset = Unset
    SessionTtl = 2
    AgentGone = 1
    UnclaimedTtl = 1
    Grace = 2
    ClosedRetention = 1
    ArchiveTtl = 2
    ArchiveMaxRows = 1
    UpgradeMayFail = TRUE
    MaxSockets = 2
    MaxStops = 1
    MaxCrashes = 1
INVARIANTS
    CrashLosesNothing
    ArchiveMatchesRows
PROPERTIES
    AttendedNeverReaped
    NoResurrection
    QuietClockExact
    AbandonedSessionExpires
CHECK_DEADLOCK FALSE
