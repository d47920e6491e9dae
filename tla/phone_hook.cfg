\* Two rows, one an image and one for an agent, a cap of two attempts, crashes.
SPECIFICATION FairSpec
CONSTANTS
    Message = {1, 2}
    Image = {2}
    Private = {1}
    Cap = 2
    NoMessage = 0
    MaxCrashes = 2
INVARIANTS
    NoLostWakeup
    BackoffHonoured
    NeverTwice
PROPERTIES
    EveryRowHandled
    StuckRowRetried
CHECK_DEADLOCK FALSE
