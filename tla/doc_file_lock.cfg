\* file-lock.ts:102: "so only one process runs it at a time".
SPECIFICATION Spec
CONSTANTS
    Process = {p1, p2, p3, p4}
    NoFile = NoFile
    MaxTries = 1
    MaxDeaths = 1
SYMMETRY MCSymmetry
INVARIANT OneAtATime
CHECK_DEADLOCK FALSE
