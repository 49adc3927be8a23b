CONSTANTS
    Devices = {d1}
    Users = {u1}
    Nobody = Nobody
    MaxRuns = 2
    Par = 1
    IdleTimeout = 0
    MaxCrashes = 2

SPECIFICATION Spec
INVARIANTS
    NoLostWakeup
PROPERTIES
    ResultsAreFinal
    SubmittedRunsEnd
    FollowsQueue
CHECK_DEADLOCK FALSE
