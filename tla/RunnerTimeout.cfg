CONSTANTS
    Devices = {d1}
    Users = {u1}
    Nobody = Nobody
    MaxRuns = 1
    Par = 2
    IdleTimeout = 1
    MaxCrashes = 0

SPECIFICATION Spec

INVARIANTS
    PassedRunsRanEverywhere
CHECK_DEADLOCK FALSE
