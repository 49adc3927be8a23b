CONSTANTS
    Devices = {d1, d2}
    Users = {u1}
    Nobody = Nobody
    MaxRuns = 1
    Par = 1
    IdleTimeout = 0
    MaxCrashes = 2

SPECIFICATION Spec
SYMMETRY Symmetry
INVARIANTS
    TypeOK
    EndedRunsAreSettled
    PassedRunsHaveNoFailure
    EndedRunsHoldNothing
CHECK_DEADLOCK FALSE
