SPECIFICATION Spec
CONSTANTS
    Users = {anna, boris}
    Nobody = nobody
    Callers = {c1}
    Throttle = 1
    IdleTimeout = 2
    MaxRuns = 1
INVARIANTS
    TypeOK
    KeptAlive
PROPERTY
    CleanPass
SYMMETRY UserSymmetry
