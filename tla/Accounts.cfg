SPECIFICATION Spec
CONSTANTS
    Requests = {r1, r2}
    Sessions = {s1, s2}
    Links = {l1}
    None = None
    Idle = 1
    TTL = 2
    MaxFails = 2
SYMMETRY Symmetry
INVARIANTS TypeOK ChangesEndSessions LockHolds
PROPERTIES SessionsEnd
