CONSTANTS
    Devices = {d1, d2}
    Adopted = {d1, d2}
    Users = {u1}
    Nobody = Nobody
    Callers = {c1}
    Batches = {b1, b2}
    WrittenStatuses = {"free"}
    IdleTimeout = 1
    MaxLease = 2
    MaxTime = 3
    MaxRestarts = 1

SPECIFICATION Spec
PROPERTIES
    CapEnforced
CHECK_DEADLOCK FALSE
