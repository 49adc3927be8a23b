CONSTANTS
    Devices = {d1, d2}
    Adopted = {d1, d2}
    Users = {u1, u2}
    Nobody = Nobody
    Callers = {c1, c2}
    Batches = {b1, b2}
    WrittenStatuses = {"free"}
    IdleTimeout = 0
    MaxLease = 1
    MaxTime = 1
    MaxRestarts = 1

SPECIFICATION Spec
SYMMETRY Symmetry
INVARIANTS
    TypeOK
    OneLeasePerDevice
PROPERTIES
    AllOrNothing
    NoForeignRelease
    ImplementsLease
CHECK_DEADLOCK FALSE
