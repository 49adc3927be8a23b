CONSTANTS
    JobKinds = {"install", "test"}
    FlapLimit = 3
    FlapWindow = 3
    Grace = 2
    MaxRestarts = 1

SPECIFICATION Spec
INVARIANTS
    TypeOK
PROPERTIES
    HeldComesBack
    DegradedRecovers
    AbsenceShows
CHECK_DEADLOCK FALSE
