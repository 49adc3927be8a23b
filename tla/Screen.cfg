CONSTANTS
    Viewers = {v1, v2}
    MaxStreams = 2
    MaxFired = 1

SPECIFICATION Spec
INVARIANTS
    TypeOK
    NoLostReader
    StoppedStreamsWake
PROPERTIES
    GoneViewersReturn
    UnwatchedStreamsStop
CHECK_DEADLOCK FALSE
