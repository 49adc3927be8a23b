SPECIFICATION Spec
CONSTANTS
    Devices = {d1}
    Users = {anna, boris}
    Callers = {c1}
    Sweeper = sweeper
    Nobody = nobody
    Ports = {5001, 5002}
    MaxCrashes = 1
INVARIANT TypeOK
PROPERTIES
    PortsAreForLife
    FollowsLeases
