SPECIFICATION MCSpec
CONSTANTS
    Phones = {a, b}
    NoPhone = NoPhone
    Ports = {1, 2, 3}
    MaxHeals = 1
    MaxFaults = 1
    MaxRequests = 1
    MaxRestarts = 1
CHECK_DEADLOCK FALSE
INVARIANTS TypeOK NoCrossTalk
PROPERTIES ScreensComeBack
