SPECIFICATION Spec
CONSTANTS
    a = a
    b = b
    a1 = a1
    a2 = a2
    a3 = a3
    b1 = b1
    b2 = b2
    p1 = p1
    p2 = p2
    NoContainer = NoContainer
    Earlier = Earlier
    NoTask = NoTask
    NoPort = NoPort
    WindowOf <- Home
    Window <- TwoWindows
    Task <- TwoCallsEach
    Port = {p1, p2}
    MaxStarts = 1
    MaxDaemonStops = 0
SYMMETRY CallsOfBoth
INVARIANTS OwnedIsMine
CHECK_DEADLOCK FALSE
