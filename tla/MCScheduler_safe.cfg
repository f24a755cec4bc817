SPECIFICATION Spec
CONSTANTS
    a = a
    b = b
    c = c
    h1 = h1
    h2 = h2
    Stream = {a, b, c}
    Host = {h1, h2}
    HostOf <- SharedHost
    Interval <- Intervals
    Configured <- Latenesses
    FetchSlots = 2
    HostSlots = 1
    MaxFetch = 4
    MaxStall = 5
    MaxStalls = 1
INVARIANTS
    TypeOK
    SlotsAreHeld
PROPERTIES
    SlotsInTime
