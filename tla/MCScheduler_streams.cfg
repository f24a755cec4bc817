SPECIFICATION LiveSpec
CONSTANTS
    a = a
    b = b
    c = c
    h1 = h1
    h2 = h2
    Stream = {a, b, c}
    Host = {h1, h2}
    HostOf <- SharedHost
    Interval <- Intervals
    Configured <- Latenesses
    FetchSlots = 2
    HostSlots = 1
    MaxFetch = 2
    MaxStall = 3
    MaxStalls = 1
INVARIANTS
    SlotsAreHeld
PROPERTIES
    SlotsInTime
    FetchingGoesOn
    ShutdownEnds
