SPECIFICATION Spec
CONSTANTS
    Base = 2
    Stream = {1, 2}
    Interval <- Daily
    Phases <- TwoPhases
    DaySeconds = 2
    LastDay = 0
    Horizon = 15
    Zones = {0, 1}
    URLs = {1}
    MaxEdits = 1
    CloseDelay = 1
    RawRetention = 1
    MetadataRetention = 2
INVARIANTS
    EveryTickCountedOnce
