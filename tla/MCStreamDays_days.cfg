SPECIFICATION LiveSpec
CONSTANTS
    Base = 2
    Stream = {1}
    Interval <- TwiceDaily
    Phases <- ZeroOrHalf
    DaySeconds = 2
    LastDay = 0
    Horizon = 18
    Zones = {0, 1}
    URLs = {1, 2}
    MaxEdits = 1
    CloseDelay = 1
    RawRetention = 5
    MetadataRetention = 4
INVARIANTS
    EveryTickCountedOnce
PROPERTIES
    RegularDaysAreSummarized
    ClosedDaysAreCompacted
