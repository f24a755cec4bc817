SPECIFICATION Spec
CONSTANTS
    Base = 2
    Stream = {1}
    Interval <- TwiceDaily
    Phases <- OnTheSecond
    DaySeconds = 2
    LastDay = 1
    Horizon = 20
    Zones = {1}
    URLs = {1, 2}
    MaxEdits = 1
    CloseDelay = 1
    RawRetention = 4
    MetadataRetention = 8
INVARIANTS
    CapturesOfADayAgree
