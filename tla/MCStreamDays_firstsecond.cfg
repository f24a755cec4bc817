SPECIFICATION LiveSpec
CONSTANTS
    Base = 2
    Stream = {1}
    Interval <- Daily
    Phases <- FirstSecond
    DaySeconds = 2
    LastDay = 1
    Horizon = 27
    Zones = {0}
    URLs = {1}
    MaxEdits = 0
    CloseDelay = 1
    RawRetention = 4
    MetadataRetention = 8
PROPERTY
    DueDaysAreSummarized
