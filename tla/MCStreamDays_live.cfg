SPECIFICATION LiveSpec
CONSTANTS
    Base = 2
    Stream = {1}
    Interval <- Daily
    Phases <- LaterSeconds
    DaySeconds = 2
    LastDay = 1
    Horizon = 31
    Zones = {1}
    URLs = {1}
    MaxEdits = 0
    CloseDelay = 1
    RawRetention = 4
    MetadataRetention = 8
INVARIANTS
    SummaryCountsItsDay
PROPERTIES
    DueDaysAreSummarized
    ClosedDaysAreCompacted
