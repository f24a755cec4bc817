SPECIFICATION Spec
CONSTANTS
    Base = 2
    Stream = {1}
    Interval <- Daily
    Phases <- AnyPhase
    DaySeconds = 2
    LastDay = 1
    Horizon = 24
    Zones = {1}
    URLs = {1, 2}
    MaxEdits = 1
    CloseDelay = 1
    RawRetention = 1
    MetadataRetention = 2
INVARIANTS
    SummaryAgreesWithManifest
