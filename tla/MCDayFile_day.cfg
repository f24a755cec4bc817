SPECIFICATION FileLiveSpec
CONSTANTS
    Captures = 3
    Messages <- Feeds
    NoTripUpdate = 9
    Layouts = {"flattened", "nested"}
    GroupRows = 2
    MaxFaults = 2
INVARIANTS
    ValidFileHoldsTheDay
    ExclusionsAreDeclared
PROPERTY
    ReadableDayIsCompacted
CHECK_DEADLOCK FALSE
