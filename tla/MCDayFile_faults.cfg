SPECIFICATION FileSpec
CONSTANTS
    Captures = 3
    Messages <- Feeds
    NoTripUpdate = 9
    Layouts = {"flattened", "nested"}
    GroupRows = 2
    MaxFaults = 2
INVARIANTS
    FileTypeOK
    ValidFileHoldsTheDay
    ExclusionsAreDeclared
    RowGroupsAreBounded
    StopsAreCounted
CHECK_DEADLOCK FALSE
