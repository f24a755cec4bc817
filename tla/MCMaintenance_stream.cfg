SPECIFICATION LiveSpec
CONSTANTS
    Stream = {1}
    Day = {1, 2}
    CompactionConcurrency = 2
    Destination = {"a", "b"}
    UploadConcurrency = 1
INVARIANTS
    ArchiveAlone
    StreamAlone
    EveryJobOnce
PROPERTIES
    MaintenanceGoesOn
    RunReturns
