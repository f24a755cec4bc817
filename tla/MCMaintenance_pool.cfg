SPECIFICATION Spec
CONSTANTS
    Stream = {1, 2}
    Day = {1, 2}
    CompactionConcurrency = 2
    Destination = {"a", "b", "c"}
    UploadConcurrency = 2
INVARIANTS
    TypeOK
    ArchiveAlone
    StreamAlone
    EveryJobOnce
