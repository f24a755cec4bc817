SPECIFICATION Spec
CONSTANTS
    c1 = c1
    c2 = c2
    primary = primary
    mirror = mirror
    Capture = {c1, c2}
    Destination = {primary}
    Required = {primary}
    Configs <- MaybeConfig
    LocalOnly = TRUE
    MaxRevision = 2
    RawAge = 1
    ParquetAge = 1
    MetadataAge = 1
    Faults = {"crash", "dbloss", "damage"}
SYMMETRY CaptureSymmetry
INVARIANTS
    ContentInv
    RetainedIsArchived
    ExpiredIsDelivered
PROPERTIES
    RevisionsImmutable
    RevisionsKeepContent
