SPECIFICATION Spec
CONSTANTS
    c1 = c1
    c2 = c2
    primary = primary
    mirror = mirror
    Capture = {c1}
    Destination = {primary, mirror}
    Required = {primary}
    Configs <- AnyConfig
    LocalOnly = FALSE
    MaxRevision = 1
    RawAge = 1
    ParquetAge = 1
    MetadataAge = 1
    Faults = {"operator"}
PROPERTIES
    BackfillsDoNotGate
