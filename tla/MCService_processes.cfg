SPECIFICATION LiveSpec
CONSTANTS
    Archiver = {r1, r2}
    Command = {c}
    Nobody = Nobody
INVARIANTS
    RowsNeedTheLock
    OnlyLateWorkersOverlap
    ServicesLeaveNoFileBehind
PROPERTIES
    StoppedServiceExits
