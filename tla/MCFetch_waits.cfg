SPECIFICATION Spec
CONSTANTS
    Attempts = 5
    Timeout = 2
    Interval = 6
    InitialBackoff = 3
    MaxBackoff = 5
    Second = 2
    Width = 5
    Status <- Codes
    RetryAfters <- Headers
    Cancellable = TRUE
CHECK_DEADLOCK FALSE
INVARIANTS
    FetchEndsInTime
    AttemptsAreRequests
PROPERTY
    RetryAfterIsHonoured
