SPECIFICATION LiveSpec
CONSTANTS
    Item = {1, 2}
    Dataset <- OneLegacy
    Kind <- TripUpdates
    URL <- TwoURLs
    Configs <- Edits
    Damageable <- FirstMisdirected
    MaxDoublings = 1
    MaxRestarts = 1
    MaxOutages = 1
CHECK_DEADLOCK FALSE
INVARIANTS
    TypeOK
    ManifestHasData
    VerifiedIsOwn
    PermanentHasCause
PROPERTY
    EveryOwnRevisionIsVerified
