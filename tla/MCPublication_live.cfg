SPECIFICATION LiveSpec
CONSTANTS
    Item = {1, 2}
    Dataset <- OneStream
    Kind <- TripUpdates
    URL <- OneURL
    Configs <- Edits
    Damageable <- FirstDamaged
    MaxDoublings = 1
    MaxRestarts = 1
    MaxOutages = 1
CHECK_DEADLOCK FALSE
PROPERTIES
    EveryRevisionIsVerified
