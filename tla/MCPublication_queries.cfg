SPECIFICATION LiveSpec
CONSTANTS
    Item = {1, 2}
    Dataset <- TwoStreams
    Kind <- TripUpdates
    URL <- TwoQueries
    Configs <- Complete
    Damageable <- Undamaged
    MaxDoublings = 1
    MaxRestarts = 1
    MaxOutages = 1
CHECK_DEADLOCK FALSE
PROPERTIES
    EveryRevisionIsVerified
