SPECIFICATION LiveSpec
CONSTANTS
    Item = {1, 2}
    Dataset <- OneLegacy
    Kind <- TripUpdates
    URL <- TwoQueries
    Configs <- Edits
    Damageable <- FirstUnsure
    MaxDoublings = 1
    MaxRestarts = 1
    MaxOutages = 1
CHECK_DEADLOCK FALSE
INVARIANTS
    VerifiedIsCompacted
