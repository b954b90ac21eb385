SPECIFICATION FairSpec
CONSTANTS
    Settings <- Loose
    Budget <- LiveAttempts
    MaxRounds = 0
    MaxEdits = 3
    MaxCrashes = 1
PROPERTY PassEnds
CHECK_DEADLOCK FALSE
