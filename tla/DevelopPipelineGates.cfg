SPECIFICATION Spec
CONSTANTS
    Settings <- Lossless
    Budget <- MixedAttempts
    MaxRounds = 1
    MaxEdits = 3
    MaxCrashes = 0
INVARIANTS TypeOK ShownIsCompiled NoSilentReturn
PROPERTY NoRepeatedQuestion
CHECK_DEADLOCK FALSE
