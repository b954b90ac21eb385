SPECIFICATION Spec
CONSTANTS
    Settings <- JiraOnly
    Budget <- WorkAttempts
    MaxRounds = 0
    MaxEdits = 7
    MaxCrashes = 0
INVARIANTS ResetsRerun WorkIsBounded
PROPERTY ReleaseIsGranted
CHECK_DEADLOCK FALSE
