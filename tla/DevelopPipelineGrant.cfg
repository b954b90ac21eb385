SPECIFICATION Spec
CONSTANTS
    Settings <- PlanApproved
    Budget <- NoAttempts
    MaxRounds = 0
    MaxEdits = 2
    MaxCrashes = 0
INVARIANT TransitionNeedsGrant
CHECK_DEADLOCK FALSE
