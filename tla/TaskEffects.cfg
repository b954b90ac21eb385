SPECIFICATION Spec
CONSTANTS
    Guarded <- OverriddenGuarded
    RetryCount = 1
    Approvals = {a1, a2}
    None = None
    MaxRows = 6
    Plans <- AllPlans
    MaxFaults = 1
INVARIANTS TypeOK GuardedNeedsGrant GrantIsUsedOnce EffectsAreRecorded
    CompletedMeansDone RollbackRestores
PROPERTY PlanEnds
CHECK_DEADLOCK FALSE
