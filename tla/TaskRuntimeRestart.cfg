SPECIFICATION FairSpec
CONSTANTS
    t1 = t1
    t2 = t2
    o1 = o1
    o2 = o2
    a1 = a1
    a2 = a2
    None = None
    Tasks <- OneTask
    Operators <- OneOperator
    Approvals <- TwoApprovals
    MaxWorkers = 1
    Ages <- AgeRange
    ResumeMaxAge = 1
    OrphanMaxAge = 1
    MaxCrashes = 2
    MaxLockLosses = 0
CHECK_DEADLOCK FALSE
INVARIANTS
    PendingFlagBacked
PROPERTIES
    ExecutionNeedsGrant
    FlightEndsOrLeaks
    SlotRecovered
