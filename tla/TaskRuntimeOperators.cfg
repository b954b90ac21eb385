SPECIFICATION Spec
CONSTANTS
    t1 = t1
    t2 = t2
    o1 = o1
    o2 = o2
    a1 = a1
    a2 = a2
    None = None
    Tasks <- OneTask
    Operators <- TwoOperators
    Approvals <- OneApproval
    MaxWorkers = 1
    Ages <- AgeRange
    ResumeMaxAge = 1
    OrphanMaxAge = 1
    MaxCrashes = 1
    MaxLockLosses = 1
CHECK_DEADLOCK FALSE
SYMMETRY Symmetry
INVARIANTS
    TypeOK
    PendingFlagBacked
