SPECIFICATION Spec
CONSTANTS
    MaxWindow = 2
    MaxAttempts = 1
    MergeCount = 1
    MaxRecoveryRetries = 2
    StuckThreshold = 1
    CommittedWindows = 2
    Operator <- Intruding
    Faults <- LostReplies
INVARIANTS IInv
