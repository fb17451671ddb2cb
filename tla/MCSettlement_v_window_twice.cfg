SPECIFICATION Spec
CONSTANTS
    MaxWindow = 2
    MaxAttempts = 2
    MergeCount = 1
    MaxRecoveryRetries = 6
    StuckThreshold = 4
    CommittedWindows = 2
    Operator <- NoRequests
    Faults <- NodeError
INVARIANTS SingleConfirm
