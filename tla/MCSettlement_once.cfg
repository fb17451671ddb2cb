SPECIFICATION Spec
CONSTANTS
    MaxWindow = 2
    MaxAttempts = 1
    MergeCount = 2
    MaxRecoveryRetries = 4
    StuckThreshold = 1
    CommittedWindows = 2
    Operator <- Repairing
    Faults <- HonestNode
INVARIANTS TypeOK CommittedIsPaid SettledIsPaid InvoicePaidOnce
