SPECIFICATION FairSpec
CONSTANTS
    MaxWindow = 3
    MaxAttempts = 2
    MergeCount = 2
    MaxRecoveryRetries = 3
    StuckThreshold = 2
    CommittedWindows = 2
    Operator <- NoRequests
    Faults <- HonestNode
INVARIANTS CommittedIsPaid SettledIsPaid ChargesApart
PROPERTIES DisputedBillBlocked UnknownStays TerminalStays KeepsCharges RecoveryEnds
