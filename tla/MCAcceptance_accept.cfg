SPECIFICATION Spec
CONSTANTS
    q1 = q1  k1 = k1
    Requests <- SomeRequests
    Keys <- SomeKeys
    KeyOf <- SomeKeyOf
    MaxHold = 3
    Loop = Loop  Op = Op  None = None
    MaxKinds = 1
    Many = FALSE
    Operator <- AllRequests
    Faults <- AllFaults
INVARIANTS TypeOK MatchAgrees OrderAgrees LedgerCommitted
