\* One kind of fault in a behaviour, each as often as it likes but the restarts.
SPECIFICATION FairSpec
CONSTANTS
  None = None
  SamplesPerWindow = 2
  MergeCount = 2
  Sla = 2
  Budget = 3
  MaxWindow = 4
  MaxLag = 2
  Operator <- AllOperators
  Faults <- AllFaults
  MaxKinds = 1
INVARIANTS TypeOK SpentAccounted NothingMissed ReceiptAgrees PaidWithinBudget
PROPERTIES PausedPaysNothing KeepsCharges StallNoticed
