SPECIFICATION Spec
CONSTANTS
  Threads = {"loop", "requests"}
  Serves <- LoopAndRequests
INVARIANTS TypeOK CirclesReverse
\* Threads really may block each other for ever.
CHECK_DEADLOCK FALSE
