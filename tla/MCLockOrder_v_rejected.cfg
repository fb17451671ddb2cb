SPECIFICATION FairSpec
CONSTANTS
  Threads = {"requests"}
  Serves <- Rejections
PROPERTY RejectionEnds
\* The thread waits for the mutex it holds.
CHECK_DEADLOCK FALSE
