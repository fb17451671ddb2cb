---------------------------- MODULE MCLockOrder ----------------------------
(* The poll loop on one worker thread and the requests on another, or a    *)
(* rejection on its own.                                                   *)
EXTENDS LockOrder
LoopAndRequests ==
  [t \in Threads |-> IF t = "loop" THEN Handlers ELSE Handlers \ {"poll_once"}]
Rejections == [t \in Threads |-> {"reject_match"}]
=============================================================================
