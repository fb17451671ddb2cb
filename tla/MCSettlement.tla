---------------------------- MODULE MCSettlement ----------------------------
(***************************************************************************)
(* Instances of Settlement for TLC: which requests of the operator and     *)
(* which faults of the environment a run allows.                           *)
(***************************************************************************)
EXTENDS Settlement

\* Requests.
NoRequests == {}
Repairing  == {"retry", "mark_final", "dispute_retry", "dispute_rollback",
               "dispute_mark_final", "reap", "release", "mode"}
\* What may happen in the middle of the loop's merge or recovery.
Intruding  == {"accept", "release", "mode", "sell_order", "recover"}

\* Faults.
\* All but those that hide what the node did.
HonestNode    == FaultKinds \ {"node_reply_lost"}
NodeError     == {"node_error"}
LostReplies   == {"node_reply_lost"}
=============================================================================
