------------------------------ MODULE Charges -------------------------------
(***************************************************************************)
(* What becomes of the charges of a task, whatever happens in between.     *)
(*                                                                         *)
(* Each new window is later than all before and joins the queue.  Now and  *)
(* then the MergeCount oldest of the queue leave it, together: they are    *)
(* settled, or they are left to the recovery of the attempt that drained   *)
(* them.  Nothing is settled twice, comes back, or is settled out of turn. *)
(* Only a restart forgets the task.                                        *)
(*                                                                         *)
(* The abstract specification of the merge queue.  Settlement implements   *)
(* it with an attempt of many steps, recovery and operators in between;    *)
(* Feed with a step for each answer of the provider.                       *)
(***************************************************************************)
EXTENDS Integers, FiniteSets

CONSTANTS Windows, MergeCount

VARIABLES
    queued,   \* charged, and neither settled nor left
    settled,
    left      \* left to recovery, out of the reach of later merges

vars == <<queued, settled, left>>

Known == queued \cup settled \cup left

Init == queued = {} /\ settled = {} /\ left = {}

\* The queue, or the queue with a new window.
Queues == {queued} \cup {queued \cup {w} : w \in {n \in Windows : \A k \in Known : k < n}}

\* A batch: the MergeCount oldest of a queue.
Batch(ws) == {w \in ws : Cardinality({v \in ws : v < w}) < MergeCount}

Wait(queue) == queued' = queue /\ UNCHANGED <<settled, left>>

Settle(queue) ==
    /\ Cardinality(queue) >= MergeCount
    /\ queued' = queue \ Batch(queue) /\ settled' = settled \cup Batch(queue)
    /\ UNCHANGED left

Leave(queue) ==
    /\ Cardinality(queue) >= MergeCount
    /\ queued' = queue \ Batch(queue) /\ left' = left \cup Batch(queue)
    /\ UNCHANGED settled

Restart == queued' = {} /\ settled' = {} /\ left' = {}

Next == (\E queue \in Queues : Wait(queue) \/ Settle(queue) \/ Leave(queue)) \/ Restart

Spec == Init /\ [][Next]_vars

-----------------------------------------------------------------------------
\* A charge is in one place, and whatever left the queue is older than what is in it.
OldestFirst ==
    /\ queued \cap settled = {} /\ queued \cap left = {} /\ settled \cap left = {}
    /\ \A w \in settled \cup left, v \in queued : w < v
=============================================================================
