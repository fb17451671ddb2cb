-------------------------- MODULE Settlement_proofs --------------------------
(***************************************************************************)
(* The safety of Settlement, for every value of its constants: its types,  *)
(* charges that are in one place at a time, and whatever says paid was     *)
(* paid at the node.                                                       *)
(***************************************************************************)
EXTENDS Settlement, FiniteSetTheorems, TLAPS

(***************************************************************************)
(* Types.                                                                  *)
(***************************************************************************)

\* Charging bills, finalizing a trade and opening disputes stay within the
\* statuses and the kinds of crates/common/src/market.rs.
LEMMA BilledType ==
    ASSUME TypeOK, NEW a, NEW next \in BillStatuses
    PROVE  Billed(a, next) \in [Windows -> BillStatuses]
BY DEF TypeOK, BillTypes, Billed

LEMMA FinalizedType == TypeOK => TradeFinalized \in [Windows -> BillStatuses]
BY DEF TypeOK, BillTypes, TradeFinalized, BillStatuses

LEMMA AutoDisputesType == TypeOK => AutoDisputes \in [Attempts -> SUBSET DisputeKinds]
BY DEF TypeOK, DisputeTypes, AutoDisputes

\* What a step leaves alone keeps its type.
LEMMA Untouched ==
    ASSUME TypeOK
    PROVE  /\ UNCHANGED attemptVars => AttemptTypes'
           /\ UNCHANGED disputes => DisputeTypes'
           /\ UNCHANGED billVars => BillTypes'
           /\ UNCHANGED taskVars => TaskTypes'
           /\ UNCHANGED <<matchVars, auto, order>> => MatchTypes'
           /\ UNCHANGED mergeVars => MergeTypes'
           /\ UNCHANGED recVars => RecoveryTypes'
           /\ UNCHANGED handVars => HandlerTypes'
           /\ UNCHANGED nodeVars => NodeTypes'
<1>1. UNCHANGED attemptVars => AttemptTypes'
  BY DEF TypeOK, AttemptTypes, attemptVars
<1>2. UNCHANGED disputes => DisputeTypes'
  BY DEF TypeOK, DisputeTypes
<1>3. UNCHANGED billVars => BillTypes'
  BY DEF TypeOK, BillTypes, billVars
<1>4. UNCHANGED taskVars => TaskTypes'
  BY DEF TypeOK, TaskTypes, taskVars
<1>5. UNCHANGED <<matchVars, auto, order>> => MatchTypes'
  BY DEF TypeOK, MatchTypes, matchVars
<1>6. UNCHANGED mergeVars => MergeTypes'
  BY DEF TypeOK, MergeTypes, mergeVars
<1>7. UNCHANGED recVars => RecoveryTypes'
  BY DEF TypeOK, RecoveryTypes, recVars
<1>8. UNCHANGED handVars => HandlerTypes'
  BY DEF TypeOK, HandlerTypes, handVars
<1>9. UNCHANGED nodeVars => NodeTypes'
  BY DEF TypeOK, NodeTypes, nodeVars
<1> QED BY <1>1, <1>2, <1>3, <1>4, <1>5, <1>6, <1>7, <1>8, <1>9

LEMMA TypeMerge ==
    ASSUME TypeOK, Merge
    PROVE  TypeOK'
<1>1. ASSUME NEW w \in Windows, PollWindow(w) PROVE TypeOK'
  <2>1. TaskTypes'
    <3>1. lastWindow' \in 0..MaxWindow
      BY <1>1, BoundsAssumption DEF PollWindow, Windows
    <3>2. pending' \in SUBSET Windows /\ settled' = settled
      BY <1>1 DEF TypeOK, TaskTypes, PollWindow
    <3> QED BY <3>1, <3>2 DEF TypeOK, TaskTypes
  <2>2. MergeTypes'
    BY <1>1 DEF TypeOK, MergeTypes, PollWindow, Stages
  <2> QED BY <1>1, <2>1, <2>2, Untouched DEF TypeOK, PollWindow
<1>2. CASE MergeBreak
  <2>1. MergeTypes'
    BY <1>2 DEF TypeOK, MergeTypes, MergeBreak, Stages
  <2> QED BY <1>2, <2>1, Untouched DEF TypeOK, MergeBreak
<1>3. ASSUME NEW a \in Attempts, MergeOpenAttempt(a) PROVE TypeOK'
  <2>1. AttemptTypes'
    BY <1>3 DEF TypeOK, AttemptTypes, MergeOpenAttempt, Statuses, TaskTypes,
       MergeTypes
  <2>2. BillTypes'
    BY <1>3 DEF TypeOK, BillTypes, MergeOpenAttempt, Attempts
  <2>3. TaskTypes'
    BY <1>3 DEF TypeOK, TaskTypes, MergeOpenAttempt, AttemptTypes, MergeTypes
  <2>4. MatchTypes'
    BY <1>3 DEF TypeOK, MatchTypes, MergeOpenAttempt, Bindings, MergeTypes
  <2>5. MergeTypes'
    BY <1>3 DEF TypeOK, MergeTypes, MergeOpenAttempt, Stages
  <2> QED BY <1>3, <2>1, <2>2, <2>3, <2>4, <2>5, Untouched DEF TypeOK,
     MergeOpenAttempt
<1>4. CASE MergeRelease
  <2>1. MatchTypes'
    BY <1>4 DEF TypeOK, MatchTypes, MergeRelease, PostRelease, Bindings,
       OrderStatuses, MergeTypes
  <2>2. MergeTypes'
    BY <1>4 DEF TypeOK, MergeTypes, MergeRelease, Stages
  <2> QED BY <1>4, <2>1, <2>2, Untouched DEF TypeOK, MergeRelease
<1>5. CASE MergeMarkSettling
  <2>1. AttemptTypes'
    BY <1>5 DEF TypeOK, AttemptTypes, MergeMarkSettling, Advance, Moved, NextStage,
       Statuses, Stages, MergeTypes
  <2>2. MatchTypes'
    BY <1>5 DEF TypeOK, MatchTypes, MergeMarkSettling, Posted, From, To,
       OrderStatuses, MergeTypes, matchVars
  <2>3. MergeTypes'
    BY <1>5 DEF TypeOK, MergeTypes, MergeMarkSettling, Stages
  <2> QED BY <1>5, <2>1, <2>2, <2>3, Untouched DEF TypeOK, MergeMarkSettling
<1>6. CASE MergeMarkSettlingFails
  <2>1. AttemptTypes'
    BY <1>6, BoundsAssumption DEF TypeOK, AttemptTypes, MergeMarkSettlingFails, Fail,
       Moved, Retried, ErrorAt, Statuses, Stages, ErrorKinds, MergeTypes
  <2>2. MatchTypes'
    BY <1>6 DEF TypeOK, MatchTypes, MergeMarkSettlingFails, PostFailed, From, To,
       OrderStatuses, matchVars
  <2>3. MergeTypes'
    BY <1>6 DEF TypeOK, MergeTypes, MergeMarkSettlingFails, GiveUp, Stages
  <2> QED BY <1>6, <2>1, <2>2, <2>3, Untouched DEF TypeOK, MergeMarkSettlingFails
<1>7. CASE MergeCreateInvoice
  <2>1. AttemptTypes'
    BY <1>7 DEF TypeOK, AttemptTypes, MergeCreateInvoice, Advance, Moved, NextStage,
       Statuses, Stages, TaskTypes, BillTypes, BillsOf, MergeTypes
  <2>2. BillTypes'
    BY <1>7, BilledType DEF TypeOK, BillTypes, MergeCreateInvoice, BillStatuses
  <2>3. MergeTypes'
    BY <1>7 DEF TypeOK, MergeTypes, MergeCreateInvoice, Stages
  <2> QED BY <1>7, <2>1, <2>2, <2>3, Untouched DEF TypeOK, MergeCreateInvoice
<1>8. CASE MergeInvoiceBlocked
  <2>1. AttemptTypes'
    BY <1>8, BoundsAssumption DEF TypeOK, AttemptTypes, MergeInvoiceBlocked, Fail,
       Moved, Retried, ErrorAt, Statuses, Stages, ErrorKinds, MergeTypes
  <2>2. TaskTypes'
    BY <1>8 DEF TypeOK, TaskTypes, MergeInvoiceBlocked, Requeue, AttemptTypes,
       MergeTypes
  <2>3. MergeTypes'
    BY <1>8 DEF TypeOK, MergeTypes, MergeInvoiceBlocked, GiveUp, Stages
  <2> QED BY <1>8, <2>1, <2>2, <2>3, Untouched DEF TypeOK, MergeInvoiceBlocked
<1>9. CASE MergeInvoiceFails
  <2>1. AttemptTypes'
    BY <1>9, BoundsAssumption DEF TypeOK, AttemptTypes, MergeInvoiceFails, Moved,
       Statuses, Stages, ErrorKinds, MergeTypes
  <2>2. TaskTypes'
    BY <1>9 DEF TypeOK, TaskTypes, MergeInvoiceFails, Requeue, AttemptTypes,
       MergeTypes
  <2>3. MergeTypes'
    BY <1>9 DEF TypeOK, MergeTypes, MergeInvoiceFails, GiveUp, Stages
  <2> QED BY <1>9, <2>1, <2>2, <2>3, Untouched DEF TypeOK, MergeInvoiceFails
<1>10. CASE MergeSettlePayment
  <2>1. AttemptTypes'
    BY <1>10 DEF TypeOK, AttemptTypes, MergeSettlePayment, Advance, Moved, NextStage,
       Statuses, Stages, MergeTypes
  <2>2. BillTypes'
    BY <1>10, BilledType DEF TypeOK, BillTypes, MergeSettlePayment, BillStatuses
  <2>3. MergeTypes'
    BY <1>10 DEF TypeOK, MergeTypes, MergeSettlePayment, Stages
  <2>4. NodeTypes'
    BY <1>10 DEF TypeOK, NodeTypes, MergeSettlePayment, NodePays, MergeTypes
  <2> QED BY <1>10, <2>1, <2>2, <2>3, <2>4, Untouched DEF TypeOK, MergeSettlePayment
<1>11. CASE MergePaymentFails
  <2>1. TaskTypes'
    BY <1>11 DEF TypeOK, TaskTypes, MergePaymentFails, Requeue, AttemptTypes,
       MergeTypes
  <2>2. MergeTypes'
    BY <1>11 DEF TypeOK, MergeTypes, MergePaymentFails, GiveUp, Stages
  <2>3. NodeTypes'
    BY <1>11 DEF TypeOK, NodeTypes, MergePaymentFails, PaymentFails, NodePays,
       MergeTypes, nodeVars
  <2> QED BY <1>11, <2>1, <2>2, <2>3, Untouched DEF TypeOK, MergePaymentFails
<1>12. CASE MergeRecordResult
  <2>1. AttemptTypes'
    BY <1>12 DEF TypeOK, AttemptTypes, MergeRecordResult, Advance, Moved, NextStage,
       Statuses, Stages, MergeTypes
  <2>2. BillTypes'
    BY <1>12, BilledType DEF TypeOK, BillTypes, MergeRecordResult, BillStatuses
  <2>3. TaskTypes'
    BY <1>12 DEF TypeOK, TaskTypes, MergeRecordResult, AttemptTypes, MergeTypes
  <2>4. MatchTypes'
    BY <1>12 DEF TypeOK, MatchTypes, MergeRecordResult, Bindings, MergeTypes
  <2>5. MergeTypes'
    BY <1>12 DEF TypeOK, MergeTypes, MergeRecordResult, Stages
  <2> QED BY <1>12, <2>1, <2>2, <2>3, <2>4, <2>5, Untouched DEF TypeOK,
     MergeRecordResult
<1>13. CASE MergeRecordFails
  <2>1. AttemptTypes'
    BY <1>13, BoundsAssumption DEF TypeOK, AttemptTypes, MergeRecordFails, Fail,
       Moved, Retried, ErrorAt, Statuses, Stages, ErrorKinds, MergeTypes
  <2>2. BillTypes'
    BY <1>13, BilledType DEF TypeOK, BillTypes, MergeRecordFails, BillStatuses
  <2>3. TaskTypes'
    BY <1>13 DEF TypeOK, TaskTypes, MergeRecordFails, Requeue, AttemptTypes,
       MergeTypes
  <2>4. MergeTypes'
    BY <1>13 DEF TypeOK, MergeTypes, MergeRecordFails, GiveUp, Stages
  <2> QED BY <1>13, <2>1, <2>2, <2>3, <2>4, Untouched DEF TypeOK, MergeRecordFails
<1>14. CASE MergeMarkSettled
  <2>1. AttemptTypes'
    BY <1>14 DEF TypeOK, AttemptTypes, MergeMarkSettled, Moved, Statuses, Stages,
       MergeTypes
  <2>2. BillTypes'
    BY <1>14, FinalizedType DEF TypeOK, BillTypes, MergeMarkSettled
  <2>3. MatchTypes'
    BY <1>14 DEF TypeOK, MatchTypes, MergeMarkSettled, Posted, From, To,
       OrderStatuses, MergeTypes, matchVars
  <2>4. MergeTypes'
    BY <1>14 DEF TypeOK, MergeTypes, MergeMarkSettled, Stages
  <2> QED BY <1>14, <2>1, <2>2, <2>3, <2>4, Untouched DEF TypeOK, MergeMarkSettled
<1>15. CASE MergeMarkSettledFails
  <2>1. AttemptTypes'
    BY <1>15, BoundsAssumption DEF TypeOK, AttemptTypes, MergeMarkSettledFails, Fail,
       Moved, Retried, ErrorAt, Statuses, Stages, ErrorKinds, MergeTypes
  <2>2. MatchTypes'
    BY <1>15 DEF TypeOK, MatchTypes, MergeMarkSettledFails, PostFailed, From, To,
       OrderStatuses, matchVars
  <2>3. MergeTypes'
    BY <1>15 DEF TypeOK, MergeTypes, MergeMarkSettledFails, GiveUp, Stages
  <2> QED BY <1>15, <2>1, <2>2, <2>3, Untouched DEF TypeOK, MergeMarkSettledFails
<1> QED BY <1>1, <1>2, <1>3, <1>4, <1>5, <1>6, <1>7, <1>8, <1>9, <1>10, <1>11, <1>12,
   <1>13, <1>14, <1>15 DEF Merge

LEMMA TypeRecovery ==
    ASSUME TypeOK, NEW p \in Runners, Recovery(p)
    PROVE  TypeOK'
<1>1. CASE RecStart(p)
  <2>1. RecoveryTypes'
    BY <1>1 DEF TypeOK, RecoveryTypes, RecStart
  <2> QED BY <1>1, <2>1, Untouched DEF TypeOK, RecStart
<1>2. CASE RecOpen(p)
  <2>1. DisputeTypes'
    BY <1>2, AutoDisputesType DEF TypeOK, DisputeTypes, RecOpen
  <2>2. RecoveryTypes'
    BY <1>2 DEF TypeOK, RecoveryTypes, RecOpen
  <2> QED BY <1>2, <2>1, <2>2, Untouched DEF TypeOK, RecOpen
<1>3. ASSUME NEW a \in Attempts, RecSkip(p, a) PROVE TypeOK'
  <2>1. RecoveryTypes'
    BY <1>3 DEF TypeOK, RecoveryTypes, RecSkip, NextListed
  <2> QED BY <1>3, <2>1, Untouched DEF TypeOK, RecSkip
<1>4. ASSUME NEW a \in Attempts, RecExhaust(p, a) PROVE TypeOK'
  <2>1. AttemptTypes'
    BY <1>4 DEF TypeOK, AttemptTypes, RecExhaust, ErrorAt, Statuses, ErrorKinds,
       RecoveryTypes
  <2>2. RecoveryTypes'
    BY <1>4 DEF TypeOK, RecoveryTypes, RecExhaust, NextListed
  <2> QED BY <1>4, <2>1, <2>2, Untouched DEF TypeOK, RecExhaust
<1>5. ASSUME NEW a \in Attempts, RecPick(p, a) PROVE TypeOK'
  <2>1. RecoveryTypes'
    BY <1>5 DEF TypeOK, RecoveryTypes, RecPick, Stages, AttemptTypes, GatewayStages
  <2> QED BY <1>5, <2>1, Untouched DEF TypeOK, RecPick
<1>6. CASE RecLoadDone(p)
  <2>1. AttemptTypes'
    BY <1>6 DEF TypeOK, AttemptTypes, RecLoadDone, MovedOn, NextStage, Stages,
       RecoveryTypes, GatewayStages, Working
  <2>2. RecoveryTypes'
    BY <1>6 DEF TypeOK, RecoveryTypes, RecLoadDone, EndStage, Stages
  <2> QED BY <1>6, <2>1, <2>2, Untouched DEF TypeOK, RecLoadDone
<1>7. CASE RecLoadMissing(p)
  <2>1. RecoveryTypes'
    BY <1>7 DEF TypeOK, RecoveryTypes, RecLoadMissing, EndStage, Stages
  <2> QED BY <1>7, <2>1, Untouched DEF TypeOK, RecLoadMissing
<1>8. CASE RecLoad(p)
  <2>1. RecoveryTypes'
    BY <1>8 DEF TypeOK, RecoveryTypes, RecLoad, AttemptTypes
  <2> QED BY <1>8, <2>1, Untouched DEF TypeOK, RecLoad
<1>9. CASE RecMarkSettling(p)
  <2>1. AttemptTypes'
    BY <1>9 DEF TypeOK, AttemptTypes, RecMarkSettling, MovedOn, NextStage, Stages,
       RecoveryTypes, Working
  <2>2. MatchTypes'
    BY <1>9 DEF TypeOK, MatchTypes, RecMarkSettling, Posted, From, To, OrderStatuses,
       matchVars
  <2>3. RecoveryTypes'
    BY <1>9 DEF TypeOK, RecoveryTypes, RecMarkSettling, EndStage, Stages
  <2> QED BY <1>9, <2>1, <2>2, <2>3, Untouched DEF TypeOK, RecMarkSettling
<1>10. CASE RecMarkFails(p)
  <2>1. MatchTypes'
    BY <1>10 DEF TypeOK, MatchTypes, RecMarkFails, PostFailed, From, To,
       OrderStatuses, matchVars
  <2>2. RecoveryTypes'
    BY <1>10 DEF TypeOK, RecoveryTypes, RecMarkFails, EndStage, Stages
  <2> QED BY <1>10, <2>1, <2>2, Untouched DEF TypeOK, RecMarkFails
<1>11. CASE RecCreateInvoice(p)
  <2>1. AttemptTypes'
    BY <1>11 DEF TypeOK, AttemptTypes, RecCreateInvoice, MovedOn, NextStage, Stages,
       TaskTypes, BillTypes, BillsOf, RecoveryTypes, Working
  <2>2. BillTypes'
    BY <1>11, BilledType DEF TypeOK, BillTypes, RecCreateInvoice, BillStatuses
  <2>3. RecoveryTypes'
    BY <1>11 DEF TypeOK, RecoveryTypes, RecCreateInvoice, EndStage, Stages
  <2> QED BY <1>11, <2>1, <2>2, <2>3, Untouched DEF TypeOK, RecCreateInvoice
<1>12. CASE RecInvoiceFails(p)
  <2>1. RecoveryTypes'
    BY <1>12 DEF TypeOK, RecoveryTypes, RecInvoiceFails, EndStage, Stages
  <2> QED BY <1>12, <2>1, Untouched DEF TypeOK, RecInvoiceFails
<1>13. CASE RecInvoiceConflicts(p)
  <2>1. DisputeTypes'
    BY <1>13 DEF TypeOK, DisputeTypes, RecInvoiceConflicts, DisputeKinds,
       RecoveryTypes
  <2>2. RecoveryTypes'
    BY <1>13 DEF TypeOK, RecoveryTypes, RecInvoiceConflicts, EndStage, Stages
  <2> QED BY <1>13, <2>1, <2>2, Untouched DEF TypeOK, RecInvoiceConflicts
<1>14. CASE RecSettlePayment(p)
  <2>1. AttemptTypes'
    BY <1>14 DEF TypeOK, AttemptTypes, RecSettlePayment, MovedOn, NextStage, Stages,
       RecoveryTypes, Working
  <2>2. BillTypes'
    BY <1>14, BilledType DEF TypeOK, BillTypes, RecSettlePayment, BillStatuses
  <2>3. RecoveryTypes'
    BY <1>14 DEF TypeOK, RecoveryTypes, RecSettlePayment, EndStage, Stages
  <2>4. NodeTypes'
    BY <1>14 DEF TypeOK, NodeTypes, RecSettlePayment, NodePays, RecoveryTypes
  <2> QED BY <1>14, <2>1, <2>2, <2>3, <2>4, Untouched DEF TypeOK, RecSettlePayment
<1>15. CASE RecPaymentFails(p)
  <2>1. RecoveryTypes'
    BY <1>15 DEF TypeOK, RecoveryTypes, RecPaymentFails, EndStage, Stages
  <2>2. NodeTypes'
    BY <1>15 DEF TypeOK, NodeTypes, RecPaymentFails, PaymentFails, NodePays,
       RecoveryTypes, nodeVars
  <2> QED BY <1>15, <2>1, <2>2, Untouched DEF TypeOK, RecPaymentFails
<1>16. CASE RecRecordResult(p)
  <2>1. AttemptTypes'
    BY <1>16 DEF TypeOK, AttemptTypes, RecRecordResult, MovedOn, NextStage, Stages,
       RecoveryTypes, Working
  <2>2. BillTypes'
    BY <1>16, BilledType DEF TypeOK, BillTypes, RecRecordResult, BillStatuses
  <2>3. RecoveryTypes'
    BY <1>16 DEF TypeOK, RecoveryTypes, RecRecordResult, EndStage, Stages
  <2> QED BY <1>16, <2>1, <2>2, <2>3, Untouched DEF TypeOK, RecRecordResult
<1>17. CASE RecRecordFails(p)
  <2>1. DisputeTypes'
    BY <1>17 DEF TypeOK, DisputeTypes, RecRecordFails, DisputeKinds, RecoveryTypes
  <2>2. BillTypes'
    BY <1>17, BilledType DEF TypeOK, BillTypes, RecRecordFails, BillStatuses
  <2>3. RecoveryTypes'
    BY <1>17 DEF TypeOK, RecoveryTypes, RecRecordFails, EndStage, Stages
  <2> QED BY <1>17, <2>1, <2>2, <2>3, Untouched DEF TypeOK, RecRecordFails
<1>18. CASE RecMarkSettled(p)
  <2>1. AttemptTypes'
    BY <1>18 DEF TypeOK, AttemptTypes, RecMarkSettled, Statuses, RecoveryTypes
  <2>2. MatchTypes'
    BY <1>18 DEF TypeOK, MatchTypes, RecMarkSettled, Posted, From, To, OrderStatuses,
       matchVars
  <2>3. RecoveryTypes'
    BY <1>18 DEF TypeOK, RecoveryTypes, RecMarkSettled, EndStage, Stages
  <2> QED BY <1>18, <2>1, <2>2, <2>3, Untouched DEF TypeOK, RecMarkSettled
<1>19. CASE RecTail(p)
  <2>1. AttemptTypes'
    BY <1>19, BoundsAssumption DEF TypeOK, AttemptTypes, RecTail, Retried, Statuses,
       RecoveryTypes
  <2>2. RecoveryTypes'
    BY <1>19 DEF TypeOK, RecoveryTypes, RecTail, NextListed
  <2> QED BY <1>19, <2>1, <2>2, Untouched DEF TypeOK, RecTail
<1>20. CASE RecTailFailed(p)
  <2>1. AttemptTypes'
    BY <1>20, BoundsAssumption DEF TypeOK, AttemptTypes, RecTailFailed, Retried,
       ErrorAt, Statuses, ErrorKinds, RecoveryTypes
  <2>2. DisputeTypes'
    BY <1>20 DEF TypeOK, DisputeTypes, RecTailFailed, DisputeKinds, RecoveryTypes
  <2>3. RecoveryTypes'
    BY <1>20 DEF TypeOK, RecoveryTypes, RecTailFailed, NextListed
  <2> QED BY <1>20, <2>1, <2>2, <2>3, Untouched DEF TypeOK, RecTailFailed
<1> QED BY <1>1, <1>2, <1>3, <1>4, <1>5, <1>6, <1>7, <1>8, <1>9, <1>10, <1>11, <1>12,
   <1>13, <1>14, <1>15, <1>16, <1>17, <1>18, <1>19, <1>20 DEF Recovery

LEMMA TypeAccept ==
    ASSUME TypeOK, NEW p \in Runners, Accept(p)
    PROVE  TypeOK'
<1>1. CASE AcceptBind(p)
  <2>1. MatchTypes'
    BY <1>1 DEF TypeOK, MatchTypes, AcceptBind, Bindings
  <2>2. HandlerTypes'
    BY <1>1 DEF TypeOK, HandlerTypes, AcceptBind
  <2> QED BY <1>1, <2>1, <2>2, Untouched DEF TypeOK, AcceptBind
<1>2. CASE AcceptLock(p)
  <2>1. MatchTypes'
    BY <1>2 DEF TypeOK, MatchTypes, AcceptLock, Posted, From, To, OrderStatuses,
       matchVars
  <2>2. HandlerTypes'
    BY <1>2 DEF TypeOK, HandlerTypes, AcceptLock
  <2> QED BY <1>2, <2>1, <2>2, Untouched DEF TypeOK, AcceptLock
<1>3. CASE AcceptLockFails(p)
  <2>1. MatchTypes'
    BY <1>3 DEF TypeOK, MatchTypes, AcceptLockFails, PostFailed, From, To, Bindings,
       OrderStatuses
  <2>2. HandlerTypes'
    BY <1>3 DEF TypeOK, HandlerTypes, AcceptLockFails
  <2> QED BY <1>3, <2>1, <2>2, Untouched DEF TypeOK, AcceptLockFails
<1>4. CASE AcceptRollback(p)
  <2>1. MatchTypes'
    BY <1>4 DEF TypeOK, MatchTypes, AcceptRollback
  <2>2. HandlerTypes'
    BY <1>4 DEF TypeOK, HandlerTypes, AcceptRollback
  <2> QED BY <1>4, <2>1, <2>2, Untouched DEF TypeOK, AcceptRollback
<1> QED BY <1>1, <1>2, <1>3, <1>4 DEF Accept

LEMMA TypeOther ==
    ASSUME TypeOK, LoopCleanup \/ Reap \/ Operate
    PROVE  TypeOK'
<1>1. CASE LoopCleanup
  <2>1. MatchTypes'
    BY <1>1 DEF TypeOK, MatchTypes, LoopCleanup, PostRelease, Unbound, Bindings,
       OrderStatuses
  <2> QED BY <1>1, <2>1, Untouched DEF TypeOK, LoopCleanup
<1>2. CASE Reap
  <2>1. AttemptTypes'
    BY <1>2 DEF TypeOK, AttemptTypes, Reap, ErrorAt, Statuses, ErrorKinds
  <2>2. DisputeTypes'
    BY <1>2, AutoDisputesType DEF TypeOK, DisputeTypes, Reap
  <2>3. MatchTypes'
    BY <1>2 DEF TypeOK, MatchTypes, Reap
  <2> QED BY <1>2, <2>1, <2>2, <2>3, Untouched DEF TypeOK, Reap
<1>3. CASE ReleaseBegin
  <2>1. MatchTypes'
    BY <1>3 DEF TypeOK, MatchTypes, ReleaseBegin, PostRelease, OrderStatuses
  <2>2. HandlerTypes'
    BY <1>3 DEF TypeOK, HandlerTypes, ReleaseBegin
  <2> QED BY <1>3, <2>1, <2>2, Untouched DEF TypeOK, ReleaseBegin
<1>4. CASE ReleaseFinish
  <2>1. AttemptTypes'
    BY <1>4 DEF TypeOK, AttemptTypes, ReleaseFinish, SweepAttempts, ErrorAt, Statuses,
       ErrorKinds
  <2>2. MatchTypes'
    BY <1>4 DEF TypeOK, MatchTypes, ReleaseFinish, Unbound, Bindings
  <2>3. HandlerTypes'
    BY <1>4 DEF TypeOK, HandlerTypes, ReleaseFinish
  <2> QED BY <1>4, <2>1, <2>2, <2>3, Untouched DEF TypeOK, ReleaseFinish
<1>5. CASE SwitchMode
  <2>1. AttemptTypes'
    BY <1>5 DEF TypeOK, AttemptTypes, SwitchMode, SweepAttempts, ErrorAt, Statuses,
       ErrorKinds
  <2>2. MatchTypes'
    BY <1>5 DEF TypeOK, MatchTypes, SwitchMode, PostRelease, OrderStatuses
  <2>3. HandlerTypes'
    BY <1>5 DEF TypeOK, HandlerTypes, SwitchMode
  <2> QED BY <1>5, <2>1, <2>2, <2>3, Untouched DEF TypeOK, SwitchMode
<1>6. CASE SellOrder
  <2>1. MatchTypes'
    BY <1>6 DEF TypeOK, MatchTypes, SellOrder, OrderStatuses, matchVars
  <2> QED BY <1>6, <2>1, Untouched DEF TypeOK, SellOrder
<1>7. CASE RollbackBills
  <2>1. BillTypes'
    BY <1>7 DEF TypeOK, BillTypes, RollbackBills, BillStatuses
  <2>2. HandlerTypes'
    BY <1>7, BoundsAssumption DEF TypeOK, HandlerTypes, RollbackBills
  <2> QED BY <1>7, <2>1, <2>2, Untouched DEF TypeOK, RollbackBills
<1>8. ASSUME NEW a \in Attempts, Retry(a) PROVE TypeOK'
  <2>1. AttemptTypes'
    BY <1>8, BoundsAssumption DEF TypeOK, AttemptTypes, Retry, Retried, Statuses,
       Stages
  <2> QED BY <1>8, <2>1, Untouched DEF TypeOK, Retry
<1>9. ASSUME NEW a \in Attempts, MarkFinal(a) PROVE TypeOK'
  <2>1. AttemptTypes'
    BY <1>9 DEF TypeOK, AttemptTypes, MarkFinal, Statuses
  <2>2. DisputeTypes'
    BY <1>9 DEF TypeOK, DisputeTypes, MarkFinal, DisputeKinds
  <2> QED BY <1>9, <2>1, <2>2, Untouched DEF TypeOK, MarkFinal
<1>10. ASSUME NEW a \in Attempts, DisputeRetry(a) PROVE TypeOK'
  <2>1. AttemptTypes'
    BY <1>10 DEF TypeOK, AttemptTypes, DisputeRetry, Statuses, Stages
  <2> QED BY <1>10, <2>1, Untouched DEF TypeOK, DisputeRetry
<1>11. ASSUME NEW a \in Attempts, DisputeMarkFinal(a) PROVE TypeOK'
  <2>1. AttemptTypes'
    BY <1>11 DEF TypeOK, AttemptTypes, DisputeMarkFinal, Statuses
  <2> QED BY <1>11, <2>1, Untouched DEF TypeOK, DisputeMarkFinal
<1>12. ASSUME NEW a \in Attempts, DisputeRollback(a) PROVE TypeOK'
  <2>1. AttemptTypes'
    BY <1>12 DEF TypeOK, AttemptTypes, DisputeRollback, Statuses
  <2>2. HandlerTypes'
    BY <1>12 DEF TypeOK, HandlerTypes, DisputeRollback, Attempts
  <2> QED BY <1>12, <2>1, <2>2, Untouched DEF TypeOK, DisputeRollback
<1> QED BY <1>1, <1>2, <1>3, <1>4, <1>5, <1>6, <1>7, <1>8, <1>9, <1>10, <1>11, <1>12
   DEF Operate

LEMMA TypeInit == Init => TypeOK
<1> SUFFICES ASSUME Init PROVE TypeOK
  OBVIOUS
<1>1. AttemptTypes
  BY BoundsAssumption DEF Init, AttemptTypes, Statuses, Stages, ErrorKinds
<1>2. DisputeTypes
  BY DEF Init, DisputeTypes
<1>3. BillTypes /\ TaskTypes
  BY BoundsAssumption DEF Init, BillTypes, TaskTypes, BillStatuses
<1>4. MatchTypes
  BY DEF Init, MatchTypes, Bindings, OrderStatuses
<1>5. MergeTypes /\ RecoveryTypes /\ HandlerTypes
  BY BoundsAssumption DEF Init, MergeTypes, RecoveryTypes, HandlerTypes, Attempts, Stages
<1>6. NodeTypes
  BY DEF Init, NodeTypes
<1> QED BY <1>1, <1>2, <1>3, <1>4, <1>5, <1>6 DEF TypeOK

\* Every variable keeps the type of the Rust field it stands for, whatever the
\* merge, two recovery runs and the handlers do to it, for any constants.
THEOREM TypeCorrect == Spec => []TypeOK
<1>1. TypeOK /\ [Next]_vars => TypeOK'
  <2> SUFFICES ASSUME TypeOK, [Next]_vars PROVE TypeOK'
    OBVIOUS
  <2>1. CASE UNCHANGED vars
    BY <2>1, Untouched DEF TypeOK, vars
  <2>2. CASE Next
    BY <2>2, TypeMerge, TypeRecovery, TypeAccept, TypeOther DEF Next
  <2> QED BY <2>1, <2>2
<1> QED BY TypeInit, <1>1, PTL DEF Spec

(***************************************************************************)
(* Charges and payments.                                                   *)
(***************************************************************************)

\* A step that leaves alone what a part speaks of keeps it.
LEMMA Kept ==
    ASSUME IInv
    PROVE  /\ UNCHANGED <<pending, settled, mpc, mcur, wins, billOwner, lastWindow>> => ChargesApart'
           /\ UNCHANGED <<mpc, mcur, wins, settled, lastWindow>> => ChargesInFlight'
           /\ UNCHANGED <<status, stage, invoice, payment, recorded, wins>> => AttemptsInOrder'
           /\ UNCHANGED <<mpc, mcur, wins, invoice, payment>> => MergeInOrder'
           /\ UNCHANGED <<rpc, rcur, rstage, payment, invoice>> => RecoveriesInOrder'
           /\ UNCHANGED <<invoice, payment, billOwner, npay, paid, mpc, mcur, wins>> => PaymentsExecuted'
           /\ UNCHANGED <<settled, paid, billStatus, order, payment, npay>> => SettledIsPaid'
<1>1. UNCHANGED <<pending, settled, mpc, mcur, wins, billOwner, lastWindow>> => ChargesApart'
  BY DEF IInv, ChargesApart
<1>2. UNCHANGED <<mpc, mcur, wins, settled, lastWindow>> => ChargesInFlight'
  BY DEF IInv, ChargesInFlight
<1>3. UNCHANGED <<status, stage, invoice, payment, recorded, wins>> => AttemptsInOrder'
  BY DEF IInv, AttemptsInOrder, Used
<1>4. UNCHANGED <<mpc, mcur, wins, invoice, payment>> => MergeInOrder'
  BY DEF IInv, MergeInOrder
<1>5. UNCHANGED <<rpc, rcur, rstage, payment, invoice>> => RecoveriesInOrder'
  BY DEF IInv, RecoveriesInOrder
<1>6. UNCHANGED <<invoice, payment, billOwner, npay, paid, mpc, mcur, wins>> => PaymentsExecuted'
  BY DEF IInv, PaymentsExecuted, BillsOf
<1>7. UNCHANGED <<settled, paid, billStatus, order, payment, npay>> => SettledIsPaid'
  BY DEF IInv, SettledIsPaid
<1> QED BY <1>1, <1>2, <1>3, <1>4, <1>5, <1>6, <1>7

\* Billing an attempt changes its own bills only, and to the given status.
LEMMA BilledPaid ==
    ASSUME TypeOK, NEW a, NEW next, NEW w \in Windows
    PROVE  Billed(a, next)[w] = billStatus[w] \/ (billOwner[w] = a /\ Billed(a, next)[w] = next)
BY DEF TypeOK, BillTypes, Billed

\* The node takes no payment back, and one it executes covers the invoice.
NodeOnlyPays ==
    /\ \A w \in Windows : paid[w] >= 1 => paid'[w] >= 1
    /\ \A a \in Attempts : npay[a] >= 1 => npay'[a] >= 1

LEMMA Paying ==
    ASSUME TypeOK, NEW a \in Attempts, NodePays(a)
    PROVE  NodeOnlyPays /\ npay'[a] >= 1 /\ \A w \in invoice[a] : paid'[w] >= 1
<1>1. \A w \in Windows : paid[w] \in 0..2
  BY DEF TypeOK, NodeTypes
<1>2. \A b \in Attempts : npay[b] \in 0..2
  BY DEF TypeOK, NodeTypes
<1>3. \A w \in Windows : paid'[w] = IF w \in invoice[a] /\ paid[w] < 2
                                   THEN paid[w] + 1 ELSE paid[w]
  BY DEF NodePays
<1>4. \A b \in Attempts : npay'[b] = IF b = a /\ npay[b] < 2 THEN npay[b] + 1 ELSE npay[b]
  BY DEF NodePays, TypeOK, NodeTypes
<1>5. \A w \in invoice[a] : w \in Windows
  BY DEF TypeOK, AttemptTypes
<1> QED BY <1>1, <1>2, <1>3, <1>4, <1>5 DEF NodeOnlyPays

LEMMA PayingOrNot ==
    ASSUME TypeOK, NEW a \in Attempts, PaymentFails(a)
    PROVE  NodeOnlyPays
BY Paying DEF PaymentFails, nodeVars, NodeOnlyPays

LEMMA IInvMerge ==
    ASSUME IInv, TypeOK', Merge
    PROVE  IInv'
<1>1. ASSUME NEW w \in Windows, PollWindow(w) PROVE IInv'
  <2>1. ChargesApart'
    BY <1>1 DEF IInv, TypeOK, MergeTypes, TaskTypes, BillTypes, AttemptTypes,
       ChargesApart, PollWindow, attemptVars, billVars, LoopIdle, Stages,
       ChargesInFlight
  <2>2. ChargesInFlight'
    BY <1>1 DEF IInv, TypeOK, MergeTypes, TaskTypes, AttemptTypes, ChargesInFlight,
       PollWindow, attemptVars, LoopIdle, Stages, ChargesApart
  <2>3. MergeInOrder'
    BY <1>1 DEF IInv, TypeOK, AttemptTypes, MergeTypes, MergeInOrder, PollWindow,
       attemptVars, LoopIdle, Stages
  <2>4. PaymentsExecuted'
    BY <1>1 DEF IInv, TypeOK, AttemptTypes, NodeTypes, MergeTypes, PaymentsExecuted,
       PollWindow, attemptVars, billVars, nodeVars, BillsOf, LoopIdle, Stages
  <2> QED BY <1>1, <2>1, <2>2, <2>3, <2>4, Kept DEF IInv, PollWindow, attemptVars,
     billVars, matchVars, recVars, handVars, nodeVars
<1>2. CASE MergeBreak
  <2>1. ChargesApart'
    BY <1>2 DEF IInv, TypeOK, MergeTypes, TaskTypes, BillTypes, AttemptTypes,
       ChargesApart, MergeBreak, attemptVars, billVars, taskVars, Stages,
       ChargesInFlight
  <2>2. ChargesInFlight'
    BY <1>2 DEF IInv, TypeOK, MergeTypes, TaskTypes, AttemptTypes, ChargesInFlight,
       MergeBreak, attemptVars, taskVars, Stages, ChargesApart
  <2>3. MergeInOrder'
    BY <1>2 DEF IInv, TypeOK, AttemptTypes, MergeTypes, MergeInOrder, MergeBreak,
       attemptVars, Stages
  <2>4. PaymentsExecuted'
    BY <1>2 DEF IInv, TypeOK, AttemptTypes, NodeTypes, MergeTypes, PaymentsExecuted,
       MergeBreak, attemptVars, billVars, nodeVars, BillsOf, MergeInOrder,
       ChargesApart, BillTypes, Stages
  <2> QED BY <1>2, <2>1, <2>2, <2>3, <2>4, Kept DEF IInv, MergeBreak, attemptVars,
     billVars, taskVars, matchVars, recVars, handVars, nodeVars
<1>3. ASSUME NEW a \in Attempts, MergeOpenAttempt(a) PROVE IInv'
  <2>1. ChargesApart'
    BY <1>3, BoundsAssumption DEF IInv, TypeOK, MergeTypes, TaskTypes, BillTypes,
       AttemptTypes, ChargesApart, MergeOpenAttempt, Stages, ChargesInFlight,
       AttemptsInOrder, Used, Attempts, Windows
  <2>2. ChargesInFlight'
    <3>1. PICK batch \in SUBSET pending : wins' = [wins EXCEPT ![a] = batch]
      BY <1>3 DEF MergeOpenAttempt
    <3>2. batch \cap settled = {} /\ \A w \in batch : w <= lastWindow
      BY <3>1 DEF IInv, ChargesApart
    <3>3. wins'[a] = batch /\ \A b \in Attempts \ {a} : wins'[b] = wins[b]
      BY <3>1 DEF IInv, TypeOK, AttemptTypes
    <3> QED BY <1>3, <3>2, <3>3 DEF IInv, ChargesInFlight, MergeOpenAttempt
  <2>3. AttemptsInOrder'
    BY <1>3, BoundsAssumption DEF IInv, TypeOK, AttemptTypes, AttemptsInOrder,
       MergeOpenAttempt, MergeTypes, Used, MergeInOrder, Stages, Attempts, Windows
  <2>4. MergeInOrder'
    <3>1. PICK batch \in SUBSET pending :
            /\ Cardinality(batch) = MergeCount
            /\ wins' = [wins EXCEPT ![a] = batch]
      BY <1>3 DEF MergeOpenAttempt
    <3>2. batch # {}
      BY <3>1, FS_EmptySet, BoundsAssumption
    <3>3. wins'[a] # {} /\ invoice'[a] = {}
      BY <1>3, <3>1, <3>2 DEF MergeOpenAttempt, IInv, TypeOK, AttemptTypes, AttemptsInOrder,
         Used
    <3>4. mpc' = "mark_settling" /\ mcur' = a
      BY <1>3 DEF MergeOpenAttempt
    <3> QED BY <3>3, <3>4 DEF MergeInOrder
  <2>5. PaymentsExecuted'
    BY <1>3, BoundsAssumption DEF IInv, TypeOK, AttemptTypes, NodeTypes, MergeTypes,
       PaymentsExecuted, MergeOpenAttempt, nodeVars, BillsOf, MergeInOrder,
       ChargesApart, BillTypes, Stages, AttemptsInOrder, Used, Attempts, Windows
  <2> QED BY <1>3, <2>1, <2>2, <2>3, <2>4, <2>5, Kept DEF IInv, MergeOpenAttempt,
     recVars, handVars, nodeVars
<1>4. CASE MergeRelease
  <2>1. ChargesApart'
    BY <1>4 DEF IInv, TypeOK, MergeTypes, TaskTypes, BillTypes, AttemptTypes,
       ChargesApart, MergeRelease, attemptVars, billVars, taskVars, Stages,
       ChargesInFlight
  <2>2. ChargesInFlight'
    BY <1>4 DEF IInv, TypeOK, MergeTypes, TaskTypes, AttemptTypes, ChargesInFlight,
       MergeRelease, attemptVars, taskVars, Stages, ChargesApart
  <2>3. MergeInOrder'
    BY <1>4 DEF IInv, TypeOK, AttemptTypes, MergeTypes, MergeInOrder, MergeRelease,
       attemptVars, Stages
  <2>4. PaymentsExecuted'
    BY <1>4 DEF IInv, TypeOK, AttemptTypes, NodeTypes, MergeTypes, PaymentsExecuted,
       MergeRelease, attemptVars, billVars, nodeVars, BillsOf, MergeInOrder,
       ChargesApart, BillTypes, Stages
  <2>5. SettledIsPaid'
    BY <1>4 DEF IInv, TypeOK, TaskTypes, BillTypes, NodeTypes, SettledIsPaid,
       MergeRelease, MergeTypes, PostRelease, attemptVars, billVars, taskVars,
       nodeVars, PaymentsExecuted, AttemptTypes, MergeInOrder, Stages
  <2> QED BY <1>4, <2>1, <2>2, <2>3, <2>4, <2>5, Kept DEF IInv, MergeRelease,
     attemptVars, billVars, taskVars, recVars, handVars, nodeVars
<1>5. CASE MergeMarkSettling
  <2>1. ChargesApart'
    BY <1>5 DEF IInv, TypeOK, MergeTypes, TaskTypes, BillTypes, AttemptTypes,
       ChargesApart, MergeMarkSettling, billVars, taskVars, Stages, ChargesInFlight
  <2>2. ChargesInFlight'
    BY <1>5 DEF IInv, TypeOK, MergeTypes, TaskTypes, AttemptTypes, ChargesInFlight,
       MergeMarkSettling, taskVars, Stages, ChargesApart
  <2>3. AttemptsInOrder'
    BY <1>5 DEF IInv, TypeOK, AttemptTypes, AttemptsInOrder, MergeMarkSettling,
       MergeTypes, Advance, Moved, NextStage, Used, MergeInOrder, Stages
  <2>4. MergeInOrder'
    BY <1>5 DEF IInv, TypeOK, AttemptTypes, MergeTypes, MergeInOrder,
       MergeMarkSettling
  <2>5. PaymentsExecuted'
    BY <1>5 DEF IInv, TypeOK, AttemptTypes, NodeTypes, MergeTypes, PaymentsExecuted,
       MergeMarkSettling, billVars, nodeVars, BillsOf, MergeInOrder, ChargesApart,
       BillTypes, Stages
  <2>6. SettledIsPaid'
    BY <1>5 DEF IInv, TypeOK, TaskTypes, BillTypes, NodeTypes, SettledIsPaid,
       MergeMarkSettling, MergeTypes, Posted, From, To, billVars, taskVars, nodeVars,
       PaymentsExecuted, AttemptTypes, MergeInOrder
  <2> QED BY <1>5, <2>1, <2>2, <2>3, <2>4, <2>5, <2>6, Kept DEF IInv,
     MergeMarkSettling, billVars, taskVars, matchVars, recVars, handVars, nodeVars
<1>6. CASE MergeMarkSettlingFails
  <2>1. ChargesApart'
    BY <1>6 DEF IInv, TypeOK, MergeTypes, TaskTypes, BillTypes, AttemptTypes,
       ChargesApart, MergeMarkSettlingFails, GiveUp, billVars, taskVars, Stages,
       ChargesInFlight
  <2>2. ChargesInFlight'
    BY <1>6 DEF IInv, TypeOK, MergeTypes, TaskTypes, AttemptTypes, ChargesInFlight,
       MergeMarkSettlingFails, GiveUp, taskVars, Stages, ChargesApart
  <2>3. AttemptsInOrder'
    BY <1>6 DEF IInv, TypeOK, AttemptTypes, AttemptsInOrder, MergeMarkSettlingFails,
       MergeTypes, Fail, Moved, Used, MergeInOrder, Stages
  <2>4. MergeInOrder'
    BY <1>6 DEF IInv, TypeOK, AttemptTypes, MergeTypes, MergeInOrder,
       MergeMarkSettlingFails, GiveUp
  <2>5. PaymentsExecuted'
    BY <1>6 DEF IInv, TypeOK, AttemptTypes, NodeTypes, MergeTypes, PaymentsExecuted,
       MergeMarkSettlingFails, GiveUp, billVars, nodeVars, BillsOf, MergeInOrder,
       ChargesApart, BillTypes, Stages
  <2>6. SettledIsPaid'
    BY <1>6 DEF IInv, TypeOK, TaskTypes, BillTypes, NodeTypes, SettledIsPaid,
       MergeMarkSettlingFails, MergeTypes, PostFailed, From, To, billVars, taskVars,
       nodeVars, PaymentsExecuted, AttemptTypes, MergeInOrder
  <2> QED BY <1>6, <2>1, <2>2, <2>3, <2>4, <2>5, <2>6, Kept DEF IInv,
     MergeMarkSettlingFails, billVars, taskVars, matchVars, recVars, handVars,
     nodeVars
<1>7. CASE MergeCreateInvoice
  <2>1. ChargesApart'
    BY <1>7 DEF IInv, TypeOK, MergeTypes, TaskTypes, BillTypes, AttemptTypes,
       ChargesApart, MergeCreateInvoice, taskVars, Stages, ChargesInFlight
  <2>2. ChargesInFlight'
    BY <1>7 DEF IInv, TypeOK, MergeTypes, TaskTypes, AttemptTypes, ChargesInFlight,
       MergeCreateInvoice, taskVars, Stages, ChargesApart
  <2>3. AttemptsInOrder'
    BY <1>7 DEF IInv, TypeOK, AttemptTypes, AttemptsInOrder, MergeCreateInvoice,
       MergeTypes, Advance, Moved, NextStage, Used, MergeInOrder, Stages
  <2>4. MergeInOrder'
    BY <1>7 DEF IInv, TypeOK, AttemptTypes, MergeTypes, MergeInOrder,
       MergeCreateInvoice
  <2>5. RecoveriesInOrder'
    <3>1. \A b \in Attempts : invoice[b] # {} => invoice'[b] # {}
      BY <1>7 DEF MergeCreateInvoice, IInv, TypeOK, AttemptTypes, MergeTypes, MergeInOrder,
         Stages
    <3>2. payment' = payment /\ UNCHANGED recVars
      BY <1>7 DEF MergeCreateInvoice
    <3> QED BY <3>1, <3>2 DEF recVars, IInv, TypeOK, RecoveryTypes, RecoveriesInOrder
  <2>6. PaymentsExecuted'
    <3>1. invoice[mcur] = {} /\ ~payment[mcur]
      BY <1>7 DEF MergeCreateInvoice, IInv, MergeInOrder, AttemptsInOrder, TypeOK, MergeTypes
    <3>2. BillsOf(mcur) \subseteq wins[mcur]
      BY DEF IInv, TypeOK, MergeTypes, ChargesApart, BillsOf, Attempts
    <3>3. invoice'[mcur] = wins[mcur] /\ \A b \in Attempts \ {mcur} : invoice'[b] = invoice[b]
      BY <1>7 DEF MergeCreateInvoice, IInv, TypeOK, AttemptTypes, MergeTypes
    <3>4. /\ UNCHANGED <<payment, billOwner, paid, npay, wins, mcur>>
          /\ mpc' = "settle_payment"
      BY <1>7 DEF MergeCreateInvoice, nodeVars
    <3> QED BY <3>1, <3>2, <3>3, <3>4 DEF IInv, PaymentsExecuted, BillsOf
  <2>7. SettledIsPaid'
    BY <1>7, BilledPaid DEF IInv, TypeOK, TaskTypes, BillTypes, NodeTypes,
       SettledIsPaid, MergeCreateInvoice, MergeTypes, taskVars, nodeVars,
       PaymentsExecuted, AttemptTypes, MergeInOrder, ChargesApart, BillsOf
  <2> QED BY <1>7, <2>1, <2>2, <2>3, <2>4, <2>5, <2>6, <2>7, Kept DEF IInv,
     MergeCreateInvoice, taskVars, matchVars, recVars, handVars, nodeVars
<1>8. CASE MergeInvoiceBlocked
  <2>1. ChargesApart'
    BY <1>8 DEF IInv, TypeOK, MergeTypes, TaskTypes, BillTypes, AttemptTypes,
       ChargesApart, MergeInvoiceBlocked, Requeue, GiveUp, billVars, Stages,
       ChargesInFlight
  <2>2. ChargesInFlight'
    BY <1>8 DEF IInv, TypeOK, MergeTypes, TaskTypes, AttemptTypes, ChargesInFlight,
       MergeInvoiceBlocked, GiveUp, Stages, ChargesApart
  <2>3. AttemptsInOrder'
    BY <1>8 DEF IInv, TypeOK, AttemptTypes, AttemptsInOrder, MergeInvoiceBlocked,
       MergeTypes, Fail, Moved, Used, MergeInOrder, Stages
  <2>4. MergeInOrder'
    BY <1>8 DEF IInv, TypeOK, AttemptTypes, MergeTypes, MergeInOrder,
       MergeInvoiceBlocked, GiveUp
  <2>5. PaymentsExecuted'
    BY <1>8 DEF IInv, TypeOK, AttemptTypes, NodeTypes, MergeTypes, PaymentsExecuted,
       MergeInvoiceBlocked, GiveUp, billVars, nodeVars, BillsOf, MergeInOrder,
       ChargesApart, BillTypes, Stages
  <2> QED BY <1>8, <2>1, <2>2, <2>3, <2>4, <2>5, Kept DEF IInv, MergeInvoiceBlocked,
     billVars, matchVars, recVars, handVars, nodeVars
<1>9. CASE MergeInvoiceFails
  <2>1. ChargesApart'
    BY <1>9 DEF IInv, TypeOK, MergeTypes, TaskTypes, BillTypes, AttemptTypes,
       ChargesApart, MergeInvoiceFails, Requeue, GiveUp, billVars, Stages,
       ChargesInFlight
  <2>2. ChargesInFlight'
    BY <1>9 DEF IInv, TypeOK, MergeTypes, TaskTypes, AttemptTypes, ChargesInFlight,
       MergeInvoiceFails, GiveUp, Stages, ChargesApart
  <2>3. AttemptsInOrder'
    BY <1>9 DEF IInv, TypeOK, AttemptTypes, AttemptsInOrder, MergeInvoiceFails,
       MergeTypes, Moved, Used, MergeInOrder, Stages
  <2>4. MergeInOrder'
    BY <1>9 DEF IInv, TypeOK, AttemptTypes, MergeTypes, MergeInOrder,
       MergeInvoiceFails, GiveUp
  <2>5. PaymentsExecuted'
    BY <1>9 DEF IInv, TypeOK, AttemptTypes, NodeTypes, MergeTypes, PaymentsExecuted,
       MergeInvoiceFails, GiveUp, billVars, nodeVars, BillsOf, MergeInOrder,
       ChargesApart, BillTypes, Stages
  <2> QED BY <1>9, <2>1, <2>2, <2>3, <2>4, <2>5, Kept DEF IInv, MergeInvoiceFails,
     billVars, matchVars, recVars, handVars, nodeVars
<1>10. CASE MergeSettlePayment
  <2>1. ChargesApart'
    BY <1>10 DEF IInv, TypeOK, MergeTypes, TaskTypes, BillTypes, AttemptTypes,
       ChargesApart, MergeSettlePayment, taskVars, Stages, ChargesInFlight
  <2>2. ChargesInFlight'
    BY <1>10 DEF IInv, TypeOK, MergeTypes, TaskTypes, AttemptTypes, ChargesInFlight,
       MergeSettlePayment, taskVars, Stages, ChargesApart
  <2>3. AttemptsInOrder'
    BY <1>10 DEF IInv, TypeOK, AttemptTypes, AttemptsInOrder, MergeSettlePayment,
       MergeTypes, Advance, Moved, NextStage, Used, MergeInOrder, Stages
  <2>4. MergeInOrder'
    BY <1>10 DEF IInv, TypeOK, AttemptTypes, MergeTypes, MergeInOrder,
       MergeSettlePayment
  <2>5. RecoveriesInOrder'
    BY <1>10 DEF IInv, TypeOK, RecoveryTypes, AttemptTypes, RecoveriesInOrder,
       MergeSettlePayment, MergeTypes, recVars
  <2>6. PaymentsExecuted'
    <3>1. NodeOnlyPays /\ npay'[mcur] >= 1 /\ \A w \in invoice[mcur] : paid'[w] >= 1
      BY <1>10, Paying DEF MergeSettlePayment, IInv, TypeOK, MergeTypes
    <3>2. invoice[mcur] = wins[mcur]
      BY <1>10 DEF MergeSettlePayment, IInv, MergeInOrder
    <3>3. \A b \in Attempts : payment'[b] => payment[b] \/ b = mcur
      BY <1>10 DEF MergeSettlePayment, IInv, TypeOK, AttemptTypes
    <3>4. UNCHANGED <<invoice, billOwner, wins, mcur>>
      BY <1>10 DEF MergeSettlePayment
    <3>5. \A b \in Attempts : invoice[b] \subseteq Windows
      BY DEF IInv, TypeOK, AttemptTypes
    <3> QED BY <3>1, <3>2, <3>3, <3>4, <3>5 DEF IInv, PaymentsExecuted, BillsOf, NodeOnlyPays
  <2>7. SettledIsPaid'
    <3>1. NodeOnlyPays /\ npay'[mcur] >= 1
      BY <1>10, Paying DEF MergeSettlePayment, IInv, TypeOK, MergeTypes
    <3>2. \A w \in Windows : billStatus'[w] = "paid" => billStatus[w] = "paid"
      BY <1>10, BilledPaid DEF MergeSettlePayment, IInv
    <3>3. \A b \in Attempts : payment[b] => payment'[b]
      BY <1>10 DEF MergeSettlePayment, IInv, TypeOK, AttemptTypes
    <3>4. UNCHANGED <<settled, order>>
      BY <1>10 DEF MergeSettlePayment, taskVars
    <3>5. settled \subseteq Windows
      BY DEF IInv, TypeOK, TaskTypes
    <3> QED BY <3>1, <3>2, <3>3, <3>4, <3>5 DEF IInv, SettledIsPaid, NodeOnlyPays
  <2> QED BY <1>10, <2>1, <2>2, <2>3, <2>4, <2>5, <2>6, <2>7, Kept DEF IInv,
     MergeSettlePayment, taskVars, matchVars, recVars, handVars
<1>11. CASE MergePaymentFails
  <2>1. ChargesApart'
    BY <1>11 DEF IInv, TypeOK, MergeTypes, TaskTypes, BillTypes, AttemptTypes,
       ChargesApart, MergePaymentFails, Requeue, GiveUp, attemptVars, billVars,
       Stages, ChargesInFlight
  <2>2. ChargesInFlight'
    BY <1>11 DEF IInv, TypeOK, MergeTypes, TaskTypes, AttemptTypes, ChargesInFlight,
       MergePaymentFails, GiveUp, attemptVars, Stages, ChargesApart
  <2>3. MergeInOrder'
    BY <1>11 DEF IInv, TypeOK, AttemptTypes, MergeTypes, MergeInOrder,
       MergePaymentFails, GiveUp, attemptVars
  <2>4. PaymentsExecuted'
    <3>1. NodeOnlyPays
      BY <1>11, PayingOrNot DEF MergePaymentFails, IInv, TypeOK, MergeTypes
    <3>2. UNCHANGED <<invoice, payment, billOwner>> /\ mpc' = "release"
      BY <1>11 DEF MergePaymentFails, GiveUp, attemptVars, billVars
    <3>3. \A b \in Attempts : invoice[b] \subseteq Windows
      BY DEF IInv, TypeOK, AttemptTypes
    <3> QED BY <3>1, <3>2, <3>3 DEF IInv, PaymentsExecuted, BillsOf, NodeOnlyPays
  <2>5. SettledIsPaid'
    <3>1. NodeOnlyPays
      BY <1>11, PayingOrNot DEF MergePaymentFails, IInv, TypeOK, MergeTypes
    <3>2. UNCHANGED <<settled, order, billStatus, payment>>
      BY <1>11 DEF MergePaymentFails, attemptVars, billVars
    <3>3. settled \subseteq Windows
      BY DEF IInv, TypeOK, TaskTypes
    <3> QED BY <3>1, <3>2, <3>3 DEF IInv, SettledIsPaid, NodeOnlyPays
  <2> QED BY <1>11, <2>1, <2>2, <2>3, <2>4, <2>5, Kept DEF IInv, MergePaymentFails,
     attemptVars, billVars, matchVars, recVars, handVars
<1>12. CASE MergeRecordResult
  <2>1. ChargesApart'
    BY <1>12 DEF IInv, TypeOK, MergeTypes, TaskTypes, BillTypes, AttemptTypes,
       ChargesApart, MergeRecordResult, Stages, ChargesInFlight
  <2>2. ChargesInFlight'
    BY <1>12 DEF IInv, TypeOK, MergeTypes, TaskTypes, AttemptTypes, ChargesInFlight,
       MergeRecordResult, Stages, ChargesApart
  <2>3. AttemptsInOrder'
    BY <1>12 DEF IInv, TypeOK, AttemptTypes, AttemptsInOrder, MergeRecordResult,
       MergeTypes, Advance, Moved, NextStage, Used, MergeInOrder, Stages
  <2>4. MergeInOrder'
    BY <1>12 DEF IInv, TypeOK, AttemptTypes, MergeTypes, MergeInOrder,
       MergeRecordResult
  <2>5. PaymentsExecuted'
    BY <1>12 DEF IInv, TypeOK, AttemptTypes, NodeTypes, MergeTypes, PaymentsExecuted,
       MergeRecordResult, nodeVars, BillsOf, MergeInOrder, ChargesApart, BillTypes,
       Stages
  <2>6. SettledIsPaid'
    <3>1. \A w \in wins[mcur] : paid[w] >= 1
      BY <1>12 DEF MergeRecordResult, IInv, PaymentsExecuted
    <3>2. BillsOf(mcur) \subseteq wins[mcur]
      BY DEF IInv, TypeOK, MergeTypes, ChargesApart, BillsOf, Attempts
    <3>3. \A w \in Windows : billStatus'[w] = "paid" => billStatus[w] = "paid" \/ w \in BillsOf(mcur)
      BY <1>12, BilledPaid DEF MergeRecordResult, IInv, BillsOf
    <3>4. UNCHANGED <<order, payment, paid, npay>> /\ settled' = settled \cup wins[mcur]
      BY <1>12 DEF MergeRecordResult, nodeVars
    <3> QED BY <3>1, <3>2, <3>3, <3>4 DEF IInv, SettledIsPaid
  <2> QED BY <1>12, <2>1, <2>2, <2>3, <2>4, <2>5, <2>6, Kept DEF IInv,
     MergeRecordResult, recVars, handVars, nodeVars
<1>13. CASE MergeRecordFails
  <2>1. ChargesApart'
    BY <1>13 DEF IInv, TypeOK, MergeTypes, TaskTypes, BillTypes, AttemptTypes,
       ChargesApart, MergeRecordFails, Requeue, GiveUp, Stages, ChargesInFlight
  <2>2. ChargesInFlight'
    BY <1>13 DEF IInv, TypeOK, MergeTypes, TaskTypes, AttemptTypes, ChargesInFlight,
       MergeRecordFails, GiveUp, Stages, ChargesApart
  <2>3. AttemptsInOrder'
    BY <1>13 DEF IInv, TypeOK, AttemptTypes, AttemptsInOrder, MergeRecordFails,
       MergeTypes, Fail, Moved, Used, MergeInOrder, Stages
  <2>4. MergeInOrder'
    BY <1>13 DEF IInv, TypeOK, AttemptTypes, MergeTypes, MergeInOrder,
       MergeRecordFails, GiveUp
  <2>5. PaymentsExecuted'
    BY <1>13 DEF IInv, TypeOK, AttemptTypes, NodeTypes, MergeTypes, PaymentsExecuted,
       MergeRecordFails, GiveUp, nodeVars, BillsOf, MergeInOrder, ChargesApart,
       BillTypes, Stages
  <2>6. SettledIsPaid'
    BY <1>13, BilledPaid DEF IInv, TypeOK, TaskTypes, BillTypes, NodeTypes,
       SettledIsPaid, MergeRecordFails, MergeTypes, nodeVars, PaymentsExecuted,
       AttemptTypes, MergeInOrder, ChargesApart, BillsOf
  <2> QED BY <1>13, <2>1, <2>2, <2>3, <2>4, <2>5, <2>6, Kept DEF IInv,
     MergeRecordFails, matchVars, recVars, handVars, nodeVars
<1>14. CASE MergeMarkSettled
  <2>1. ChargesApart'
    BY <1>14 DEF IInv, TypeOK, MergeTypes, TaskTypes, BillTypes, AttemptTypes,
       ChargesApart, MergeMarkSettled, taskVars, Stages, ChargesInFlight
  <2>2. ChargesInFlight'
    BY <1>14 DEF IInv, TypeOK, MergeTypes, TaskTypes, AttemptTypes, ChargesInFlight,
       MergeMarkSettled, taskVars, Stages, ChargesApart
  <2>3. AttemptsInOrder'
    BY <1>14 DEF IInv, TypeOK, AttemptTypes, AttemptsInOrder, MergeMarkSettled,
       MergeTypes, Moved, Used, MergeInOrder, Stages
  <2>4. MergeInOrder'
    BY <1>14 DEF IInv, TypeOK, AttemptTypes, MergeTypes, MergeInOrder,
       MergeMarkSettled
  <2>5. PaymentsExecuted'
    BY <1>14 DEF IInv, TypeOK, AttemptTypes, NodeTypes, MergeTypes, PaymentsExecuted,
       MergeMarkSettled, nodeVars, BillsOf, MergeInOrder, ChargesApart, BillTypes,
       Stages
  <2>6. SettledIsPaid'
    BY <1>14 DEF IInv, TypeOK, TaskTypes, BillTypes, NodeTypes, SettledIsPaid,
       MergeMarkSettled, MergeTypes, Posted, From, To, taskVars, nodeVars,
       PaymentsExecuted, AttemptTypes, MergeInOrder, TradeFinalized
  <2> QED BY <1>14, <2>1, <2>2, <2>3, <2>4, <2>5, <2>6, Kept DEF IInv,
     MergeMarkSettled, taskVars, matchVars, recVars, handVars, nodeVars
<1>15. CASE MergeMarkSettledFails
  <2>1. ChargesApart'
    BY <1>15 DEF IInv, TypeOK, MergeTypes, TaskTypes, BillTypes, AttemptTypes,
       ChargesApart, MergeMarkSettledFails, GiveUp, billVars, taskVars, Stages,
       ChargesInFlight
  <2>2. ChargesInFlight'
    BY <1>15 DEF IInv, TypeOK, MergeTypes, TaskTypes, AttemptTypes, ChargesInFlight,
       MergeMarkSettledFails, GiveUp, taskVars, Stages, ChargesApart
  <2>3. AttemptsInOrder'
    BY <1>15 DEF IInv, TypeOK, AttemptTypes, AttemptsInOrder, MergeMarkSettledFails,
       MergeTypes, Fail, Moved, Used, MergeInOrder, Stages
  <2>4. MergeInOrder'
    BY <1>15 DEF IInv, TypeOK, AttemptTypes, MergeTypes, MergeInOrder,
       MergeMarkSettledFails, GiveUp
  <2>5. PaymentsExecuted'
    BY <1>15 DEF IInv, TypeOK, AttemptTypes, NodeTypes, MergeTypes, PaymentsExecuted,
       MergeMarkSettledFails, GiveUp, billVars, nodeVars, BillsOf, MergeInOrder,
       ChargesApart, BillTypes, Stages
  <2>6. SettledIsPaid'
    BY <1>15 DEF IInv, TypeOK, TaskTypes, BillTypes, NodeTypes, SettledIsPaid,
       MergeMarkSettledFails, MergeTypes, PostFailed, From, To, billVars, taskVars,
       nodeVars, PaymentsExecuted, AttemptTypes, MergeInOrder
  <2> QED BY <1>15, <2>1, <2>2, <2>3, <2>4, <2>5, <2>6, Kept DEF IInv,
     MergeMarkSettledFails, billVars, taskVars, matchVars, recVars, handVars, nodeVars
<1> QED BY <1>1, <1>2, <1>3, <1>4, <1>5, <1>6, <1>7, <1>8, <1>9, <1>10, <1>11, <1>12,
   <1>13, <1>14, <1>15 DEF Merge

LEMMA IInvRecovery ==
    ASSUME IInv, TypeOK', NEW p \in Runners, Recovery(p)
    PROVE  IInv'
<1>1. CASE RecStart(p)
  <2>1. RecoveriesInOrder'
    BY <1>1 DEF IInv, TypeOK, RecoveryTypes, AttemptTypes, RecoveriesInOrder,
       RecStart, attemptVars
  <2> QED BY <1>1, <2>1, Kept DEF IInv, RecStart, attemptVars, billVars, taskVars,
     matchVars, mergeVars, handVars, nodeVars
<1>2. CASE RecOpen(p)
  <2>1. RecoveriesInOrder'
    BY <1>2 DEF IInv, TypeOK, RecoveryTypes, AttemptTypes, RecoveriesInOrder, RecOpen,
       attemptVars
  <2> QED BY <1>2, <2>1, Kept DEF IInv, RecOpen, attemptVars, billVars, taskVars,
     matchVars, mergeVars, handVars, nodeVars
<1>3. ASSUME NEW a \in Attempts, RecSkip(p, a) PROVE IInv'
  <2>1. RecoveriesInOrder'
    BY <1>3 DEF IInv, TypeOK, RecoveryTypes, AttemptTypes, RecoveriesInOrder, RecSkip,
       NextListed, attemptVars
  <2> QED BY <1>3, <2>1, Kept DEF IInv, RecSkip, attemptVars, billVars, taskVars,
     matchVars, mergeVars, handVars, nodeVars
<1>4. ASSUME NEW a \in Attempts, RecExhaust(p, a) PROVE IInv'
  <2>1. AttemptsInOrder'
    BY <1>4 DEF IInv, TypeOK, AttemptTypes, AttemptsInOrder, RecExhaust,
       RecoveryTypes, Used, RecoveriesInOrder, Working
  <2>2. RecoveriesInOrder'
    BY <1>4 DEF IInv, TypeOK, RecoveryTypes, AttemptTypes, RecoveriesInOrder,
       RecExhaust, NextListed
  <2> QED BY <1>4, <2>1, <2>2, Kept DEF IInv, RecExhaust, billVars, taskVars,
     matchVars, mergeVars, handVars, nodeVars
<1>5. ASSUME NEW a \in Attempts, RecPick(p, a) PROVE IInv'
  <2>1. RecoveriesInOrder'
    BY <1>5 DEF IInv, TypeOK, RecoveryTypes, AttemptTypes, RecoveriesInOrder, RecPick,
       attemptVars, AttemptsInOrder, GatewayStages
  <2> QED BY <1>5, <2>1, Kept DEF IInv, RecPick, attemptVars, billVars, taskVars,
     matchVars, mergeVars, handVars, nodeVars
<1>6. CASE RecLoadDone(p)
  <2>1. AttemptsInOrder'
    BY <1>6 DEF IInv, TypeOK, AttemptTypes, AttemptsInOrder, RecLoadDone,
       RecoveryTypes, MovedOn, NextStage, Used, RecoveriesInOrder, Has, GatewayStages,
       Working
  <2>2. RecoveriesInOrder'
    BY <1>6 DEF IInv, TypeOK, RecoveryTypes, AttemptTypes, RecoveriesInOrder,
       RecLoadDone, EndStage
  <2> QED BY <1>6, <2>1, <2>2, Kept DEF IInv, RecLoadDone, billVars, taskVars,
     matchVars, mergeVars, handVars, nodeVars
<1>7. CASE RecLoadMissing(p)
  <2>1. RecoveriesInOrder'
    BY <1>7 DEF IInv, TypeOK, RecoveryTypes, AttemptTypes, RecoveriesInOrder,
       RecLoadMissing, EndStage, attemptVars
  <2> QED BY <1>7, <2>1, Kept DEF IInv, RecLoadMissing, attemptVars, billVars,
     taskVars, matchVars, mergeVars, handVars, nodeVars
<1>8. CASE RecLoad(p)
  <2>1. RecoveriesInOrder'
    BY <1>8 DEF IInv, TypeOK, RecoveryTypes, AttemptTypes, RecoveriesInOrder, RecLoad,
       attemptVars
  <2> QED BY <1>8, <2>1, Kept DEF IInv, RecLoad, attemptVars, billVars, taskVars,
     matchVars, mergeVars, handVars, nodeVars
<1>9. CASE RecMarkSettling(p)
  <2>1. AttemptsInOrder'
    BY <1>9 DEF IInv, TypeOK, AttemptTypes, AttemptsInOrder, RecMarkSettling,
       RecoveryTypes, MovedOn, NextStage, Used, RecoveriesInOrder, Working
  <2>2. RecoveriesInOrder'
    BY <1>9 DEF IInv, TypeOK, RecoveryTypes, AttemptTypes, RecoveriesInOrder,
       RecMarkSettling, EndStage
  <2>3. SettledIsPaid'
    BY <1>9 DEF IInv, TypeOK, TaskTypes, BillTypes, NodeTypes, SettledIsPaid,
       RecMarkSettling, RecoveryTypes, Posted, From, To, billVars, taskVars, nodeVars,
       PaymentsExecuted, AttemptTypes, RecoveriesInOrder, Working
  <2> QED BY <1>9, <2>1, <2>2, <2>3, Kept DEF IInv, RecMarkSettling, billVars,
     taskVars, matchVars, mergeVars, handVars, nodeVars
<1>10. CASE RecMarkFails(p)
  <2>1. RecoveriesInOrder'
    BY <1>10 DEF IInv, TypeOK, RecoveryTypes, AttemptTypes, RecoveriesInOrder,
       RecMarkFails, EndStage, attemptVars
  <2>2. SettledIsPaid'
    BY <1>10 DEF IInv, TypeOK, TaskTypes, BillTypes, NodeTypes, SettledIsPaid,
       RecMarkFails, RecoveryTypes, PostFailed, From, To, attemptVars, billVars,
       taskVars, nodeVars, PaymentsExecuted, AttemptTypes, RecoveriesInOrder, Working
  <2> QED BY <1>10, <2>1, <2>2, Kept DEF IInv, RecMarkFails, attemptVars, billVars,
     taskVars, matchVars, mergeVars, handVars, nodeVars
<1>11. CASE RecCreateInvoice(p)
  <2>1. AttemptsInOrder'
    <3>1. rcur[p] \in Attempts
      BY DEF IInv, TypeOK, RecoveryTypes
    <3>2. BillsOf(rcur[p]) # {} /\ BillsOf(rcur[p]) \subseteq wins[rcur[p]]
      BY <1>11, <3>1 DEF RecCreateInvoice, IInv, ChargesApart, BillsOf, Attempts
    <3>3. invoice' = [invoice EXCEPT ![rcur[p]] = BillsOf(rcur[p])]
      BY <1>11 DEF RecCreateInvoice
    <3>4. /\ UNCHANGED <<wins, payment, recorded>>
          /\ \A b \in Attempts : /\ status'[b] = "committed" <=> status[b] = "committed"
                                 /\ Used(b) => Used(b)'
                                 /\ \/ stage'[b] = stage[b]
                                    \/ stage'[b] = "settle_payment"
      BY <1>11, <3>1 DEF RecCreateInvoice, Working, MovedOn, NextStage, IInv, TypeOK, AttemptTypes, Used
    <3> QED BY <3>1, <3>2, <3>3, <3>4 DEF IInv, TypeOK, AttemptTypes, AttemptsInOrder, Used
  <2>2. MergeInOrder'
    BY <1>11 DEF IInv, TypeOK, AttemptTypes, MergeTypes, MergeInOrder,
       RecCreateInvoice, RecoveryTypes, mergeVars, TasksFree, Stages
  <2>3. RecoveriesInOrder'
    BY <1>11 DEF IInv, TypeOK, RecoveryTypes, AttemptTypes, RecoveriesInOrder,
       RecCreateInvoice, EndStage
  <2>4. PaymentsExecuted'
    <3>1. rcur[p] \in Attempts
      BY DEF IInv, TypeOK, RecoveryTypes
    <3>2. /\ invoice'[rcur[p]] = BillsOf(rcur[p])
          /\ \A b \in Attempts \ {rcur[p]} : invoice'[b] = invoice[b]
      BY <1>11, <3>1 DEF RecCreateInvoice, IInv, TypeOK, AttemptTypes
    <3>3. UNCHANGED <<payment, billOwner, paid, npay, wins, mpc, mcur>>
      BY <1>11 DEF RecCreateInvoice, nodeVars, mergeVars
    <3>4. payment[rcur[p]] => BillsOf(rcur[p]) \subseteq invoice[rcur[p]]
      BY <3>1 DEF IInv, AttemptsInOrder, PaymentsExecuted
    <3> QED BY <3>1, <3>2, <3>3, <3>4 DEF IInv, PaymentsExecuted, BillsOf
  <2>5. SettledIsPaid'
    BY <1>11, BilledPaid DEF IInv, TypeOK, TaskTypes, BillTypes, NodeTypes,
       SettledIsPaid, RecCreateInvoice, RecoveryTypes, taskVars, nodeVars,
       PaymentsExecuted, AttemptTypes, RecoveriesInOrder, Working, ChargesApart,
       BillsOf
  <2> QED BY <1>11, <2>1, <2>2, <2>3, <2>4, <2>5, Kept DEF IInv, RecCreateInvoice,
     taskVars, matchVars, mergeVars, handVars, nodeVars
<1>12. CASE RecInvoiceFails(p)
  <2>1. RecoveriesInOrder'
    BY <1>12 DEF IInv, TypeOK, RecoveryTypes, AttemptTypes, RecoveriesInOrder,
       RecInvoiceFails, EndStage, attemptVars
  <2> QED BY <1>12, <2>1, Kept DEF IInv, RecInvoiceFails, attemptVars, billVars,
     taskVars, matchVars, mergeVars, handVars, nodeVars
<1>13. CASE RecInvoiceConflicts(p)
  <2>1. RecoveriesInOrder'
    BY <1>13 DEF IInv, TypeOK, RecoveryTypes, AttemptTypes, RecoveriesInOrder,
       RecInvoiceConflicts, EndStage, attemptVars
  <2> QED BY <1>13, <2>1, Kept DEF IInv, RecInvoiceConflicts, attemptVars, billVars,
     taskVars, matchVars, mergeVars, handVars, nodeVars
<1>14. CASE RecSettlePayment(p)
  <2>1. AttemptsInOrder'
    BY <1>14 DEF IInv, TypeOK, AttemptTypes, AttemptsInOrder, RecSettlePayment,
       RecoveryTypes, MovedOn, NextStage, Used, RecoveriesInOrder, Working
  <2>2. MergeInOrder'
    BY <1>14 DEF IInv, TypeOK, AttemptTypes, MergeTypes, MergeInOrder,
       RecSettlePayment, RecoveryTypes, mergeVars, TasksFree, Stages
  <2>3. RecoveriesInOrder'
    BY <1>14 DEF IInv, TypeOK, RecoveryTypes, AttemptTypes, RecoveriesInOrder,
       RecSettlePayment, EndStage
  <2>4. PaymentsExecuted'
    <3>1. rcur[p] \in Attempts
      BY DEF IInv, TypeOK, RecoveryTypes
    <3>2. NodeOnlyPays /\ npay'[rcur[p]] >= 1 /\ \A w \in invoice[rcur[p]] : paid'[w] >= 1
      BY <1>14, <3>1, Paying DEF RecSettlePayment, IInv
    <3>3. \A b \in Attempts : payment'[b] => payment[b] \/ b = rcur[p]
      BY <1>14 DEF RecSettlePayment, IInv, TypeOK, AttemptTypes
    <3>4. UNCHANGED <<invoice, billOwner, wins, mpc, mcur>>
      BY <1>14 DEF RecSettlePayment, mergeVars
    <3>5. \A b \in Attempts : invoice[b] \subseteq Windows /\ wins[b] \subseteq Windows
      BY DEF IInv, TypeOK, AttemptTypes
    <3>6. mcur \in Attempts
      BY DEF IInv, TypeOK, MergeTypes
    <3> QED BY <3>2, <3>3, <3>4, <3>5, <3>6 DEF IInv, PaymentsExecuted, BillsOf, NodeOnlyPays
  <2>5. SettledIsPaid'
    <3>1. NodeOnlyPays
      BY <1>14, Paying DEF RecSettlePayment, IInv, TypeOK, RecoveryTypes
    <3>2. \A w \in Windows : billStatus'[w] = "paid" => billStatus[w] = "paid"
      BY <1>14, BilledPaid DEF RecSettlePayment, IInv
    <3>3. \A b \in Attempts : payment[b] => payment'[b]
      BY <1>14 DEF RecSettlePayment, IInv, TypeOK, AttemptTypes
    <3>4. UNCHANGED <<settled, order>>
      BY <1>14 DEF RecSettlePayment, taskVars
    <3>5. settled \subseteq Windows
      BY DEF IInv, TypeOK, TaskTypes
    <3> QED BY <3>1, <3>2, <3>3, <3>4, <3>5 DEF IInv, SettledIsPaid, NodeOnlyPays
  <2> QED BY <1>14, <2>1, <2>2, <2>3, <2>4, <2>5, Kept DEF IInv, RecSettlePayment,
     taskVars, matchVars, mergeVars, handVars
<1>15. CASE RecPaymentFails(p)
  <2>1. RecoveriesInOrder'
    BY <1>15 DEF IInv, TypeOK, RecoveryTypes, AttemptTypes, RecoveriesInOrder,
       RecPaymentFails, EndStage, attemptVars
  <2>2. PaymentsExecuted'
    <3>1. NodeOnlyPays
      BY <1>15, PayingOrNot DEF RecPaymentFails, IInv, TypeOK, RecoveryTypes
    <3>2. UNCHANGED <<invoice, payment, billOwner, wins, mpc, mcur>>
      BY <1>15 DEF RecPaymentFails, attemptVars, billVars, mergeVars
    <3>3. \A b \in Attempts : invoice[b] \subseteq Windows /\ wins[b] \subseteq Windows
      BY DEF IInv, TypeOK, AttemptTypes
    <3>4. mcur \in Attempts
      BY DEF IInv, TypeOK, MergeTypes
    <3> QED BY <3>1, <3>2, <3>3, <3>4 DEF IInv, PaymentsExecuted, BillsOf, NodeOnlyPays
  <2>3. SettledIsPaid'
    <3>1. NodeOnlyPays
      BY <1>15, PayingOrNot DEF RecPaymentFails, IInv, TypeOK, RecoveryTypes
    <3>2. UNCHANGED <<settled, order, billStatus, payment>>
      BY <1>15 DEF RecPaymentFails, attemptVars, billVars, taskVars
    <3>3. settled \subseteq Windows
      BY DEF IInv, TypeOK, TaskTypes
    <3> QED BY <3>1, <3>2, <3>3 DEF IInv, SettledIsPaid, NodeOnlyPays
  <2> QED BY <1>15, <2>1, <2>2, <2>3, Kept DEF IInv, RecPaymentFails, attemptVars,
     billVars, taskVars, matchVars, mergeVars, handVars
<1>16. CASE RecRecordResult(p)
  <2>1. AttemptsInOrder'
    BY <1>16 DEF IInv, TypeOK, AttemptTypes, AttemptsInOrder, RecRecordResult,
       RecoveryTypes, MovedOn, NextStage, Used, RecoveriesInOrder, Working
  <2>2. RecoveriesInOrder'
    BY <1>16 DEF IInv, TypeOK, RecoveryTypes, AttemptTypes, RecoveriesInOrder,
       RecRecordResult, EndStage
  <2>3. SettledIsPaid'
    <3>1. rcur[p] \in Attempts
      BY DEF IInv, TypeOK, RecoveryTypes
    <3>2. \A w \in BillsOf(rcur[p]) : paid[w] >= 1
      BY <1>16, <3>1 DEF RecRecordResult, Working, IInv, RecoveriesInOrder, AttemptsInOrder,
         PaymentsExecuted
    <3>3. \A w \in Windows : billStatus'[w] = "paid" => billStatus[w] = "paid" \/ w \in BillsOf(rcur[p])
      BY <1>16, BilledPaid DEF RecRecordResult, IInv, BillsOf
    <3>4. UNCHANGED <<settled, order, payment, paid, npay>>
      BY <1>16 DEF RecRecordResult, nodeVars, taskVars
    <3> QED BY <3>2, <3>3, <3>4 DEF IInv, SettledIsPaid
  <2> QED BY <1>16, <2>1, <2>2, <2>3, Kept DEF IInv, RecRecordResult, taskVars,
     matchVars, mergeVars, handVars, nodeVars
<1>17. CASE RecRecordFails(p)
  <2>1. RecoveriesInOrder'
    BY <1>17 DEF IInv, TypeOK, RecoveryTypes, AttemptTypes, RecoveriesInOrder,
       RecRecordFails, EndStage, attemptVars
  <2>2. SettledIsPaid'
    BY <1>17, BilledPaid DEF IInv, TypeOK, TaskTypes, BillTypes, NodeTypes,
       SettledIsPaid, RecRecordFails, RecoveryTypes, attemptVars, taskVars, nodeVars,
       PaymentsExecuted, AttemptTypes, RecoveriesInOrder, Working, ChargesApart,
       BillsOf
  <2> QED BY <1>17, <2>1, <2>2, Kept DEF IInv, RecRecordFails, attemptVars, taskVars,
     matchVars, mergeVars, handVars, nodeVars
<1>18. CASE RecMarkSettled(p)
  <2>1. AttemptsInOrder'
    BY <1>18 DEF IInv, TypeOK, AttemptTypes, AttemptsInOrder, RecMarkSettled,
       RecoveryTypes, Used, RecoveriesInOrder, Working
  <2>2. RecoveriesInOrder'
    BY <1>18 DEF IInv, TypeOK, RecoveryTypes, AttemptTypes, RecoveriesInOrder,
       RecMarkSettled, EndStage
  <2>3. SettledIsPaid'
    BY <1>18 DEF IInv, TypeOK, TaskTypes, BillTypes, NodeTypes, SettledIsPaid,
       RecMarkSettled, RecoveryTypes, Posted, From, To, billVars, taskVars, nodeVars,
       PaymentsExecuted, AttemptTypes, RecoveriesInOrder, Working
  <2> QED BY <1>18, <2>1, <2>2, <2>3, Kept DEF IInv, RecMarkSettled, billVars,
     taskVars, matchVars, mergeVars, handVars, nodeVars
<1>19. CASE RecTail(p)
  <2>1. AttemptsInOrder'
    BY <1>19 DEF IInv, TypeOK, AttemptTypes, AttemptsInOrder, RecTail, RecoveryTypes,
       Used, RecoveriesInOrder, Working
  <2>2. RecoveriesInOrder'
    BY <1>19 DEF IInv, TypeOK, RecoveryTypes, AttemptTypes, RecoveriesInOrder,
       RecTail, NextListed
  <2> QED BY <1>19, <2>1, <2>2, Kept DEF IInv, RecTail, billVars, taskVars, matchVars,
     mergeVars, handVars, nodeVars
<1>20. CASE RecTailFailed(p)
  <2>1. AttemptsInOrder'
    BY <1>20 DEF IInv, TypeOK, AttemptTypes, AttemptsInOrder, RecTailFailed,
       RecoveryTypes, Used, RecoveriesInOrder, Working
  <2>2. RecoveriesInOrder'
    BY <1>20 DEF IInv, TypeOK, RecoveryTypes, AttemptTypes, RecoveriesInOrder,
       RecTailFailed, NextListed
  <2> QED BY <1>20, <2>1, <2>2, Kept DEF IInv, RecTailFailed, billVars, taskVars,
     matchVars, mergeVars, handVars, nodeVars
<1> QED BY <1>1, <1>2, <1>3, <1>4, <1>5, <1>6, <1>7, <1>8, <1>9, <1>10, <1>11, <1>12,
   <1>13, <1>14, <1>15, <1>16, <1>17, <1>18, <1>19, <1>20 DEF Recovery

LEMMA IInvAccept ==
    ASSUME IInv, TypeOK', NEW p \in Runners, Accept(p)
    PROVE  IInv'
<1>1. CASE AcceptBind(p)
  <2> QED BY <1>1, Kept DEF IInv, AcceptBind, attemptVars, billVars, taskVars,
     mergeVars, recVars, nodeVars
<1>2. CASE AcceptLock(p)
  <2>1. SettledIsPaid'
    BY <1>2 DEF IInv, TypeOK, TaskTypes, BillTypes, NodeTypes, SettledIsPaid,
       AcceptLock, Posted, From, To, attemptVars, billVars, taskVars, nodeVars,
       PaymentsExecuted, AttemptTypes
  <2> QED BY <1>2, <2>1, Kept DEF IInv, AcceptLock, attemptVars, billVars, taskVars,
     matchVars, mergeVars, recVars, nodeVars
<1>3. CASE AcceptLockFails(p)
  <2>1. SettledIsPaid'
    BY <1>3 DEF IInv, TypeOK, TaskTypes, BillTypes, NodeTypes, SettledIsPaid,
       AcceptLockFails, PostFailed, From, To, attemptVars, billVars, taskVars,
       nodeVars, PaymentsExecuted, AttemptTypes
  <2> QED BY <1>3, <2>1, Kept DEF IInv, AcceptLockFails, attemptVars, billVars,
     taskVars, mergeVars, recVars, nodeVars
<1>4. CASE AcceptRollback(p)
  <2> QED BY <1>4, Kept DEF IInv, AcceptRollback, attemptVars, billVars, taskVars,
     mergeVars, recVars, nodeVars
<1> QED BY <1>1, <1>2, <1>3, <1>4 DEF Accept

LEMMA IInvOther ==
    ASSUME IInv, TypeOK', LoopCleanup \/ Reap \/ Operate
    PROVE  IInv'
<1>1. CASE LoopCleanup
  <2>1. SettledIsPaid'
    BY <1>1 DEF IInv, TypeOK, TaskTypes, BillTypes, NodeTypes, SettledIsPaid,
       LoopCleanup, PostRelease, attemptVars, billVars, taskVars, nodeVars,
       PaymentsExecuted, AttemptTypes
  <2> QED BY <1>1, <2>1, Kept DEF IInv, LoopCleanup, attemptVars, billVars, taskVars,
     mergeVars, recVars, handVars, nodeVars
<1>2. CASE Reap
  <2>1. AttemptsInOrder'
    BY <1>2 DEF IInv, TypeOK, AttemptTypes, AttemptsInOrder, Reap, Used
  <2> QED BY <1>2, <2>1, Kept DEF IInv, Reap, billVars, taskVars, mergeVars, recVars,
     handVars, nodeVars
<1>3. CASE ReleaseBegin
  <2>1. SettledIsPaid'
    BY <1>3 DEF IInv, TypeOK, TaskTypes, BillTypes, NodeTypes, SettledIsPaid,
       ReleaseBegin, PostRelease, attemptVars, billVars, taskVars, nodeVars,
       PaymentsExecuted, AttemptTypes
  <2> QED BY <1>3, <2>1, Kept DEF IInv, ReleaseBegin, attemptVars, billVars, taskVars,
     mergeVars, recVars, nodeVars
<1>4. CASE ReleaseFinish
  <2>1. AttemptsInOrder'
    BY <1>4 DEF IInv, TypeOK, AttemptTypes, AttemptsInOrder, ReleaseFinish,
       SweepAttempts, Used
  <2> QED BY <1>4, <2>1, Kept DEF IInv, ReleaseFinish, billVars, taskVars, mergeVars,
     recVars, nodeVars
<1>5. CASE SwitchMode
  <2>1. AttemptsInOrder'
    BY <1>5 DEF IInv, TypeOK, AttemptTypes, AttemptsInOrder, SwitchMode,
       SweepAttempts, Used
  <2>2. SettledIsPaid'
    BY <1>5 DEF IInv, TypeOK, TaskTypes, BillTypes, NodeTypes, SettledIsPaid,
       SwitchMode, PostRelease, billVars, taskVars, nodeVars, PaymentsExecuted,
       AttemptTypes
  <2> QED BY <1>5, <2>1, <2>2, Kept DEF IInv, SwitchMode, billVars, taskVars,
     mergeVars, recVars, nodeVars
<1>6. CASE SellOrder
  <2>1. SettledIsPaid'
    BY <1>6 DEF IInv, TypeOK, TaskTypes, BillTypes, NodeTypes, SettledIsPaid,
       SellOrder, attemptVars, billVars, taskVars, nodeVars, PaymentsExecuted,
       AttemptTypes
  <2> QED BY <1>6, <2>1, Kept DEF IInv, SellOrder, attemptVars, billVars, taskVars,
     matchVars, mergeVars, recVars, handVars, nodeVars
<1>7. CASE RollbackBills
  <2>1. SettledIsPaid'
    BY <1>7 DEF IInv, TypeOK, TaskTypes, BillTypes, NodeTypes, SettledIsPaid,
       RollbackBills, attemptVars, taskVars, nodeVars, PaymentsExecuted, AttemptTypes
  <2> QED BY <1>7, <2>1, Kept DEF IInv, RollbackBills, attemptVars, taskVars,
     matchVars, mergeVars, recVars, nodeVars
<1>8. ASSUME NEW a \in Attempts, Retry(a) PROVE IInv'
  <2>1. AttemptsInOrder'
    BY <1>8 DEF IInv, TypeOK, AttemptTypes, AttemptsInOrder, Retry, Used
  <2> QED BY <1>8, <2>1, Kept DEF IInv, Retry, billVars, taskVars, matchVars,
     mergeVars, recVars, handVars, nodeVars
<1>9. ASSUME NEW a \in Attempts, MarkFinal(a) PROVE IInv'
  <2>1. AttemptsInOrder'
    BY <1>9 DEF IInv, TypeOK, AttemptTypes, AttemptsInOrder, MarkFinal, Used
  <2> QED BY <1>9, <2>1, Kept DEF IInv, MarkFinal, billVars, taskVars, matchVars,
     mergeVars, recVars, handVars, nodeVars
<1>10. ASSUME NEW a \in Attempts, DisputeRetry(a) PROVE IInv'
  <2>1. AttemptsInOrder'
    BY <1>10 DEF IInv, TypeOK, AttemptTypes, AttemptsInOrder, DisputeRetry, Used
  <2> QED BY <1>10, <2>1, Kept DEF IInv, DisputeRetry, billVars, taskVars, matchVars,
     mergeVars, recVars, handVars, nodeVars
<1>11. ASSUME NEW a \in Attempts, DisputeMarkFinal(a) PROVE IInv'
  <2>1. AttemptsInOrder'
    BY <1>11 DEF IInv, TypeOK, AttemptTypes, AttemptsInOrder, DisputeMarkFinal, Used
  <2> QED BY <1>11, <2>1, Kept DEF IInv, DisputeMarkFinal, billVars, taskVars,
     matchVars, mergeVars, recVars, handVars, nodeVars
<1>12. ASSUME NEW a \in Attempts, DisputeRollback(a) PROVE IInv'
  <2>1. AttemptsInOrder'
    BY <1>12 DEF IInv, TypeOK, AttemptTypes, AttemptsInOrder, DisputeRollback, Used
  <2> QED BY <1>12, <2>1, Kept DEF IInv, DisputeRollback, billVars, taskVars,
     matchVars, mergeVars, recVars, nodeVars
<1> QED BY <1>1, <1>2, <1>3, <1>4, <1>5, <1>6, <1>7, <1>8, <1>9, <1>10, <1>11, <1>12
   DEF Operate

\* Init establishes the invariant and every step keeps it.
THEOREM Invariant == Spec => []IInv
<1>1. Init => IInv
  <2> SUFFICES ASSUME Init PROVE IInv
    OBVIOUS
  <2>1. TypeOK
    BY TypeInit
  <2>2. ChargesApart /\ ChargesInFlight
    BY DEF Init, ChargesApart, ChargesInFlight, Stages
  <2>3. AttemptsInOrder
    BY DEF Init, AttemptsInOrder, Used
  <2>4. MergeInOrder /\ RecoveriesInOrder
    BY DEF Init, MergeInOrder, RecoveriesInOrder, Stages
  <2>5. PaymentsExecuted /\ SettledIsPaid
    BY DEF Init, PaymentsExecuted, SettledIsPaid
  <2> QED BY <2>1, <2>2, <2>3, <2>4, <2>5 DEF IInv
<1>2. IInv /\ TypeOK' /\ [Next]_vars => IInv'
  <2> SUFFICES ASSUME IInv, TypeOK', [Next]_vars PROVE IInv'
    OBVIOUS
  <2>1. CASE UNCHANGED vars
    BY <2>1, Kept DEF IInv, vars, attemptVars, billVars, taskVars, mergeVars, recVars,
       nodeVars
  <2>2. CASE Next
    BY <2>2, IInvMerge, IInvRecovery, IInvAccept, IInvOther DEF Next
  <2> QED BY <2>1, <2>2
<1> QED BY <1>1, <1>2, TypeCorrect, PTL DEF Spec

\* Nothing is settled before it is paid: the windows the task counts as settled, the
\* bills that say paid and the settled sell order have a payment at the node.
THEOREM SettledPaid == Spec => []SettledIsPaid
<1>1. IInv => SettledIsPaid
  BY DEF IInv
<1> QED BY <1>1, Invariant, PTL

\* No charge is queued while it is being settled or after it was.
THEOREM ChargesKeptApart == Spec => []ChargesApart
<1>1. IInv => ChargesApart
  BY DEF IInv
<1> QED BY <1>1, Invariant, PTL

\* An attempt is committed, by the merge or by a recovery, only when its invoice was
\* paid at the node and covers all its bills.
THEOREM CommittedPaid == Spec => []CommittedIsPaid
<1>1. IInv => CommittedIsPaid
  BY DEF IInv, AttemptsInOrder, PaymentsExecuted, CommittedIsPaid
<1> QED BY <1>1, Invariant, PTL

=============================================================================
