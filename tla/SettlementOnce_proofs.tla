------------------------ MODULE SettlementOnce_proofs ------------------------
(***************************************************************************)
(* What the settlement does once, or not at all, for every value of the    *)
(* constants: an attempt is paid once if only the poll loop runs recovery  *)
(* and no answer of the node is lost, a window too if no payment fails; a  *)
(* disputed bill stays disputed until an operator rolls it back; nothing   *)
(* automatic moves an attempt that is finished or whose payment is unknown.*)
(* And the charges go through the queue as Charges says.                   *)
(***************************************************************************)
EXTENDS Settlement_proofs, FiniteSetTheorems

\* With one runner the reading a payment acts on is never stale: nobody else can
\* have paid since.
Single ==
    /\ rpc["ops"] = "idle"
    /\ mpc # "idle" => rpc["loop"] = "idle"
    /\ \A a \in Attempts : npay[a] <= 1 /\ (npay[a] >= 1 => payment[a])
    /\ mpc = "settle_payment" => ~payment[mcur]
    /\ rpc["loop"] = "work" /\ rstage["loop"] = "settle_payment"
           => ~payment[rcur["loop"]]

LEMMA SingleMerge ==
    ASSUME IInv, Single, "recover" \notin Operator, "node_reply_lost" \notin Faults,
           Merge
    PROVE  Single'
<1>1. ASSUME NEW w \in Windows, PollWindow(w) PROVE Single'
  BY <1>1 DEF Single, PollWindow, IInv, TypeOK, RecoveryTypes, LoopIdle, attemptVars,
     recVars, nodeVars
<1>2. CASE MergeBreak
  BY <1>2 DEF Single, MergeBreak, IInv, TypeOK, MergeTypes, MergeInOrder,
     AttemptsInOrder, attemptVars, recVars, nodeVars
<1>3. ASSUME NEW a \in Attempts, MergeOpenAttempt(a) PROVE Single'
  BY <1>3 DEF Single, MergeOpenAttempt, IInv, TypeOK, MergeTypes, MergeInOrder,
     AttemptsInOrder, recVars, nodeVars
<1>4. CASE MergeRelease
  BY <1>4 DEF Single, MergeRelease, IInv, TypeOK, MergeTypes, MergeInOrder,
     AttemptsInOrder, attemptVars, recVars, nodeVars
<1>5. CASE MergeMarkSettling
  BY <1>5 DEF Single, MergeMarkSettling, IInv, TypeOK, MergeTypes, MergeInOrder,
     AttemptsInOrder, recVars, nodeVars
<1>6. CASE MergeMarkSettlingFails
  BY <1>6 DEF Single, MergeMarkSettlingFails, IInv, TypeOK, MergeTypes, GiveUp,
     MergeInOrder, AttemptsInOrder, recVars, nodeVars
<1>7. CASE MergeCreateInvoice
  BY <1>7 DEF Single, MergeCreateInvoice, IInv, TypeOK, MergeTypes, MergeInOrder,
     AttemptsInOrder, recVars, nodeVars
<1>8. CASE MergeInvoiceBlocked
  BY <1>8 DEF Single, MergeInvoiceBlocked, IInv, TypeOK, MergeTypes, GiveUp,
     MergeInOrder, AttemptsInOrder, recVars, nodeVars
<1>9. CASE MergeInvoiceFails
  BY <1>9 DEF Single, MergeInvoiceFails, IInv, TypeOK, MergeTypes, GiveUp,
     MergeInOrder, AttemptsInOrder, recVars, nodeVars
<1>10. CASE MergeSettlePayment
  BY <1>10 DEF Single, MergeSettlePayment, IInv, TypeOK, MergeTypes, MergeInOrder,
     AttemptsInOrder, AttemptTypes, NodePays, NodeTypes, recVars
<1>11. CASE MergePaymentFails
  BY <1>11, "node_reply_lost" \notin Faults DEF Single, MergePaymentFails, IInv,
     TypeOK, MergeTypes, GiveUp, MergeInOrder, AttemptsInOrder, NodePays,
     PaymentFails, NodeTypes, AttemptTypes, nodeVars, attemptVars, recVars
<1>12. CASE MergeRecordResult
  BY <1>12 DEF Single, MergeRecordResult, IInv, TypeOK, MergeTypes, MergeInOrder,
     AttemptsInOrder, recVars, nodeVars
<1>13. CASE MergeRecordFails
  BY <1>13 DEF Single, MergeRecordFails, IInv, TypeOK, MergeTypes, GiveUp,
     MergeInOrder, AttemptsInOrder, recVars, nodeVars
<1>14. CASE MergeMarkSettled
  BY <1>14 DEF Single, MergeMarkSettled, IInv, TypeOK, MergeTypes, MergeInOrder,
     AttemptsInOrder, recVars, nodeVars
<1>15. CASE MergeMarkSettledFails
  BY <1>15 DEF Single, MergeMarkSettledFails, IInv, TypeOK, MergeTypes, GiveUp,
     MergeInOrder, AttemptsInOrder, recVars, nodeVars
<1> QED BY <1>1, <1>2, <1>3, <1>4, <1>5, <1>6, <1>7, <1>8, <1>9, <1>10, <1>11, <1>12,
   <1>13, <1>14, <1>15 DEF Merge

LEMMA SingleRecovery ==
    ASSUME IInv, Single, "recover" \notin Operator, "node_reply_lost" \notin Faults,
           NEW p \in Runners, Recovery(p)
    PROVE  Single'
<1>1. CASE RecStart(p)
  BY <1>1, "recover" \notin Operator DEF Single, RecStart, IInv, TypeOK,
     RecoveryTypes, LoopIdle, Runners, attemptVars, mergeVars, nodeVars
<1>2. CASE RecOpen(p)
  BY <1>2 DEF Single, RecOpen, IInv, TypeOK, RecoveryTypes, Runners, TasksFree,
     attemptVars, mergeVars, nodeVars
<1>3. ASSUME NEW a \in Attempts, RecSkip(p, a) PROVE Single'
  BY <1>3 DEF Single, RecSkip, IInv, TypeOK, RecoveryTypes, NextListed, Runners,
     attemptVars, mergeVars, nodeVars
<1>4. ASSUME NEW a \in Attempts, RecExhaust(p, a) PROVE Single'
  BY <1>4 DEF Single, RecExhaust, IInv, TypeOK, RecoveryTypes, NextListed, Runners,
     mergeVars, nodeVars
<1>5. ASSUME NEW a \in Attempts, RecPick(p, a) PROVE Single'
  BY <1>5 DEF Single, RecPick, IInv, TypeOK, RecoveryTypes, GatewayStages, Runners,
     attemptVars, mergeVars, nodeVars
<1>6. CASE RecLoadDone(p)
  BY <1>6 DEF Single, RecLoadDone, IInv, TypeOK, RecoveryTypes, EndStage, Runners,
     mergeVars, nodeVars
<1>7. CASE RecLoadMissing(p)
  BY <1>7 DEF Single, RecLoadMissing, IInv, TypeOK, RecoveryTypes, EndStage, Runners,
     attemptVars, mergeVars, nodeVars
<1>8. CASE RecLoad(p)
  BY <1>8 DEF Single, RecLoad, IInv, TypeOK, RecoveryTypes, Has, Runners, attemptVars,
     mergeVars, nodeVars
<1>9. CASE RecMarkSettling(p)
  BY <1>9 DEF Single, RecMarkSettling, IInv, TypeOK, RecoveryTypes, EndStage, Runners,
     Working, mergeVars, nodeVars
<1>10. CASE RecMarkFails(p)
  BY <1>10 DEF Single, RecMarkFails, IInv, TypeOK, RecoveryTypes, EndStage, Runners,
     Working, attemptVars, mergeVars, nodeVars
<1>11. CASE RecCreateInvoice(p)
  BY <1>11 DEF Single, RecCreateInvoice, IInv, TypeOK, RecoveryTypes, EndStage,
     Runners, Working, TasksFree, mergeVars, nodeVars
<1>12. CASE RecInvoiceFails(p)
  BY <1>12 DEF Single, RecInvoiceFails, IInv, TypeOK, RecoveryTypes, EndStage,
     Runners, Working, TasksFree, attemptVars, mergeVars, nodeVars
<1>13. CASE RecInvoiceConflicts(p)
  BY <1>13 DEF Single, RecInvoiceConflicts, IInv, TypeOK, RecoveryTypes, EndStage,
     Runners, Working, TasksFree, attemptVars, mergeVars, nodeVars
<1>14. CASE RecSettlePayment(p)
  BY <1>14 DEF Single, RecSettlePayment, IInv, TypeOK, RecoveryTypes, EndStage,
     AttemptTypes, NodePays, NodeTypes, Runners, Working, TasksFree, mergeVars
<1>15. CASE RecPaymentFails(p)
  BY <1>15, "node_reply_lost" \notin Faults DEF Single, RecPaymentFails, IInv, TypeOK,
     RecoveryTypes, EndStage, NodePays, PaymentFails, NodeTypes, AttemptTypes,
     nodeVars, Runners, Working, TasksFree, attemptVars, mergeVars
<1>16. CASE RecRecordResult(p)
  BY <1>16 DEF Single, RecRecordResult, IInv, TypeOK, RecoveryTypes, EndStage,
     Runners, Working, TasksFree, mergeVars, nodeVars
<1>17. CASE RecRecordFails(p)
  BY <1>17 DEF Single, RecRecordFails, IInv, TypeOK, RecoveryTypes, EndStage, Runners,
     Working, TasksFree, attemptVars, mergeVars, nodeVars
<1>18. CASE RecMarkSettled(p)
  BY <1>18 DEF Single, RecMarkSettled, IInv, TypeOK, RecoveryTypes, EndStage, Runners,
     Working, mergeVars, nodeVars
<1>19. CASE RecTail(p)
  BY <1>19 DEF Single, RecTail, IInv, TypeOK, RecoveryTypes, NextListed, Runners,
     mergeVars, nodeVars
<1>20. CASE RecTailFailed(p)
  BY <1>20 DEF Single, RecTailFailed, IInv, TypeOK, RecoveryTypes, NextListed,
     Runners, mergeVars, nodeVars
<1> QED BY <1>1, <1>2, <1>3, <1>4, <1>5, <1>6, <1>7, <1>8, <1>9, <1>10, <1>11, <1>12,
   <1>13, <1>14, <1>15, <1>16, <1>17, <1>18, <1>19, <1>20 DEF Recovery

LEMMA SingleAccept ==
    ASSUME IInv, Single, "recover" \notin Operator, "node_reply_lost" \notin Faults,
           NEW p \in Runners, Accept(p)
    PROVE  Single'
<1>1. CASE AcceptBind(p)
  BY <1>1 DEF Single, AcceptBind, attemptVars, mergeVars, recVars, nodeVars
<1>2. CASE AcceptLock(p)
  BY <1>2 DEF Single, AcceptLock, attemptVars, mergeVars, recVars, nodeVars
<1>3. CASE AcceptLockFails(p)
  BY <1>3 DEF Single, AcceptLockFails, attemptVars, mergeVars, recVars, nodeVars
<1>4. CASE AcceptRollback(p)
  BY <1>4 DEF Single, AcceptRollback, attemptVars, mergeVars, recVars, nodeVars
<1> QED BY <1>1, <1>2, <1>3, <1>4 DEF Accept

LEMMA SingleOther ==
    ASSUME IInv, Single, "recover" \notin Operator, "node_reply_lost" \notin Faults,
           LoopCleanup \/ Reap \/ Operate
    PROVE  Single'
<1>1. CASE LoopCleanup
  BY <1>1 DEF Single, LoopCleanup, attemptVars, mergeVars, recVars, nodeVars
<1>2. CASE Reap
  BY <1>2 DEF Single, Reap, mergeVars, recVars, nodeVars
<1>3. CASE ReleaseBegin
  BY <1>3 DEF Single, ReleaseBegin, attemptVars, mergeVars, recVars, nodeVars
<1>4. CASE ReleaseFinish
  BY <1>4 DEF Single, ReleaseFinish, mergeVars, recVars, nodeVars
<1>5. CASE SwitchMode
  BY <1>5 DEF Single, SwitchMode, mergeVars, recVars, nodeVars
<1>6. CASE SellOrder
  BY <1>6 DEF Single, SellOrder, attemptVars, mergeVars, recVars, nodeVars
<1>7. CASE RollbackBills
  BY <1>7 DEF Single, RollbackBills, attemptVars, mergeVars, recVars, nodeVars
<1>8. ASSUME NEW a \in Attempts, Retry(a) PROVE Single'
  BY <1>8 DEF Single, Retry, mergeVars, recVars, nodeVars
<1>9. ASSUME NEW a \in Attempts, MarkFinal(a) PROVE Single'
  BY <1>9 DEF Single, MarkFinal, mergeVars, recVars, nodeVars
<1>10. ASSUME NEW a \in Attempts, DisputeRetry(a) PROVE Single'
  BY <1>10 DEF Single, DisputeRetry, mergeVars, recVars, nodeVars
<1>11. ASSUME NEW a \in Attempts, DisputeMarkFinal(a) PROVE Single'
  BY <1>11 DEF Single, DisputeMarkFinal, mergeVars, recVars, nodeVars
<1>12. ASSUME NEW a \in Attempts, DisputeRollback(a) PROVE Single'
  BY <1>12 DEF Single, DisputeRollback, mergeVars, recVars, nodeVars
<1> QED BY <1>1, <1>2, <1>3, <1>4, <1>5, <1>6, <1>7, <1>8, <1>9, <1>10, <1>11, <1>12
   DEF Operate

LEMMA SingleHolds ==
    ASSUME "recover" \notin Operator, "node_reply_lost" \notin Faults
    PROVE  Spec => []Single
<1>1. Init => Single
  BY DEF Init, Single, Runners
<1>2. IInv /\ Single /\ [Next]_vars => Single'
  <2> SUFFICES ASSUME IInv, Single, [Next]_vars PROVE Single'
    OBVIOUS
  <2>1. CASE UNCHANGED vars
    BY <2>1 DEF Single, vars, attemptVars, mergeVars, recVars, nodeVars
  <2>2. CASE Next
    BY <2>2, SingleMerge, SingleRecovery, SingleAccept, SingleOther DEF Next
  <2> QED BY <2>1, <2>2
<1> QED BY <1>1, <1>2, Invariant, PTL DEF Spec

\* Executing a recovery stage again does not pay again: of one attempt's invoice the
\* node executes one payment, when recovery has one runner and replies arrive.
THEOREM PaidOnce ==
    ASSUME "recover" \notin Operator, "node_reply_lost" \notin Faults
    PROVE  Spec => []InvoicePaidOnce
<1>1. Single => InvoicePaidOnce
  BY DEF Single, InvoicePaidOnce
<1> QED BY <1>1, SingleHolds, PTL

(***************************************************************************)
(* Windows that are paid for once.                                         *)
(***************************************************************************)

\* Nothing of a payment fails, and recovery has one runner.  A refusal or an error
\* between the invoice and its record puts the windows of an attempt back in the queue
\* while the attempt keeps its bills (run v_window_twice of the project).
Undisturbed ==
    /\ "recover" \notin Operator
    /\ Faults \cap {"guard", "node_error", "node_reply_lost", "record_error"} = {}

\* Then a window is drained by one attempt, whose invoices charge nothing else, and what
\* is paid was paid with the invoice of an attempt that is paid.
Drained ==
    /\ \A a, b \in Attempts : \A w \in wins[a] : w \in wins[b] => a = b
    /\ \A a \in Attempts : wins[a] \cap pending = {} /\ invoice[a] \subseteq wins[a]
PaidApart ==
    \A w \in Windows :
        /\ paid[w] <= 1
        /\ paid[w] >= 1 => \E a \in Attempts : w \in invoice[a] /\ npay[a] >= 1
\* Who creates an invoice in recovery has seen that there was none, and there is none.
NoInvoice ==
    rpc["loop"] = "work" /\ rstage["loop"] = "create_invoice" => invoice[rcur["loop"]] = {}

Split == Drained /\ PaidApart /\ NoInvoice

\* An attempt without an invoice, or without a payment, is not paid.
LEMMA Unpaid ==
    ASSUME IInv, Single, NEW a \in Attempts, invoice[a] = {} \/ ~payment[a]
    PROVE  npay[a] = 0
BY DEF IInv, AttemptsInOrder, Single, TypeOK, NodeTypes

LEMMA SplitKept ==
    ASSUME Split, UNCHANGED <<wins, pending, invoice>>, UNCHANGED nodeVars
    PROVE  Drained' /\ PaidApart'
BY DEF Split, Drained, PaidApart, nodeVars

\* A payment with the invoice of an attempt that was not paid: none of its windows was.
LEMMA SplitPaid ==
    ASSUME IInv, Single, Split, NEW a \in Attempts, ~payment[a], NodePays(a),
           UNCHANGED <<wins, pending, invoice>>
    PROVE  Drained' /\ PaidApart'
<1>1. Drained'
  BY DEF Split, Drained
<1>2. npay[a] = 0 /\ npay'[a] >= 1 /\ \A b \in Attempts \ {a} : npay'[b] = npay[b]
  BY Unpaid DEF NodePays, IInv, TypeOK, NodeTypes
<1>3. \A w \in invoice[a] : w \in Windows => paid[w] = 0
  <2> SUFFICES ASSUME NEW w \in Windows, w \in invoice[a], paid[w] >= 1 PROVE FALSE
    BY DEF IInv, TypeOK, NodeTypes
  <2>1. PICK b \in Attempts : w \in invoice[b] /\ npay[b] >= 1
    BY DEF Split, PaidApart
  <2>2. w \in wins[a] /\ w \in wins[b]
    BY <2>1 DEF Split, Drained
  <2>3. a = b
    BY <2>2 DEF Split, Drained
  <2> QED
    BY <1>2, <2>1, <2>3
<1>4. ASSUME NEW w \in Windows
      PROVE  /\ paid'[w] <= 1
             /\ paid'[w] >= 1 => \E b \in Attempts : w \in invoice'[b] /\ npay'[b] >= 1
  <2>1. CASE w \in invoice[a]
    <3>1. paid'[w] = 1
      BY <1>3, <2>1 DEF NodePays
    <3> QED
      BY <1>2, <2>1, <3>1
  <2>2. CASE w \notin invoice[a]
    <3>1. paid'[w] = paid[w]
      BY <2>2 DEF NodePays
    <3>2. ASSUME paid[w] >= 1
          PROVE  \E b \in Attempts : w \in invoice'[b] /\ npay'[b] >= 1
      <4>1. PICK b \in Attempts : w \in invoice[b] /\ npay[b] >= 1
        BY <3>2 DEF Split, PaidApart
      <4> QED
        BY <1>2, <2>2, <4>1
    <3> QED
      BY <3>1, <3>2 DEF Split, PaidApart
  <2> QED
    BY <2>1, <2>2
<1> QED
  BY <1>1, <1>4 DEF PaidApart

\* The first invoice of an attempt.
LEMMA SplitInvoiced ==
    ASSUME IInv, Single, Split, NEW a \in Attempts, invoice[a] = {}, NEW ws \in SUBSET wins[a],
           invoice' = [invoice EXCEPT ![a] = ws],
           UNCHANGED <<wins, pending>>, UNCHANGED nodeVars
    PROVE  Drained' /\ PaidApart'
<1>1. npay[a] = 0
  BY Unpaid
<1>2. \A b \in Attempts : invoice'[b] = IF b = a THEN ws ELSE invoice[b]
  BY DEF IInv, TypeOK, AttemptTypes
<1>3. Drained'
  BY <1>2 DEF Split, Drained
<1>4. ASSUME NEW w \in Windows, paid[w] >= 1
      PROVE  \E b \in Attempts : w \in invoice'[b] /\ npay[b] >= 1
  <2>1. PICK b \in Attempts : w \in invoice[b] /\ npay[b] >= 1
    BY <1>4 DEF Split, PaidApart
  <2> QED
    BY <1>1, <1>2, <2>1
<1> QED
  BY <1>3, <1>4 DEF Split, PaidApart, nodeVars

LEMMA SplitMerge ==
    ASSUME IInv, Single, Split, Undisturbed, Merge
    PROVE  Split'
<1>1. ASSUME NEW w \in Windows, PollWindow(w) PROVE Split'
  <2>1. /\ w > lastWindow /\ pending' \subseteq pending \cup {w}
        /\ UNCHANGED <<wins, invoice>> /\ UNCHANGED nodeVars /\ UNCHANGED recVars
    BY <1>1 DEF PollWindow, attemptVars
  <2>2. \A a \in Attempts : w \notin wins[a]
    <3>1. lastWindow \in Int /\ w \in Int
      BY DEF IInv, TypeOK, TaskTypes, Windows
    <3> QED
      BY <2>1, <3>1 DEF IInv, ChargesInFlight
  <2> QED
    BY <2>1, <2>2 DEF Split, Drained, PaidApart, NoInvoice, nodeVars, recVars
<1>2. CASE MergeBreak \/ MergeRelease
  BY <1>2, SplitKept DEF MergeBreak, MergeRelease, Split, NoInvoice, attemptVars, taskVars, recVars
<1>3. ASSUME NEW a \in Attempts, MergeOpenAttempt(a) PROVE Split'
  <2>1. PICK batch \in SUBSET pending :
            wins' = [wins EXCEPT ![a] = batch] /\ pending' = pending \ batch
    BY <1>3 DEF MergeOpenAttempt
  <2>2. /\ ~Used(a) /\ mpc = "head"
        /\ UNCHANGED invoice /\ UNCHANGED nodeVars /\ UNCHANGED recVars
    BY <1>3 DEF MergeOpenAttempt
  <2>3. \A b \in Attempts : wins'[b] = IF b = a THEN batch ELSE wins[b]
    BY <2>1 DEF IInv, TypeOK, AttemptTypes
  <2>4. invoice[a] = {}
    BY <2>2 DEF IInv, AttemptsInOrder
  <2>5. Drained'
    BY <2>1, <2>2, <2>3, <2>4 DEF Split, Drained
  <2> QED
    BY <2>2, <2>5 DEF Split, PaidApart, NoInvoice, nodeVars, recVars
<1>4. CASE MergeCreateInvoice
  <2>1. /\ mcur \in Attempts /\ invoice[mcur] = {} /\ mpc = "create_invoice"
        /\ invoice' = [invoice EXCEPT ![mcur] = wins[mcur]]
        /\ UNCHANGED <<wins, pending>> /\ UNCHANGED nodeVars /\ UNCHANGED recVars
    BY <1>4 DEF MergeCreateInvoice, IInv, TypeOK, MergeTypes, MergeInOrder, taskVars
  <2>2. Drained' /\ PaidApart'
    BY <2>1, SplitInvoiced
  <2>3. NoInvoice'
    BY <2>1 DEF Single, NoInvoice, recVars
  <2> QED
    BY <2>2, <2>3 DEF Split
<1>5. CASE MergeSettlePayment
  <2>1. /\ mcur \in Attempts /\ ~payment[mcur] /\ NodePays(mcur)
        /\ UNCHANGED <<wins, pending, invoice>> /\ UNCHANGED recVars
    BY <1>5 DEF MergeSettlePayment, IInv, TypeOK, MergeTypes, Single, taskVars
  <2>2. Drained' /\ PaidApart'
    BY <2>1, SplitPaid
  <2> QED
    BY <2>1, <2>2 DEF Split, NoInvoice, recVars
<1>6. ~(MergeInvoiceBlocked \/ MergeInvoiceFails \/ MergePaymentFails \/ MergeRecordFails)
  BY DEF Undisturbed, MergeInvoiceBlocked, MergeInvoiceFails, MergePaymentFails, PaymentFails,
     MergeRecordFails
<1>7. ASSUME \/ MergeMarkSettling \/ MergeMarkSettlingFails \/ MergeRecordResult
             \/ MergeMarkSettled \/ MergeMarkSettledFails
      PROVE  UNCHANGED <<wins, pending, invoice>> /\ UNCHANGED nodeVars /\ UNCHANGED recVars
  BY <1>7 DEF MergeMarkSettling, MergeMarkSettlingFails, MergeRecordResult, MergeMarkSettled,
     MergeMarkSettledFails, taskVars
<1>8. CASE UNCHANGED <<wins, pending, invoice>> /\ UNCHANGED nodeVars /\ UNCHANGED recVars
  BY <1>8, SplitKept DEF Split, NoInvoice, recVars
<1> QED
  BY <1>1, <1>2, <1>3, <1>4, <1>5, <1>6, <1>7, <1>8 DEF Merge

LEMMA SplitRecovery ==
    ASSUME IInv, Single, Split, Undisturbed, NEW p \in Runners, Recovery(p)
    PROVE  Split'
<1>1. /\ rpc \in [Runners -> {"idle", "open", "pick", "load", "work", "ok", "failed", "replay"}]
      /\ rcur[p] \in Attempts /\ rstage \in [Runners -> Stages] /\ "loop" \in Runners
  BY DEF IInv, TypeOK, RecoveryTypes, Runners
<1>2. p = "loop" \/ RecStart(p)
  BY DEF Runners, Single, Recovery, RecOpen, RecSkip, RecExhaust, RecPick, RecLoadDone,
     RecLoadMissing, RecLoad, RecMarkSettling, RecMarkFails, RecCreateInvoice, RecInvoiceFails,
     RecInvoiceConflicts, RecSettlePayment, RecPaymentFails, RecRecordResult, RecRecordFails,
     RecMarkSettled, RecTail, RecTailFailed, Working
<1>3. CASE RecStart(p)
  <2>1. /\ UNCHANGED <<wins, pending, invoice, rcur, rstage>> /\ UNCHANGED nodeVars
        /\ rpc' = [rpc EXCEPT ![p] = "open"]
    BY <1>3 DEF RecStart, attemptVars, taskVars
  <2>2. NoInvoice'
    BY <1>1, <2>1 DEF Split, NoInvoice
  <2> QED
    BY <2>1, <2>2, SplitKept DEF Split
<1>4. CASE RecCreateInvoice(p) /\ p = "loop"
  <2>1. /\ invoice[rcur[p]] = {} /\ invoice' = [invoice EXCEPT ![rcur[p]] = BillsOf(rcur[p])]
        /\ UNCHANGED <<wins, pending>> /\ UNCHANGED nodeVars /\ rpc'[p] # "work"
    BY <1>1, <1>4 DEF RecCreateInvoice, Working, Split, NoInvoice, EndStage, taskVars
  <2>2. BillsOf(rcur[p]) \in SUBSET wins[rcur[p]]
    <3>1. \A w \in Windows : billOwner[w] = rcur[p] => w \in wins[rcur[p]]
      BY <1>1 DEF IInv, ChargesApart, Attempts
    <3> QED
      BY <3>1 DEF BillsOf
  <2>3. Drained' /\ PaidApart'
    BY <1>1, <2>1, <2>2, SplitInvoiced
  <2> QED
    BY <1>4, <2>1, <2>3 DEF Split, NoInvoice
<1>5. CASE RecSettlePayment(p) /\ p = "loop"
  <2>1. /\ ~payment[rcur[p]] /\ NodePays(rcur[p]) /\ rpc'[p] # "work"
        /\ UNCHANGED <<wins, pending, invoice>>
    BY <1>1, <1>5 DEF RecSettlePayment, Working, Single, EndStage, taskVars
  <2>2. Drained' /\ PaidApart'
    BY <1>1, <2>1, SplitPaid
  <2> QED
    BY <1>5, <2>1, <2>2 DEF Split, NoInvoice
<1>6. CASE RecLoad(p) /\ p = "loop"
  <2>1. /\ UNCHANGED <<wins, pending, invoice, rcur, rstage>> /\ UNCHANGED nodeVars
        /\ ~Has(rcur[p], rstage[p])
    BY <1>6 DEF RecLoad, attemptVars, taskVars
  <2>2. NoInvoice'
    BY <1>6, <2>1 DEF NoInvoice, Has
  <2> QED
    BY <2>1, <2>2, SplitKept DEF Split
<1>7. ASSUME NEW a \in Attempts, RecPick(p, a), p = "loop" PROVE Split'
  <2>1. /\ UNCHANGED <<wins, pending, invoice>> /\ UNCHANGED nodeVars
        /\ rstage'[p] = stage[a]
        /\ rpc'[p] = (IF stage[a] \in GatewayStages THEN "load" ELSE "work")
    BY <1>1, <1>7 DEF RecPick, attemptVars, taskVars
  <2>2. NoInvoice'
    BY <1>7, <2>1 DEF NoInvoice, GatewayStages
  <2> QED
    BY <2>1, <2>2, SplitKept DEF Split
<1>8. CASE RecPaymentFails(p) /\ p = "loop"
  <2>1. UNCHANGED <<wins, pending, invoice>> /\ UNCHANGED nodeVars /\ rpc'[p] # "work"
    BY <1>1, <1>8 DEF RecPaymentFails, PaymentFails, Undisturbed, EndStage, attemptVars, taskVars
  <2> QED
    BY <1>8, <2>1, SplitKept DEF Split, NoInvoice
<1>9. ASSUME p = "loop",
             UNCHANGED <<wins, pending, invoice>>, UNCHANGED nodeVars, rpc'[p] # "work"
      PROVE  Split'
  BY <1>9, SplitKept DEF Split, NoInvoice
<1>10. ASSUME NEW a \in Attempts, RecSkip(p, a) \/ RecExhaust(p, a)
       PROVE  UNCHANGED <<wins, pending, invoice>> /\ UNCHANGED nodeVars /\ rpc'[p] # "work"
  BY <1>1, <1>10 DEF RecSkip, RecExhaust, NextListed, attemptVars, taskVars
<1>11. ASSUME \/ RecOpen(p) \/ RecLoadDone(p) \/ RecLoadMissing(p) \/ RecMarkSettling(p)
              \/ RecMarkFails(p) \/ RecInvoiceFails(p) \/ RecInvoiceConflicts(p)
       PROVE  UNCHANGED <<wins, pending, invoice>> /\ UNCHANGED nodeVars /\ rpc'[p] # "work"
  BY <1>1, <1>11 DEF RecOpen, RecLoadDone, RecLoadMissing, RecMarkSettling, RecMarkFails,
     RecInvoiceFails, RecInvoiceConflicts, EndStage, attemptVars, taskVars
<1>12. ASSUME \/ RecRecordResult(p) \/ RecRecordFails(p) \/ RecMarkSettled(p) \/ RecTail(p)
              \/ RecTailFailed(p)
       PROVE  UNCHANGED <<wins, pending, invoice>> /\ UNCHANGED nodeVars /\ rpc'[p] # "work"
  BY <1>1, <1>12 DEF RecRecordResult, RecRecordFails, RecMarkSettled, RecTail, RecTailFailed,
     EndStage, NextListed, attemptVars, taskVars
<1> QED
  BY <1>2, <1>3, <1>4, <1>5, <1>6, <1>7, <1>8, <1>9, <1>10, <1>11, <1>12 DEF Recovery

LEMMA SplitOther ==
    ASSUME Split, (\E p \in Runners : Accept(p)) \/ LoopCleanup \/ Reap \/ Operate
    PROVE  Split'
<1>1. UNCHANGED <<wins, pending, invoice>> /\ UNCHANGED nodeVars /\ UNCHANGED recVars
  <2>1. ASSUME NEW p \in Runners, Accept(p)
        PROVE  UNCHANGED <<wins, pending, invoice>> /\ UNCHANGED nodeVars /\ UNCHANGED recVars
    BY <2>1 DEF Accept, AcceptBind, AcceptLock, AcceptLockFails, AcceptRollback, attemptVars,
       taskVars
  <2>2. ASSUME LoopCleanup \/ Reap \/ ReleaseBegin \/ ReleaseFinish \/ SwitchMode \/ SellOrder
               \/ RollbackBills
        PROVE  UNCHANGED <<wins, pending, invoice>> /\ UNCHANGED nodeVars /\ UNCHANGED recVars
    BY <2>2 DEF LoopCleanup, Reap, ReleaseBegin, ReleaseFinish, SwitchMode, SellOrder,
       RollbackBills, attemptVars, taskVars
  <2>3. ASSUME NEW a \in Attempts, Retry(a) \/ MarkFinal(a) \/ DisputeRetry(a)
                                       \/ DisputeMarkFinal(a) \/ DisputeRollback(a)
        PROVE  UNCHANGED <<wins, pending, invoice>> /\ UNCHANGED nodeVars /\ UNCHANGED recVars
    BY <2>3 DEF Retry, MarkFinal, DisputeRetry, DisputeMarkFinal, DisputeRollback, taskVars
  <2> QED
    BY <2>1, <2>2, <2>3 DEF Operate
<1> QED
  BY <1>1, SplitKept DEF Split, NoInvoice, recVars

\* The same window is not confirmed twice (docs/state-machine.md:30), if nothing fails
\* between the invoice and its record and only the loop runs recovery: whatever the
\* provider refuses or does not answer, however often tasks stop, matches are released,
\* modes switched, attempts retried and disputed.
THEOREM WindowPaidOnce ==
    ASSUME Undisturbed
    PROVE  Spec => []SingleConfirm
<1>1. Init => Split
  BY DEF Init, Split, Drained, PaidApart, NoInvoice, Runners
<1>2. IInv /\ Single /\ Split /\ [Next]_vars => Split'
  <2> SUFFICES ASSUME IInv, Single, Split, [Next]_vars PROVE Split'
    OBVIOUS
  <2>1. CASE UNCHANGED vars
    BY <2>1, SplitKept DEF Split, NoInvoice, vars, attemptVars, taskVars, recVars
  <2>2. CASE Next
    BY <2>2, SplitMerge, SplitRecovery, SplitOther DEF Next
  <2> QED
    BY <2>1, <2>2
<1>3. Split => SingleConfirm
  BY DEF Split, PaidApart, SingleConfirm
<1>4. Spec => []Single
  BY SingleHolds DEF Undisturbed
<1> QED
  BY <1>1, <1>2, <1>3, <1>4, Invariant, PTL DEF Spec

(***************************************************************************)
(* Disputed bills.                                                         *)
(***************************************************************************)

DisputedKept == \A w \in Windows : billStatus[w] = "disputed" => billStatus'[w] = "disputed"

\* Neither billing an attempt nor finalizing a trade touches a disputed bill.
LEMMA BilledSpares ==
    ASSUME TypeOK, NEW a, NEW w \in Windows, billStatus[w] = "disputed",
           NEW next \in {"invoiced", "payment_submitted", "paid", "disputed"}
    PROVE  Billed(a, next)[w] = "disputed"
<1>1. CASE billOwner[w] = a
  <2>1. w \in BillsOf(a) /\ w <= w
    BY <1>1 DEF BillsOf, Windows
  <2>2. CanBill("disputed", next) => next = "disputed"
    BY DEF CanBill
  <2> QED BY <2>1, <2>2 DEF Billed
<1>2. CASE billOwner[w] # a
  BY <1>2 DEF Billed
<1> QED BY <1>1, <1>2

LEMMA FinalizedSpares ==
    ASSUME NEW w \in Windows, billStatus[w] = "disputed"
    PROVE  TradeFinalized[w] = "disputed"
BY DEF TradeFinalized

LEMMA KeptByMerge ==
    ASSUME TypeOK, "dispute_rollback" \notin Operator, Merge
    PROVE  DisputedKept
<1>1. ASSUME NEW w \in Windows, PollWindow(w) PROVE DisputedKept
  BY <1>1 DEF DisputedKept, PollWindow, billVars
<1>2. CASE MergeBreak
  BY <1>2 DEF DisputedKept, MergeBreak, billVars
<1>3. ASSUME NEW a \in Attempts, MergeOpenAttempt(a) PROVE DisputedKept
  BY <1>3 DEF DisputedKept, MergeOpenAttempt
<1>4. CASE MergeRelease
  BY <1>4 DEF DisputedKept, MergeRelease, billVars
<1>5. CASE MergeMarkSettling
  BY <1>5 DEF DisputedKept, MergeMarkSettling, billVars
<1>6. CASE MergeMarkSettlingFails
  BY <1>6 DEF DisputedKept, MergeMarkSettlingFails, billVars
<1>7. CASE MergeCreateInvoice
  BY <1>7, BilledSpares DEF DisputedKept, MergeCreateInvoice
<1>8. CASE MergeInvoiceBlocked
  BY <1>8 DEF DisputedKept, MergeInvoiceBlocked, billVars
<1>9. CASE MergeInvoiceFails
  BY <1>9 DEF DisputedKept, MergeInvoiceFails, billVars
<1>10. CASE MergeSettlePayment
  BY <1>10, BilledSpares DEF DisputedKept, MergeSettlePayment
<1>11. CASE MergePaymentFails
  BY <1>11 DEF DisputedKept, MergePaymentFails, billVars
<1>12. CASE MergeRecordResult
  BY <1>12, BilledSpares DEF DisputedKept, MergeRecordResult
<1>13. CASE MergeRecordFails
  BY <1>13, BilledSpares DEF DisputedKept, MergeRecordFails
<1>14. CASE MergeMarkSettled
  BY <1>14, FinalizedSpares DEF DisputedKept, MergeMarkSettled
<1>15. CASE MergeMarkSettledFails
  BY <1>15 DEF DisputedKept, MergeMarkSettledFails, billVars
<1> QED BY <1>1, <1>2, <1>3, <1>4, <1>5, <1>6, <1>7, <1>8, <1>9, <1>10, <1>11, <1>12,
   <1>13, <1>14, <1>15 DEF Merge

LEMMA KeptByRecovery ==
    ASSUME TypeOK, "dispute_rollback" \notin Operator, NEW p \in Runners, Recovery(p)
    PROVE  DisputedKept
<1>1. CASE RecStart(p)
  BY <1>1 DEF DisputedKept, RecStart, billVars
<1>2. CASE RecOpen(p)
  BY <1>2 DEF DisputedKept, RecOpen, billVars
<1>3. ASSUME NEW a \in Attempts, RecSkip(p, a) PROVE DisputedKept
  BY <1>3 DEF DisputedKept, RecSkip, billVars
<1>4. ASSUME NEW a \in Attempts, RecExhaust(p, a) PROVE DisputedKept
  BY <1>4 DEF DisputedKept, RecExhaust, billVars
<1>5. ASSUME NEW a \in Attempts, RecPick(p, a) PROVE DisputedKept
  BY <1>5 DEF DisputedKept, RecPick, billVars
<1>6. CASE RecLoadDone(p)
  BY <1>6 DEF DisputedKept, RecLoadDone, billVars
<1>7. CASE RecLoadMissing(p)
  BY <1>7 DEF DisputedKept, RecLoadMissing, billVars
<1>8. CASE RecLoad(p)
  BY <1>8 DEF DisputedKept, RecLoad, billVars
<1>9. CASE RecMarkSettling(p)
  BY <1>9 DEF DisputedKept, RecMarkSettling, billVars
<1>10. CASE RecMarkFails(p)
  BY <1>10 DEF DisputedKept, RecMarkFails, billVars
<1>11. CASE RecCreateInvoice(p)
  BY <1>11, BilledSpares DEF DisputedKept, RecCreateInvoice
<1>12. CASE RecInvoiceFails(p)
  BY <1>12 DEF DisputedKept, RecInvoiceFails, billVars
<1>13. CASE RecInvoiceConflicts(p)
  BY <1>13 DEF DisputedKept, RecInvoiceConflicts, billVars
<1>14. CASE RecSettlePayment(p)
  BY <1>14, BilledSpares DEF DisputedKept, RecSettlePayment
<1>15. CASE RecPaymentFails(p)
  BY <1>15 DEF DisputedKept, RecPaymentFails, billVars
<1>16. CASE RecRecordResult(p)
  BY <1>16, BilledSpares DEF DisputedKept, RecRecordResult
<1>17. CASE RecRecordFails(p)
  BY <1>17, BilledSpares DEF DisputedKept, RecRecordFails
<1>18. CASE RecMarkSettled(p)
  BY <1>18 DEF DisputedKept, RecMarkSettled, billVars
<1>19. CASE RecTail(p)
  BY <1>19 DEF DisputedKept, RecTail, billVars
<1>20. CASE RecTailFailed(p)
  BY <1>20 DEF DisputedKept, RecTailFailed, billVars
<1> QED BY <1>1, <1>2, <1>3, <1>4, <1>5, <1>6, <1>7, <1>8, <1>9, <1>10, <1>11, <1>12,
   <1>13, <1>14, <1>15, <1>16, <1>17, <1>18, <1>19, <1>20 DEF Recovery

LEMMA KeptByAccept ==
    ASSUME TypeOK, "dispute_rollback" \notin Operator, NEW p \in Runners, Accept(p)
    PROVE  DisputedKept
<1>1. CASE AcceptBind(p)
  BY <1>1 DEF DisputedKept, AcceptBind, billVars
<1>2. CASE AcceptLock(p)
  BY <1>2 DEF DisputedKept, AcceptLock, billVars
<1>3. CASE AcceptLockFails(p)
  BY <1>3 DEF DisputedKept, AcceptLockFails, billVars
<1>4. CASE AcceptRollback(p)
  BY <1>4 DEF DisputedKept, AcceptRollback, billVars
<1> QED BY <1>1, <1>2, <1>3, <1>4 DEF Accept

LEMMA KeptByOther ==
    ASSUME TypeOK, "dispute_rollback" \notin Operator, LoopCleanup \/ Reap \/ Operate
    PROVE  DisputedKept
<1>1. CASE LoopCleanup
  BY <1>1 DEF DisputedKept, LoopCleanup, billVars
<1>2. CASE Reap
  BY <1>2 DEF DisputedKept, Reap, billVars
<1>3. CASE ReleaseBegin
  BY <1>3 DEF DisputedKept, ReleaseBegin, billVars
<1>4. CASE ReleaseFinish
  BY <1>4 DEF DisputedKept, ReleaseFinish, billVars
<1>5. CASE SwitchMode
  BY <1>5 DEF DisputedKept, SwitchMode, billVars
<1>6. CASE SellOrder
  BY <1>6 DEF DisputedKept, SellOrder, billVars
<1>7. CASE RollbackBills
  BY <1>7, "dispute_rollback" \notin Operator DEF DisputedKept, RollbackBills
<1>8. ASSUME NEW a \in Attempts, Retry(a) PROVE DisputedKept
  BY <1>8 DEF DisputedKept, Retry, billVars
<1>9. ASSUME NEW a \in Attempts, MarkFinal(a) PROVE DisputedKept
  BY <1>9 DEF DisputedKept, MarkFinal, billVars
<1>10. ASSUME NEW a \in Attempts, DisputeRetry(a) PROVE DisputedKept
  BY <1>10 DEF DisputedKept, DisputeRetry, billVars
<1>11. ASSUME NEW a \in Attempts, DisputeMarkFinal(a) PROVE DisputedKept
  BY <1>11 DEF DisputedKept, DisputeMarkFinal, billVars
<1>12. ASSUME NEW a \in Attempts, DisputeRollback(a) PROVE DisputedKept
  BY <1>12 DEF DisputedKept, DisputeRollback, billVars
<1> QED BY <1>1, <1>2, <1>3, <1>4, <1>5, <1>6, <1>7, <1>8, <1>9, <1>10, <1>11, <1>12
   DEF Operate

\* A disputed bill stays disputed, through every retry of its attempt, every recovery
\* and the finalization of the trade, unless an operator rolls the dispute back.
THEOREM DisputedStays ==
    ASSUME "dispute_rollback" \notin Operator
    PROVE  Spec => DisputedBillBlocked
<1>1. TypeOK /\ [Next]_vars => [DisputedKept]_vars
  <2> SUFFICES ASSUME TypeOK, Next PROVE DisputedKept
    OBVIOUS
  <2> QED BY KeptByMerge, KeptByRecovery, KeptByAccept, KeptByOther DEF Next
<1> QED BY <1>1, TypeCorrect, PTL DEF Spec, DisputedBillBlocked, DisputedKept

(***************************************************************************)
(* Statuses that nothing automatic leaves.                                  *)
(***************************************************************************)

\* No operator runs recovery or writes a status that recovery does not list.  Retries
\* are left to the operator: they make an attempt recoverable.
Unattended == Operator \cap {"recover", "mark_final", "dispute_retry", "dispute_rollback",
                             "dispute_mark_final"} = {}

\* Then the attempt in the hands of the merge, or of a recovery run that goes on for
\* several steps on an old reading, is still one that recovery may touch.
Alone ==
    /\ rpc["ops"] = "idle"
    /\ mpc # "idle" => rpc["loop"] = "idle"
    /\ mpc \in Stages => Recoverable(status[mcur])
    /\ rpc["loop"] = "idle" => rids["loop"] = {}
    /\ \A a \in rids["loop"] : Recoverable(status[a])
    /\ rpc["loop"] \in {"load", "work", "failed", "replay"}
           => Recoverable(status[rcur["loop"]])
    /\ rpc["loop"] \in {"load", "work", "ok", "failed", "replay"}
           => rcur["loop"] \notin rids["loop"]

TerminalKept == \A a \in Attempts : Terminal(status[a]) => status'[a] = status[a]
UnknownKept  == \A a \in Attempts : status[a] = "payment_unknown"
                                        => status'[a] = "payment_unknown"
Left == TerminalKept /\ ("retry" \notin Operator => UnknownKept)

\* A step that writes the status of an attempt which may be touched, and no other.
LEMMA OneLeft ==
    ASSUME NEW b \in Attempts, Recoverable(status[b]),
           \A a \in Attempts \ {b} : status'[a] = status[a]
    PROVE  Left
BY DEF Left, TerminalKept, UnknownKept, Recoverable, Terminal

LEMMA NoneLeft == ASSUME UNCHANGED status PROVE Left
BY DEF Left, TerminalKept, UnknownKept

LEMMA StaysRecoverable == ASSUME NEW s, Recoverable(s) PROVE Recoverable(Moved(s, "in_progress"))
BY DEF Recoverable, Moved

\* A step of the merge that writes the status of its attempt only, and goes on to a
\* stage only if the attempt stays recoverable.
LEMMA AloneStage ==
    ASSUME TypeOK, Alone, mpc \in Stages,
           NEW s, status' = [status EXCEPT ![mcur] = s],
           mpc' \in Stages => Recoverable(s), mpc' # "idle",
           UNCHANGED mcur, UNCHANGED recVars
    PROVE  Alone' /\ Left
<1>1. mcur \in Attempts /\ status \in [Attempts -> Statuses] /\ mpc # "idle"
  BY DEF TypeOK, MergeTypes, AttemptTypes, Stages
<1>2. Left
  BY <1>1, OneLeft DEF Alone
<1>3. Alone'
  BY <1>1 DEF Alone, recVars
<1> QED
  BY <1>2, <1>3

\* A step of the merge that does not write the statuses.
LEMMA AloneQuiet ==
    ASSUME Alone, UNCHANGED status, UNCHANGED recVars,
           mpc' \in Stages => mpc \in Stages /\ mcur' = mcur,
           mpc' # "idle" => mpc # "idle" \/ rpc["loop"] = "idle"
    PROVE  Alone' /\ Left
BY NoneLeft DEF Alone, recVars

LEMMA AloneMerge ==
    ASSUME TypeOK, Alone, Merge
    PROVE  Alone' /\ Left
<1>1. ASSUME NEW w \in Windows, PollWindow(w) PROVE Alone' /\ Left
  BY <1>1, AloneQuiet DEF PollWindow, LoopIdle, attemptVars, Stages
<1>2. CASE MergeBreak \/ MergeRelease
  BY <1>2, AloneQuiet DEF MergeBreak, MergeRelease, attemptVars, Stages
<1>3. ASSUME NEW a \in Attempts, MergeOpenAttempt(a) PROVE Alone' /\ Left
  <2>1. /\ status' = [status EXCEPT ![a] = "started"] /\ status[a] = "none"
        /\ mpc = "head" /\ mpc' = "mark_settling" /\ mcur' = a /\ UNCHANGED recVars
    BY <1>3 DEF MergeOpenAttempt, Used
  <2>2. \A b \in Attempts : status'[b] = IF b = a THEN "started" ELSE status[b]
    BY <2>1 DEF TypeOK, AttemptTypes
  <2>3. Left
    BY <2>1, <2>2 DEF Left, TerminalKept, UnknownKept, Terminal
  <2>4. Alone'
    BY <2>1, <2>2 DEF Alone, Recoverable, recVars
  <2> QED
    BY <2>3, <2>4
<1>4. CASE MergeMarkSettling \/ MergeCreateInvoice \/ MergeSettlePayment \/ MergeRecordResult
  <2>1. /\ mpc \in Stages /\ mpc' # "idle" /\ UNCHANGED mcur /\ UNCHANGED recVars
        /\ status' = [status EXCEPT ![mcur] = Moved(@, "in_progress")]
    BY <1>4 DEF MergeMarkSettling, MergeCreateInvoice, MergeSettlePayment, MergeRecordResult,
       Advance, Stages
  <2>2. status' = [status EXCEPT ![mcur] = Moved(status[mcur], "in_progress")]
    BY <2>1
  <2>3. Recoverable(Moved(status[mcur], "in_progress"))
    BY <2>1, StaysRecoverable DEF Alone
  <2> QED
    BY <2>1, <2>2, <2>3, AloneStage
<1>5. ASSUME NEW to \in Statuses,
             /\ mpc \in Stages /\ UNCHANGED mcur /\ UNCHANGED recVars
             /\ status' = [status EXCEPT ![mcur] = Moved(@, to)]
             /\ mpc' \in {"release", "head"}
      PROVE  Alone' /\ Left
  <2>1. status' = [status EXCEPT ![mcur] = Moved(status[mcur], to)]
    BY <1>5
  <2>2. mpc' \notin Stages /\ mpc' # "idle"
    BY <1>5 DEF Stages
  <2> QED
    BY <1>5, <2>1, <2>2, AloneStage
<1>6. CASE MergeMarkSettlingFails
  BY <1>5, <1>6 DEF MergeMarkSettlingFails, Fail, GiveUp, Stages, Statuses
<1>7. CASE MergeInvoiceBlocked
  BY <1>5, <1>7 DEF MergeInvoiceBlocked, Fail, GiveUp, Stages, Statuses
<1>8. CASE MergeInvoiceFails
  BY <1>5, <1>8 DEF MergeInvoiceFails, GiveUp, Stages, Statuses
<1>9. CASE MergePaymentFails
  BY <1>9, AloneQuiet DEF MergePaymentFails, GiveUp, attemptVars, Stages
<1>10. CASE MergeRecordFails
  BY <1>5, <1>10 DEF MergeRecordFails, Fail, GiveUp, Stages, Statuses
<1>11. CASE MergeMarkSettled
  BY <1>5, <1>11 DEF MergeMarkSettled, Stages, Statuses
<1>12. CASE MergeMarkSettledFails
  BY <1>5, <1>12 DEF MergeMarkSettledFails, Fail, GiveUp, Stages, Statuses
<1> QED
  BY <1>1, <1>2, <1>3, <1>4, <1>6, <1>7, <1>8, <1>9, <1>10, <1>11, <1>12 DEF Merge

LEMMA AloneRecovery ==
    ASSUME TypeOK, Alone, Unattended, NEW p \in Runners, Recovery(p)
    PROVE  Alone' /\ Left
<1>1. p = "loop"
  <2> SUFFICES ASSUME p = "ops" PROVE FALSE
    BY DEF Runners
  <2>1. rpc[p] = "idle" /\ "recover" \notin Operator
    BY DEF Alone, Unattended
  <2>2. ~RecStart(p)
    BY <2>1 DEF RecStart
  <2>3. /\ ~RecOpen(p)
        /\ \A a \in Attempts : ~RecSkip(p, a) /\ ~RecExhaust(p, a) /\ ~RecPick(p, a)
    BY <2>1 DEF RecOpen, RecSkip, RecExhaust, RecPick
  <2>4. ~RecLoadDone(p) /\ ~RecLoadMissing(p) /\ ~RecLoad(p)
    BY <2>1 DEF RecLoadDone, RecLoadMissing, RecLoad
  <2>5. ~RecMarkSettling(p) /\ ~RecMarkFails(p) /\ ~RecMarkSettled(p)
    BY <2>1 DEF RecMarkSettling, RecMarkFails, RecMarkSettled, Working
  <2>6. ~RecCreateInvoice(p) /\ ~RecInvoiceFails(p) /\ ~RecInvoiceConflicts(p)
    BY <2>1 DEF RecCreateInvoice, RecInvoiceFails, RecInvoiceConflicts, Working
  <2>7. ~RecSettlePayment(p) /\ ~RecPaymentFails(p) /\ ~RecRecordResult(p) /\ ~RecRecordFails(p)
    BY <2>1 DEF RecSettlePayment, RecPaymentFails, RecRecordResult, RecRecordFails, Working
  <2>8. ~RecTail(p) /\ ~RecTailFailed(p)
    BY <2>1 DEF RecTail, RecTailFailed
  <2> QED
    BY <2>2, <2>3, <2>4, <2>5, <2>6, <2>7, <2>8 DEF Recovery
<1>2. /\ rpc \in [Runners -> {"idle", "open", "pick", "load", "work", "ok", "failed", "replay"}]
      /\ rids \in [Runners -> SUBSET Attempts] /\ rcur \in [Runners -> Attempts]
      /\ status \in [Attempts -> Statuses] /\ {"loop", "ops"} \subseteq Runners
  BY DEF TypeOK, RecoveryTypes, AttemptTypes, Runners
<1>3. CASE RecStart(p)
  <2>1. /\ mpc = "idle" /\ UNCHANGED <<status, mpc, mcur, rcur>>
        /\ rids' = [rids EXCEPT ![p] = {a \in Attempts : Recoverable(status[a])}]
        /\ rpc' = [rpc EXCEPT ![p] = "open"]
    BY <1>1, <1>3 DEF RecStart, LoopIdle, attemptVars, mergeVars
  <2>2. Alone'
    BY <1>1, <1>2, <2>1 DEF Alone, Stages
  <2> QED
    BY <2>1, <2>2, NoneLeft
<1>4. CASE RecOpen(p)
  <2>1. /\ UNCHANGED <<status, mpc, mcur, rcur, rids>> /\ mpc = "idle"
        /\ rpc' = [rpc EXCEPT ![p] = "pick"] /\ rpc[p] = "open"
    BY <1>4 DEF RecOpen, TasksFree, attemptVars, mergeVars
  <2>2. Alone'
    BY <1>1, <1>2, <2>1 DEF Alone, Stages
  <2> QED
    BY <2>1, <2>2, NoneLeft
<1>5. ASSUME NEW a \in Attempts, RecSkip(p, a) \/ RecExhaust(p, a) \/ RecPick(p, a)
      PROVE  Alone' /\ Left
  <2>1. /\ rpc[p] = "pick" /\ a \in rids[p] /\ Recoverable(status[a]) /\ mpc = "idle"
        /\ UNCHANGED <<mpc, mcur>> /\ rids' = [rids EXCEPT ![p] = rids[p] \ {a}]
    BY <1>1, <1>2, <1>5 DEF RecSkip, RecExhaust, RecPick, Alone, mergeVars
  <2>2. CASE RecPick(p, a)
    <3>1. /\ UNCHANGED status /\ rcur' = [rcur EXCEPT ![p] = a]
          /\ rpc'[p] \in {"load", "work"} /\ rpc'["ops"] = "idle"
      BY <1>1, <1>2, <2>2 DEF RecPick, attemptVars, Alone
    <3>2. Alone'
      BY <1>1, <1>2, <2>1, <3>1 DEF Alone, Stages
    <3> QED
      BY <3>1, <3>2, NoneLeft
  <2>3. CASE RecSkip(p, a) \/ RecExhaust(p, a)
    <3>1. /\ rpc'[p] = (IF rids[p] \ {a} = {} THEN "idle" ELSE "pick") /\ rpc'["ops"] = "idle"
          /\ UNCHANGED rcur
      BY <1>1, <1>2, <2>3 DEF RecSkip, RecExhaust, NextListed, Alone
    <3>2. \A b \in Attempts \ {a} : status'[b] = status[b]
      BY <1>2, <2>3 DEF RecSkip, RecExhaust, attemptVars
    <3>3. Left
      BY <2>1, <3>2, OneLeft
    <3>4. \A b \in rids'["loop"] : Recoverable(status'[b])
      BY <1>1, <1>2, <2>1, <3>2 DEF Alone
    <3>5. Alone'
      BY <1>1, <1>2, <2>1, <3>1, <3>4 DEF Alone, Stages
    <3> QED
      BY <3>3, <3>5
  <2> QED
    BY <1>5, <2>2, <2>3
<1>6. ASSUME rpc[p] \in {"load", "work"}, UNCHANGED <<mpc, mcur, rids, rcur>>, UNCHANGED status,
             NEW result \in {"work", "ok", "failed", "replay"}, rpc' = [rpc EXCEPT ![p] = result]
      PROVE  Alone' /\ Left
  <2>1. Alone'
    BY <1>1, <1>2, <1>6 DEF Alone, Stages
  <2> QED
    BY <1>6, <2>1, NoneLeft
<1>7. CASE RecLoadDone(p) \/ RecLoadMissing(p) \/ RecLoad(p)
  BY <1>6, <1>7 DEF RecLoadDone, RecLoadMissing, RecLoad, EndStage, attemptVars, mergeVars
<1>8. CASE RecMarkSettling(p) \/ RecMarkFails(p)
  BY <1>6, <1>8 DEF RecMarkSettling, RecMarkFails, EndStage, Working, attemptVars, mergeVars
<1>9. CASE RecCreateInvoice(p) \/ RecInvoiceFails(p) \/ RecInvoiceConflicts(p)
  BY <1>6, <1>9 DEF RecCreateInvoice, RecInvoiceFails, RecInvoiceConflicts, EndStage, Working,
     attemptVars, mergeVars
<1>10. CASE RecSettlePayment(p) \/ RecPaymentFails(p) \/ RecRecordResult(p) \/ RecRecordFails(p)
  BY <1>6, <1>10 DEF RecSettlePayment, RecPaymentFails, RecRecordResult, RecRecordFails, EndStage,
     Working, attemptVars, mergeVars
<1>11. ASSUME rpc[p] \in {"work", "ok", "failed", "replay"}, UNCHANGED <<mpc, mcur, rids, rcur>>,
              \A b \in Attempts \ {rcur[p]} : status'[b] = status[b],
              \/ Recoverable(status[rcur[p]])
              \/ UNCHANGED status,
              rpc'[p] = "ok" \/ rpc' = NextListed(p, rids[p]), rpc'["ops"] = "idle"
       PROVE  Alone' /\ Left
  <2>1. Left
    BY <1>2, <1>11, OneLeft, NoneLeft
  <2>2. rcur[p] \notin rids["loop"] /\ mpc = "idle"
    BY <1>1, <1>11 DEF Alone
  <2>3. \A b \in rids["loop"] : Recoverable(status'[b])
    BY <1>2, <1>11, <2>2 DEF Alone
  <2>4. rpc'["loop"] = "ok" \/ rpc'["loop"] = (IF rids["loop"] = {} THEN "idle" ELSE "pick")
    BY <1>1, <1>2, <1>11 DEF NextListed
  <2>5. Alone'
    BY <1>1, <1>11, <2>2, <2>3, <2>4 DEF Alone, Stages
  <2> QED
    BY <2>1, <2>5
<1>12. CASE RecMarkSettled(p)
  <2>1. Recoverable(status[rcur[p]]) /\ rpc[p] = "work"
    BY <1>1, <1>12 DEF RecMarkSettled, Working, Alone
  <2>2. /\ UNCHANGED <<mpc, mcur, rids, rcur>> /\ rpc'[p] = "ok" /\ rpc'["ops"] = "idle"
        /\ \A b \in Attempts \ {rcur[p]} : status'[b] = status[b]
    BY <1>1, <1>2, <1>12 DEF RecMarkSettled, EndStage, mergeVars, Alone
  <2> QED
    BY <1>11, <2>1, <2>2
<1>13. CASE RecTail(p)
  <2>1. /\ UNCHANGED <<mpc, mcur, rids, rcur>> /\ rpc' = NextListed(p, rids[p]) /\ rpc[p] = "ok"
        /\ \A b \in Attempts \ {rcur[p]} : status'[b] = status[b]
    BY <1>2, <1>13 DEF RecTail, mergeVars
  <2>2. Recoverable(status[rcur[p]]) \/ UNCHANGED status
    <3>1. \/ status[rcur[p]] \in {"started", "retryable_failed"}
          \/ status' = [status EXCEPT ![rcur[p]] = status[rcur[p]]]
      BY <1>13 DEF RecTail
    <3> QED
      BY <1>2, <3>1 DEF Recoverable
  <2>3. rpc'["ops"] = "idle"
    BY <1>1, <1>2, <2>1 DEF NextListed, Alone
  <2> QED
    BY <1>11, <2>1, <2>2, <2>3
<1>14. CASE RecTailFailed(p)
  <2>1. /\ UNCHANGED <<mpc, mcur, rids, rcur>> /\ rpc' = NextListed(p, rids[p])
        /\ rpc[p] \in {"failed", "replay"}
        /\ \A b \in Attempts \ {rcur[p]} : status'[b] = status[b]
    BY <1>2, <1>14 DEF RecTailFailed, mergeVars
  <2>2. Recoverable(status[rcur[p]])
    BY <1>1, <2>1 DEF Alone
  <2>3. rpc'["ops"] = "idle"
    BY <1>1, <1>2, <2>1 DEF NextListed, Alone
  <2> QED
    BY <1>11, <2>1, <2>2, <2>3
<1> QED
  BY <1>3, <1>4, <1>5, <1>7, <1>8, <1>9, <1>10, <1>12, <1>13, <1>14 DEF Recovery

\* Handlers that sweep the attempts leave those recoverable that were.
LEMMA AloneSweep ==
    ASSUME TypeOK, Alone, UNCHANGED <<mpc, mcur>>, UNCHANGED recVars,
           \A a \in Attempts : \/ status'[a] = status[a]
                               \/ Recoverable(status[a]) /\ Recoverable(status'[a])
    PROVE  Alone' /\ Left
<1>1. Left
  BY DEF Left, TerminalKept, UnknownKept, Recoverable, Terminal
<1>2. \A a \in Attempts : Recoverable(status[a]) => Recoverable(status'[a])
  OBVIOUS
<1>3. mcur \in Attempts /\ rcur["loop"] \in Attempts /\ rids["loop"] \subseteq Attempts
  BY DEF TypeOK, MergeTypes, RecoveryTypes, Runners
<1>4. Alone'
  BY <1>2, <1>3 DEF Alone, recVars
<1> QED
  BY <1>1, <1>4

LEMMA AloneOther ==
    ASSUME TypeOK, Alone, Unattended, (\E p \in Runners : Accept(p)) \/ LoopCleanup \/ Reap \/ Operate
    PROVE  Alone' /\ Left
<1> DEFINE Swept == \A a \in Attempts : \/ status'[a] = status[a]
                                        \/ Recoverable(status[a]) /\ Recoverable(status'[a])
<1>0. SweepAttempts => Swept
  BY DEF SweepAttempts, Recoverable
<1>1. ASSUME NEW p \in Runners, Accept(p)
      PROVE  UNCHANGED <<status, mpc, mcur>> /\ UNCHANGED recVars
  BY <1>1 DEF Accept, AcceptBind, AcceptLock, AcceptLockFails, AcceptRollback, attemptVars,
     mergeVars
<1>2. ASSUME LoopCleanup \/ ReleaseBegin \/ SellOrder \/ RollbackBills
      PROVE  UNCHANGED <<status, mpc, mcur>> /\ UNCHANGED recVars
  BY <1>2 DEF LoopCleanup, ReleaseBegin, SellOrder, RollbackBills, attemptVars, mergeVars
<1>3. ASSUME UNCHANGED <<status, mpc, mcur>> /\ UNCHANGED recVars
      PROVE  Alone' /\ Left
  BY <1>3, AloneSweep
<1>4. CASE Reap
  <2>1. Swept /\ UNCHANGED <<mpc, mcur>> /\ UNCHANGED recVars
    BY <1>4 DEF Reap, Recoverable, mergeVars
  <2> QED
    BY <2>1, AloneSweep
<1>5. CASE ReleaseFinish
  <2>1. (SweepAttempts \/ UNCHANGED status) /\ UNCHANGED <<mpc, mcur>> /\ UNCHANGED recVars
    BY <1>5 DEF ReleaseFinish, mergeVars
  <2> HIDE DEF Swept
  <2>2. Swept
    BY <1>0, <2>1 DEF Swept
  <2> QED
    BY <2>1, <2>2, AloneSweep DEF Swept
<1>6. CASE SwitchMode
  <2>1. (SweepAttempts \/ UNCHANGED status) /\ UNCHANGED <<mpc, mcur>> /\ UNCHANGED recVars
    BY <1>6 DEF SwitchMode, mergeVars
  <2> HIDE DEF Swept
  <2>2. Swept
    BY <1>0, <2>1 DEF Swept
  <2> QED
    BY <2>1, <2>2, AloneSweep DEF Swept
<1>7. ASSUME NEW b \in Attempts, Retry(b) PROVE Alone' /\ Left
  <2>1. /\ status[b] \in {"retryable_failed", "payment_unknown"} /\ "retry" \in Operator
        /\ \A a \in Attempts : status'[a] = IF a = b THEN "in_progress" ELSE status[a]
        /\ UNCHANGED <<mpc, mcur>> /\ UNCHANGED recVars
    BY <1>7 DEF Retry, mergeVars, TypeOK, AttemptTypes
  <2>2. Left
    BY <2>1 DEF Left, TerminalKept, Terminal
  <2>3. \A a \in Attempts : Recoverable(status[a]) => Recoverable(status'[a])
    BY <2>1 DEF Recoverable
  <2>4. mcur \in Attempts /\ rcur["loop"] \in Attempts /\ rids["loop"] \subseteq Attempts
    BY DEF TypeOK, MergeTypes, RecoveryTypes, Runners
  <2>5. Alone'
    BY <2>1, <2>3, <2>4 DEF Alone, recVars
  <2> QED
    BY <2>2, <2>5
<1>8. ASSUME NEW b \in Attempts, MarkFinal(b) \/ DisputeRetry(b) \/ DisputeMarkFinal(b)
                                     \/ DisputeRollback(b)
      PROVE  FALSE
  BY <1>8 DEF Unattended, MarkFinal, DisputeRetry, DisputeMarkFinal, DisputeRollback
<1> QED
  BY <1>1, <1>2, <1>3, <1>4, <1>5, <1>6, <1>7, <1>8 DEF Operate

LEMMA AloneHolds ==
    ASSUME Unattended
    PROVE  Spec => [](TypeOK /\ Alone)
<1>1. Init => Alone
  BY DEF Init, Alone, Runners, Stages
<1>2. TypeOK /\ Alone /\ [Next]_vars => Alone'
  <2> SUFFICES ASSUME TypeOK, Alone, [Next]_vars PROVE Alone'
    OBVIOUS
  <2>1. CASE UNCHANGED vars
    BY <2>1 DEF Alone, vars, attemptVars, mergeVars, recVars
  <2>2. CASE Next
    BY <2>2, AloneMerge, AloneRecovery, AloneOther DEF Next
  <2> QED
    BY <2>1, <2>2
<1> QED
  BY <1>1, <1>2, TypeCorrect, PTL DEF Spec

LEMMA LeftBehind ==
    ASSUME Unattended
    PROVE  TypeOK /\ Alone /\ [Next]_vars => [Left]_vars
<1> SUFFICES ASSUME TypeOK, Alone, Next PROVE Left
  OBVIOUS
<1> QED
  BY AloneMerge, AloneRecovery, AloneOther DEF Next

\* An attempt that is committed or failed for good stays so: no merge, recovery, reaper,
\* mode switch or retry that read it before overwrites it (docs/recovery-model.md:8).
THEOREM TerminalLeft ==
    ASSUME Unattended
    PROVE  Spec => TerminalStays
<1>1. TypeOK /\ Alone /\ [Next]_vars
          => [\A a \in Attempts : Terminal(status[a]) => status'[a] = status[a]]_vars
  BY LeftBehind DEF Left, TerminalKept
<1> QED
  BY <1>1, AloneHolds, PTL DEF Spec, TerminalStays

\* Nothing automatic moves an attempt whose payment is unknown: only an operator's retry
\* does (docs/recovery-model.md:6-7).
THEOREM UnknownLeft ==
    ASSUME Unattended, "retry" \notin Operator
    PROVE  Spec => UnknownStays
<1>1. TypeOK /\ Alone /\ [Next]_vars
          => [\A a \in Attempts : status[a] = "payment_unknown" =>
                                      status'[a] = "payment_unknown"]_vars
  BY LeftBehind DEF Left, UnknownKept
<1> QED
  BY <1>1, AloneHolds, PTL DEF Spec, UnknownStays

(***************************************************************************)
(* The queue.                                                              *)
(***************************************************************************)

\* The windows in flight are a whole batch, older than all that are queued.
Batched ==
    mpc \in Stages \ {"mark_settled"} =>
        /\ Cardinality(wins[mcur]) = MergeCount
        /\ \A w \in wins[mcur], v \in pending : w < v

\* The two modules count with one definition.
LEMMA SameCardinality == ASSUME NEW S PROVE Queue!Cardinality(S) = Cardinality(S)
BY DEF Queue!Cardinality, Cardinality

LEMMA WindowSets ==
    ASSUME NEW ws \in SUBSET Windows
    PROVE  IsFiniteSet(ws) /\ Cardinality(ws) \in Nat /\ \A w \in ws : w \in Int
<1>1. IsFiniteSet(Windows) /\ \A w \in Windows : w \in Int
  BY BoundsAssumption, FS_Interval DEF Windows
<1> QED
  BY <1>1, FS_Subset, FS_CardinalityType

\* Such a batch is the one that the abstract queue takes.
LEMMA FrontIsBatch ==
    ASSUME NEW front \in SUBSET Windows, NEW rest \in SUBSET Windows,
           Cardinality(front) = MergeCount, \A w \in front, v \in rest : w < v
    PROVE  /\ Queue!Batch(rest \cup front) = front
           /\ Queue!Cardinality(rest \cup front) >= MergeCount
<1> DEFINE queue == rest \cup front
           Before(w) == {u \in queue : u < w}
<1>1. \A w \in queue : w \in Int
  BY WindowSets
<1>2. ASSUME NEW w \in front PROVE Cardinality(Before(w)) < MergeCount
  <2>1. Before(w) \subseteq front \ {w} /\ w \in front
    BY <1>1
  <2>2. IsFiniteSet(front \ {w}) /\ Cardinality(front \ {w}) = MergeCount - 1
    BY WindowSets, FS_RemoveElement
  <2>3. Cardinality(Before(w)) <= MergeCount - 1
    <3> HIDE DEF Before
    <3> QED
      BY <2>1, <2>2, FS_Subset
  <2>4. Cardinality(Before(w)) \in Nat
    BY WindowSets
  <2> QED
    BY <2>3, <2>4, BoundsAssumption
<1>3. ASSUME NEW v \in rest PROVE ~(Cardinality(Before(v)) < MergeCount)
  <2>1. front \subseteq Before(v)
    OBVIOUS
  <2>2. IsFiniteSet(Before(v)) /\ Cardinality(Before(v)) \in Nat
    BY WindowSets
  <2>3. MergeCount <= Cardinality(Before(v))
    <3> HIDE DEF Before
    <3> QED
      BY <2>1, <2>2, FS_Subset
  <2> QED
    BY <2>2, <2>3, BoundsAssumption
<1>4. Queue!Batch(queue) = {w \in queue : Cardinality(Before(w)) < MergeCount}
  BY SameCardinality DEF Queue!Batch
<1>5. Queue!Batch(queue) = front
  <2> HIDE DEF Before
  <2> QED
    BY <1>2, <1>3, <1>4
<1>6. Cardinality(queue) >= MergeCount
  <2>1. IsFiniteSet(queue) /\ front \in SUBSET queue /\ Cardinality(queue) \in Nat
    BY WindowSets
  <2> HIDE DEF queue
  <2> QED
    BY <2>1, FS_Subset, BoundsAssumption
<1> QED
  BY <1>5, <1>6, SameCardinality

\* A step that leaves the merge and what it drained alone.
LEMMA QueueKept ==
    ASSUME Batched, UNCHANGED <<wins, pending, settled, mpc, mcur>>
    PROVE  Batched' /\ UNCHANGED Queue!vars
BY DEF Batched, Queue!vars, InFlight, Taken

\* One that takes the merge on, with its windows in flight before and after, or neither.
LEMMA QueuePassed ==
    ASSUME Batched, UNCHANGED <<wins, pending, settled, mcur>>,
           mpc' \in Stages \ {"mark_settled"} <=> mpc \in Stages \ {"mark_settled"}
    PROVE  Batched' /\ UNCHANGED Queue!vars
BY DEF Batched, Queue!vars, InFlight, Taken

\* One that queues the windows again.
LEMMA QueueAgain ==
    ASSUME Batched, Requeue, UNCHANGED <<wins, settled, mcur>>,
           mpc \in Stages \ {"mark_settled"}, mpc' = "release"
    PROVE  Batched' /\ UNCHANGED Queue!vars
<1>1. InFlight = wins[mcur] /\ InFlight' = {} /\ pending' \cup InFlight' = pending \cup InFlight
  BY DEF InFlight, Requeue, Stages
<1>2. Batched'
  BY DEF Batched, Stages
<1> QED
  BY <1>1, <1>2 DEF Queue!vars, Taken

LEMMA QueueMerge ==
    ASSUME IInv, Batched, Merge
    PROVE  Batched' /\ [Queue!Next]_Queue!vars
<1> DEFINE flying == mpc \in Stages \ {"mark_settled"}
           queue == pending \cup InFlight
<1>0. /\ mcur \in Attempts /\ wins \in [Attempts -> SUBSET Windows]
      /\ pending \in SUBSET Windows /\ settled \in SUBSET Windows
      /\ wins[mcur] \in SUBSET Windows
  BY DEF IInv, TypeOK, MergeTypes, AttemptTypes, TaskTypes
<1>1. ASSUME NEW w \in Windows, PollWindow(w)
      PROVE  Batched' /\ [Queue!Next]_Queue!vars
  <2>1. /\ InFlight = {} /\ InFlight' = {} /\ Batched' /\ w > lastWindow
        /\ UNCHANGED <<wins, settled>>
    BY <1>1 DEF PollWindow, LoopIdle, InFlight, Batched, Stages, attemptVars
  <2>2. \A v \in pending \cup settled \cup Taken : v <= lastWindow
    BY DEF IInv, ChargesApart, ChargesInFlight, Taken
  <2>3. lastWindow \in Int /\ w \in Int /\ \A v \in pending \cup settled \cup Taken : v \in Int
    BY <1>0, BoundsAssumption DEF IInv, TypeOK, TaskTypes, Windows, Taken
  <2>4. \A v \in pending \cup settled \cup Taken : v < w
    BY <2>1, <2>2, <2>3
  <2>5. pending' = pending \cup {w}
    BY <1>1, <2>3, <2>4 DEF PollWindow
  <2>6. pending \cup {w} \in Queue!Queues
    BY <2>1, <2>4 DEF Queue!Queues, Queue!Known
  <2>7. Queue!Wait(pending \cup {w})
    <3>1. Taken' = Taken /\ w \notin Taken
      BY <2>1, <2>3, <2>4 DEF Taken
    <3> QED
      BY <2>1, <2>5, <3>1 DEF Queue!Wait
  <2> QED
    BY <2>1, <2>6, <2>7 DEF Queue!Next
<1>2. CASE MergeBreak
  BY <1>2, QueuePassed DEF MergeBreak, attemptVars, taskVars, Stages
<1>3. ASSUME NEW a \in Attempts, MergeOpenAttempt(a)
      PROVE  Batched' /\ [Queue!Next]_Queue!vars
  <2>1. PICK batch \in SUBSET pending :
            /\ Cardinality(batch) = MergeCount /\ FromFront(batch)
            /\ wins' = [wins EXCEPT ![a] = batch] /\ pending' = pending \ batch
    BY <1>3 DEF MergeOpenAttempt
  <2>2. /\ mpc = "head" /\ mpc' = "mark_settling" /\ mcur' = a /\ settled' = settled
        /\ wins[a] = {}
    BY <1>3 DEF MergeOpenAttempt, IInv, AttemptsInOrder
  <2>3. InFlight = {} /\ InFlight' = batch
    BY <1>0, <2>1, <2>2 DEF InFlight, Stages
  <2>4. Batched'
    BY <1>0, <2>1, <2>2 DEF Batched, FromFront
  <2>5. Taken' = Taken \cup batch
    BY <1>0, <2>1, <2>2 DEF Taken
  <2> QED
    BY <2>1, <2>2, <2>3, <2>4, <2>5 DEF Queue!vars
<1>4. CASE MergeRelease
  BY <1>4, QueuePassed DEF MergeRelease, attemptVars, taskVars, Stages
<1>5. CASE MergeMarkSettling
  BY <1>5, QueuePassed DEF MergeMarkSettling, taskVars, Stages
<1>6. ASSUME flying
      PROVE  /\ InFlight = wins[mcur] /\ wins[mcur] \subseteq Taken
             /\ wins[mcur] \cap settled = {} /\ wins[mcur] \cap pending = {}
             /\ queue \in Queue!Queues
             /\ Queue!Batch(queue) = wins[mcur] /\ Queue!Cardinality(queue) >= MergeCount
  <2>1. InFlight = wins[mcur] /\ wins[mcur] \subseteq Taken
    BY <1>0, <1>6 DEF InFlight, Taken
  <2>2. wins[mcur] \cap settled = {} /\ wins[mcur] \cap pending = {}
    BY <1>6 DEF IInv, ChargesApart, ChargesInFlight
  <2>3. queue \in Queue!Queues
    BY DEF Queue!Queues
  <2>4. Queue!Batch(queue) = wins[mcur] /\ Queue!Cardinality(queue) >= MergeCount
    BY <1>0, <1>6, <2>1, FrontIsBatch DEF Batched
  <2> QED
    BY <2>1, <2>2, <2>3, <2>4
<1>7. CASE MergeMarkSettlingFails
  <2>1. /\ flying /\ mpc' = "release" /\ UNCHANGED <<wins, pending, settled, mcur>>
    BY <1>7 DEF MergeMarkSettlingFails, GiveUp, taskVars, Stages
  <2>2. Batched' /\ InFlight' = {} /\ Taken' = Taken
    BY <2>1 DEF Batched, InFlight, Taken, Stages
  <2>3. Queue!Leave(queue)
    BY <1>6, <2>1, <2>2 DEF Queue!Leave
  <2> QED
    BY <1>6, <2>1, <2>2, <2>3 DEF Queue!Next
<1>8. CASE MergeCreateInvoice
  BY <1>8, QueuePassed DEF MergeCreateInvoice, taskVars, Stages
<1>9. CASE MergeInvoiceBlocked \/ MergeInvoiceFails
  BY <1>9, QueueAgain DEF MergeInvoiceBlocked, MergeInvoiceFails, GiveUp, Stages
<1>10. CASE MergeSettlePayment
  BY <1>10, QueuePassed DEF MergeSettlePayment, taskVars, Stages
<1>11. CASE MergePaymentFails \/ MergeRecordFails
  BY <1>11, QueueAgain DEF MergePaymentFails, MergeRecordFails, GiveUp, Stages, attemptVars
<1>12. CASE MergeRecordResult
  <2>1. /\ flying /\ mpc' = "mark_settled" /\ settled' = settled \cup wins[mcur]
        /\ UNCHANGED <<wins, pending, mcur>>
    BY <1>12 DEF MergeRecordResult, Stages
  <2>2. Batched' /\ InFlight' = {} /\ Taken' = Taken
    BY <2>1 DEF Batched, InFlight, Taken
  <2>3. Queue!Settle(queue)
    BY <1>6, <2>1, <2>2 DEF Queue!Settle
  <2> QED
    BY <1>6, <2>1, <2>2, <2>3 DEF Queue!Next
<1>13. CASE MergeMarkSettled \/ MergeMarkSettledFails
  BY <1>13, QueuePassed DEF MergeMarkSettled, MergeMarkSettledFails, GiveUp, taskVars, Stages
<1> QED
  BY <1>1, <1>2, <1>3, <1>4, <1>5, <1>7, <1>8, <1>9, <1>10, <1>11, <1>12, <1>13 DEF Merge

\* Everybody else.
LEMMA QueueOther ==
    ASSUME Batched,
           (\E p \in Runners : Recovery(p) \/ Accept(p)) \/ LoopCleanup \/ Reap \/ Operate
    PROVE  Batched' /\ UNCHANGED Queue!vars
<1> USE DEF attemptVars, taskVars, mergeVars
<1>1. ASSUME NEW p \in Runners, Recovery(p)
      PROVE  UNCHANGED <<wins, pending, settled, mpc, mcur>>
  BY <1>1 DEF Recovery, RecStart, RecOpen, RecSkip, RecExhaust, RecPick, RecLoadDone,
     RecLoadMissing, RecLoad, RecMarkSettling, RecMarkFails, RecCreateInvoice, RecInvoiceFails,
     RecInvoiceConflicts, RecSettlePayment, RecPaymentFails, RecRecordResult, RecRecordFails,
     RecMarkSettled, RecTail, RecTailFailed
<1>2. ASSUME NEW p \in Runners, Accept(p)
      PROVE  UNCHANGED <<wins, pending, settled, mpc, mcur>>
  BY <1>2 DEF Accept, AcceptBind, AcceptLock, AcceptLockFails, AcceptRollback
<1>3. ASSUME LoopCleanup \/ Reap \/ Operate
      PROVE  UNCHANGED <<wins, pending, settled, mpc, mcur>>
  BY <1>3 DEF LoopCleanup, Reap, Operate, ReleaseBegin, ReleaseFinish, SwitchMode, SellOrder,
     RollbackBills, Retry, MarkFinal, DisputeRetry, DisputeMarkFinal, DisputeRollback
<1> QED
  BY <1>1, <1>2, <1>3, QueueKept

\* However many steps an attempt takes, and whatever fails or interferes, the windows of
\* the task are drained oldest first and settled, left or queued again as one batch.
THEOREM MergeKeepsCharges == Spec => KeepsCharges
<1>1. Init => Batched /\ Queue!Init
  BY DEF Init, Batched, Queue!Init, InFlight, Taken, Stages
<1>2. IInv /\ Batched /\ [Next]_vars => Batched' /\ [Queue!Next]_Queue!vars
  <2> SUFFICES ASSUME IInv, Batched, [Next]_vars
               PROVE  Batched' /\ [Queue!Next]_Queue!vars
    OBVIOUS
  <2>1. CASE UNCHANGED vars
    BY <2>1, QueueKept DEF vars, attemptVars, taskVars, mergeVars
  <2>2. CASE Next
    BY <2>2, QueueMerge, QueueOther DEF Next
  <2> QED
    BY <2>1, <2>2
<1> QED
  BY <1>1, <1>2, Invariant, PTL DEF Spec, KeepsCharges, Queue!Spec
=============================================================================
