----------------------------- MODULE Settlement -----------------------------
(***************************************************************************)
(* How agentd turns the charges of one running task into payments.         *)
(*                                                                         *)
(* The poll loop turns an advanced provider window into a pending charge;  *)
(* maybe_merge_and_settle drains MergeCount of them into a settlement      *)
(* attempt and walks it through five stages, each one external call: mark  *)
(* the sell order settling, create an invoice at the fiber node, pay it,   *)
(* record the result, mark the order settled.  What it does not finish is  *)
(* left to run_recovery_tick, which runs in the poll loop and, at the same *)
(* time, in the HTTP handler of the operator.  Operators also retry,       *)
(* finalise and dispute attempts and cancel matches, and the mode switch   *)
(* and the reaper rewrite attempts behind everybody's back.                *)
(*                                                                         *)
(* One task, one match and one sell order: build_match_id gives the same   *)
(* match to every acceptance of the same pair of orders.                   *)
(***************************************************************************)
EXTENDS Integers, FiniteSets

CONSTANTS
    MaxWindow,           \* bound: windows the provider reports are 1..MaxWindow
    MaxAttempts,         \* bound: settlement attempts that may be opened
    MergeCount,          \* TaskRuntime.merge_window_count
    MaxRecoveryRetries,  \* MAX_RECOVERY_RETRIES
    StuckThreshold,      \* retries after which the reaper calls an attempt stuck
    CommittedWindows,    \* agreed_work_units, in windows of equal compute
    Operator,            \* the HTTP requests this instance allows
    Faults               \* the failures of the environment it allows

OperatorKinds == {"recover", "reap", "accept", "retry", "mark_final", "dispute_retry",
                  "dispute_rollback", "dispute_mark_final", "release", "mode",
                  "sell_order"}

FaultKinds == {"guard", "node_error", "node_reply_lost", "record_error",
               "provider_down", "provider_reply_lost", "task_stopped",
               "unrounded"}

ASSUME BoundsAssumption ==
    /\ MaxWindow \in Nat \ {0} /\ MaxAttempts \in Nat \ {0}
    /\ MergeCount \in Nat \ {0}
    /\ MaxRecoveryRetries \in Nat \ {0} /\ StuckThreshold \in Nat \ {0}
    /\ CommittedWindows \in Nat
ASSUME EnvironmentAssumption ==
    /\ Operator \subseteq OperatorKinds
    /\ Faults \subseteq FaultKinds

VARIABLES
    \* SettlementAttempt, one function per field
    status, stage, wins,
    invoice,       \* the windows the attempt's invoice charges, {} before it has one
    payment, recorded, settledDone,
    retry,         \* retry_count, saturating where the code stops comparing it
    hashed,        \* a payload_hash of the invoice request is stored
    lastError,     \* what auto_open_runtime_disputes looks for in last_error_code
                   \* and last_error_stage
    disputes,      \* the kinds of dispute open on the attempt
    \* BillingWindowRecord, by window (the trade is always the same)
    billOwner,     \* settlement_attempt_id, 0 while the window has no bill
    billStatus,
    \* TaskRuntime, its AcceptedMatchBinding, the local order locks, the mode
    lastWindow, pending, settled, bound, binding, held, auto,
    \* the provider's sell order
    order,
    \* control: the merge, the recovery and accept runs, the operator's release
    \* and rollback (the attempt whose dispute is being rolled back, or 0)
    mpc, mcur, mto, rpc, rids, rcur, rstage, rhashed, acc, rel, roll,
    \* what the fiber node executed: payments per window, payments per attempt
    paid, npay

attemptVars == <<status, stage, wins, invoice, payment, recorded, settledDone,
                 retry, hashed, lastError>>
billVars    == <<billOwner, billStatus>>
taskVars    == <<lastWindow, pending, settled>>
matchVars   == <<bound, binding, held>>
mergeVars   == <<mpc, mcur, mto>>
recVars     == <<rpc, rids, rcur, rstage, rhashed>>
handVars    == <<acc, rel, roll>>
nodeVars    == <<paid, npay>>

vars == <<attemptVars, disputes, billVars, taskVars, matchVars, auto, order,
          mergeVars, recVars, handVars, nodeVars>>

-----------------------------------------------------------------------------
Windows  == 1..MaxWindow
Attempts == 1..MaxAttempts
\* The poll loop and the HTTP handlers: both run recovery, both accept matches.
Runners  == {"loop", "ops"}

Statuses == {"none", "started", "in_progress", "retryable_failed",
             "payment_unknown", "failed_final", "committed"}
Stages   == {"mark_settling", "create_invoice", "settle_payment",
             "record_result", "mark_settled"}
\* The stages that call the fiber node, and so copy the attempt first.
GatewayStages == {"create_invoice", "settle_payment", "record_result"}
BillStatuses == {"pending", "invoiced", "payment_submitted", "paid",
                 "disputed", "finalized", "failed"}
Bindings == {"none", "accepted", "settling", "settled", "retryable_failed",
             "payment_unknown", "failed_final", "released"}
OrderStatuses == {"open", "locked", "settling", "settled", "closed"}
DisputeKinds  == {"payment_unknown", "replay_inconsistent",
                  "result_record_conflict", "settled_not_committed"}

Used(a)        == status[a] # "none"
\* Mutants of Recoverable: one more status is listed.
RecoverableUnknown(s) ==
    s \in {"started", "in_progress", "retryable_failed", "payment_unknown"}
RecoverableFinal(s) ==
    s \in {"started", "in_progress", "retryable_failed", "failed_final"}
Recoverable(s) == s \in {"started", "in_progress", "retryable_failed"}
ErrorKinds     == {"replay", "record"}
Terminal(s)    == s \in {"committed", "failed_final"}

\* The windows billed to an attempt.
BillsOf(a) == {w \in Windows : billOwner[w] = a}

\* maybe_merge_and_settle and the replay of the three gateway stages hold the
\* tasks mutex from end to end; everybody else waits for it.
TasksFree == mpc = "idle"

\* The poll loop does one thing at a time.
LoopIdle == mpc = "idle" /\ rpc["loop"] = "idle" /\ acc["loop"] = "idle"

-----------------------------------------------------------------------------
(* The transition tables of crates/common/src/market.rs.                    *)

CanStatus(from, to) ==
    <<from, to>> \in
        {<<"started", "in_progress">>, <<"in_progress", "committed">>,
         <<"in_progress", "retryable_failed">>, <<"in_progress", "payment_unknown">>,
         <<"in_progress", "failed_final">>, <<"retryable_failed", "in_progress">>,
         <<"payment_unknown", "in_progress">>}

\* A mutant of CanBill: a disputed bill may be paid.
CanBillDisputed(from, to) ==
    <<from, to>> \in
        {<<"pending", "invoiced">>, <<"invoiced", "payment_submitted">>,
         <<"payment_submitted", "paid">>, <<"payment_submitted", "disputed">>,
         <<"paid", "finalized">>, <<"disputed", "failed">>, <<"disputed", "paid">>}

CanBill(from, to) ==
    <<from, to>> \in
        {<<"pending", "invoiced">>, <<"invoiced", "payment_submitted">>,
         <<"payment_submitted", "paid">>, <<"payment_submitted", "disputed">>,
         <<"paid", "finalized">>, <<"disputed", "failed">>}

Moved(from, to) == IF CanStatus(from, to) THEN to ELSE from

\* apply_billing_status_for_attempt goes through the attempt's bills in window
\* order and gives up at the first one that may not move.
Billed(a, next) ==
    [w \in Windows |->
        IF billOwner[w] = a
           /\ \A v \in BillsOf(a) : v <= w => CanBill(billStatus[v], next)
        THEN next ELSE billStatus[w]]

\* A mutant of Retried: the failure is not counted.
RetriedNever(a) == retry
Retried(a) == [retry EXCEPT ![a] = IF @ < MaxRecoveryRetries THEN @ + 1 ELSE @]

-----------------------------------------------------------------------------
(* Calls to the provider and to the node.                                   *)

From(call) == CASE call = "lock"          -> {"open", "locked"}
                [] call = "mark_settling" -> {"locked", "settling"}
                [] call = "mark_settled"  -> {"settling", "settled"}
To(call)   == CASE call = "lock"          -> "locked"
                [] call = "mark_settling" -> "settling"
                [] call = "mark_settled"  -> "settled"

Posted(call) == order \in From(call) /\ order' = To(call)
PostFailed(call) ==
    \/ order \notin From(call) /\ order' = order
    \/ "provider_down" \in Faults /\ order' = order
    \/ "provider_reply_lost" \in Faults /\ order \in From(call) /\ order' = To(call)

\* release_sell_order opens whatever is not settled, a cancelled order included;
\* the agent ignores the reply.
PostRelease ==
    \/ order' = IF order = "settled" THEN "settled" ELSE "open"
    \/ "provider_down" \in Faults /\ order' = order

\* The node executes the payment of attempt a's invoice.  Two is "more than once".
NodePays(a) ==
    /\ paid' = [w \in Windows |-> IF w \in invoice[a] /\ paid[w] < 2
                                  THEN paid[w] + 1 ELSE paid[w]]
    /\ npay' = [npay EXCEPT ![a] = IF @ < 2 THEN @ + 1 ELSE @]

\* A call that does not end well for the agent: refused before it is sent,
\* answered with an error, or executed with the answer lost.
PaymentFails(a) ==
    \/ Faults \cap {"guard", "node_error"} # {} /\ UNCHANGED nodeVars
    \/ "node_reply_lost" \in Faults /\ NodePays(a)

-----------------------------------------------------------------------------
Init ==
    /\ status = [a \in Attempts |-> "none"]
    /\ stage = [a \in Attempts |-> "mark_settling"]
    /\ wins = [a \in Attempts |-> {}]
    /\ invoice = [a \in Attempts |-> {}]
    /\ payment = [a \in Attempts |-> FALSE]
    /\ recorded = [a \in Attempts |-> FALSE]
    /\ settledDone = [a \in Attempts |-> FALSE]
    /\ retry = [a \in Attempts |-> 0]
    /\ hashed = [a \in Attempts |-> FALSE]
    /\ lastError = [a \in Attempts |-> {}]
    /\ disputes = [a \in Attempts |-> {}]
    /\ billOwner = [w \in Windows |-> 0]
    /\ billStatus = [w \in Windows |-> "pending"]
    /\ lastWindow = 0 /\ pending = {} /\ settled = {}
    /\ bound = FALSE /\ binding = "none" /\ held = FALSE
    /\ auto = TRUE
    /\ order = "open"
    /\ mpc = "idle" /\ mcur = 1 /\ mto = "retryable_failed"
    /\ rpc = [p \in Runners |-> "idle"]
    /\ rids = [p \in Runners |-> {}]
    /\ rcur = [p \in Runners |-> 1]
    /\ rstage = [p \in Runners |-> "mark_settling"]
    /\ rhashed = [p \in Runners |-> FALSE]
    /\ acc = [p \in Runners |-> "idle"]
    /\ rel = "none" /\ roll = 0
    /\ paid = [w \in Windows |-> 0]
    /\ npay = [a \in Attempts |-> 0]

-----------------------------------------------------------------------------
(* The merge: apply_provider_poll_with_matches and maybe_merge_and_settle.  *)

\* The provider reports window w, past the last one (windows may be skipped).
\* The bound MaxAttempts stops the provider while no attempt is left to open.
PollWindow(w) ==
    /\ LoopIdle
    /\ w > lastWindow
    /\ \E a \in Attempts : ~Used(a)
    /\ lastWindow' = w
    /\ IF w \in settled \cup pending
       THEN UNCHANGED <<pending, mpc>>
       ELSE pending' = pending \cup {w} /\ mpc' = "head"
    /\ UNCHANGED <<attemptVars, disputes, billVars, settled, matchVars, auto, order,
                   mcur, mto, recVars, handVars, nodeVars>>

Mergeable == /\ Cardinality(pending) >= MergeCount
             /\ bound
             /\ binding \in {"accepted", "settling"}

\* Too few charges, no accepted match or a match in another state: leave the loop.
MergeBreak ==
    /\ mpc = "head" /\ ~Mergeable
    /\ mpc' = "idle"
    /\ UNCHANGED <<attemptVars, disputes, billVars, taskVars, matchVars, auto, order,
                   mcur, mto, recVars, handVars, nodeVars>>

\* A mutant of FromFront: from its back.
FromBack(batch) == \A w \in batch, v \in pending \ batch : w > v

\* The queue is drained from its front.
FromFront(batch) == \A w \in batch, v \in pending \ batch : w < v

\* Drain the oldest MergeCount charges into a new attempt, bill those that have
\* no bill yet, mark the match settling.
MergeOpenAttempt(a) ==
    /\ mpc = "head" /\ Mergeable
    /\ ~Used(a) /\ \A b \in Attempts : b < a => Used(b)
    /\ \E batch \in SUBSET pending :
        /\ Cardinality(batch) = MergeCount
        /\ FromFront(batch)
        /\ wins' = [wins EXCEPT ![a] = batch]
        /\ pending' = pending \ batch
        /\ billOwner' = [w \in Windows |-> IF w \in batch /\ billOwner[w] = 0
                                           THEN a ELSE billOwner[w]]
    /\ status' = [status EXCEPT ![a] = "started"]
    /\ binding' = "settling"
    /\ mpc' = "mark_settling" /\ mcur' = a
    /\ UNCHANGED <<stage, invoice, payment, recorded, settledDone, retry, hashed,
                   lastError, disputes, billStatus, lastWindow, settled, bound, held,
                   auto, order, mto, recVars, handVars, nodeVars>>

\* A mutant of NextStage: the invoice has no next stage.
NextStageShort(s) == CASE s = "mark_settling"  -> "create_invoice"
                       [] s = "settle_payment" -> "record_result"
                       [] s = "record_result"  -> "mark_settled"
                       [] OTHER                -> "none"

\* advance_settlement_attempt_stage: the stage moves along its own table, which
\* holds for every pair used here unless somebody rewound the attempt.
NextStage(s) == CASE s = "mark_settling"  -> "create_invoice"
                  [] s = "create_invoice" -> "settle_payment"
                  [] s = "settle_payment" -> "record_result"
                  [] s = "record_result"  -> "mark_settled"
                  [] s = "mark_settled"   -> "none"

Advance(a, next) ==
    /\ stage' = [stage EXCEPT ![a] = IF NextStage(@) = next THEN next ELSE @]
    /\ status' = [status EXCEPT ![a] = Moved(@, "in_progress")]

\* last_error_stage is read only to see whether it is record_result.
ErrorAt(at) == IF at = "record_result" THEN {"record"} ELSE {}

\* fail_settlement_attempt.
Fail(a, to, at) ==
    /\ status' = [status EXCEPT ![a] = Moved(@, to)]
    /\ stage' = [stage EXCEPT ![a] = at]
    /\ lastError' = [lastError EXCEPT ![a] = ErrorAt(at)]
    /\ retry' = Retried(a)

\* Every failure leaves the loop through release_after_failure (MergeRelease),
\* which gives the match the status `to`; most put the drained charges back in
\* front of the queue first.
GiveUp(to) == mpc' = "release" /\ mto' = to
Requeue    == pending' = pending \cup wins[mcur]

MergeRelease ==
    /\ mpc = "release"
    /\ IF binding = "none"
       THEN UNCHANGED <<binding, held, order>>
       ELSE binding' = mto /\ held' = FALSE /\ PostRelease
    /\ bound' = FALSE
    /\ mpc' = "idle"
    /\ UNCHANGED <<attemptVars, disputes, billVars, taskVars, auto, mcur, mto,
                   recVars, handVars, nodeVars>>

\* The order is marked settling; the invoice request is stored with its hash.
MergeMarkSettling ==
    /\ mpc = "mark_settling"
    /\ Posted("mark_settling")
    /\ Advance(mcur, "create_invoice")
    /\ hashed' = [hashed EXCEPT ![mcur] = TRUE]
    /\ mpc' = "create_invoice"
    /\ UNCHANGED <<wins, invoice, payment, recorded, settledDone, retry, lastError,
                   disputes, billVars, taskVars, matchVars, auto, mcur, mto, recVars,
                   handVars, nodeVars>>

\* Here the charges are not requeued: they stay with the bills of the attempt,
\* which the transition table keeps in started.
MergeMarkSettlingFails ==
    /\ mpc = "mark_settling"
    /\ PostFailed("mark_settling")
    /\ Fail(mcur, "retryable_failed", "mark_settling")
    /\ GiveUp("retryable_failed")
    /\ UNCHANGED <<wins, invoice, payment, recorded, settledDone, hashed, disputes,
                   billVars, taskVars, matchVars, auto, mcur, recVars, handVars, nodeVars>>

MergeCreateInvoice ==
    /\ mpc = "create_invoice"
    /\ invoice' = [invoice EXCEPT ![mcur] = wins[mcur]]
    /\ billStatus' = Billed(mcur, "invoiced")
    /\ Advance(mcur, "settle_payment")
    /\ mpc' = "settle_payment"
    /\ UNCHANGED <<wins, payment, recorded, settledDone, retry, hashed, lastError,
                   disputes, billOwner, taskVars, matchVars, auto, order, mcur, mto,
                   recVars, handVars, nodeVars>>

MergeInvoiceBlocked ==
    /\ mpc = "create_invoice" /\ "guard" \in Faults
    /\ Fail(mcur, "retryable_failed", "create_invoice")
    /\ Requeue
    /\ GiveUp("retryable_failed")
    /\ UNCHANGED <<wins, invoice, payment, recorded, settledDone, hashed, disputes,
                   billVars, lastWindow, settled, matchVars, auto, order, mcur, recVars,
                   handVars, nodeVars>>

\* The attempt is failed twice, the second time at the payment stage.
MergeInvoiceFails ==
    /\ mpc = "create_invoice" /\ Faults \cap {"node_error", "node_reply_lost"} # {}
    /\ status' = [status EXCEPT ![mcur] = Moved(@, "retryable_failed")]
    /\ stage' = [stage EXCEPT ![mcur] = "settle_payment"]
    /\ lastError' = [lastError EXCEPT ![mcur] = {}]
    /\ retry' = [retry EXCEPT ![mcur] = IF @ + 2 > MaxRecoveryRetries
                                        THEN MaxRecoveryRetries ELSE @ + 2]
    /\ Requeue
    /\ GiveUp("retryable_failed")
    /\ UNCHANGED <<wins, invoice, payment, recorded, settledDone, hashed, disputes,
                   billVars, lastWindow, settled, matchVars, auto, order, mcur, recVars,
                   handVars, nodeVars>>

MergeSettlePayment ==
    /\ mpc = "settle_payment"
    /\ NodePays(mcur)
    /\ payment' = [payment EXCEPT ![mcur] = TRUE]
    /\ billStatus' = Billed(mcur, "payment_submitted")
    /\ Advance(mcur, "record_result")
    /\ mpc' = "record_result"
    /\ UNCHANGED <<wins, invoice, recorded, settledDone, retry, hashed, lastError,
                   disputes, billOwner, taskVars, matchVars, auto, order, mcur, mto,
                   recVars, handVars>>

\* A mutant of MergePaymentFails: the early return is missing.
MergePaymentFailsOn ==
    /\ mpc = "settle_payment"
    /\ PaymentFails(mcur)
    /\ Advance(mcur, "record_result")
    /\ mpc' = "record_result"
    /\ UNCHANGED <<wins, invoice, payment, recorded, settledDone, retry, hashed, lastError,
                   disputes, billVars, taskVars, matchVars, auto, order, mcur, mto, recVars,
                   handVars>>

\* The attempt is not failed: it stays in_progress at the payment stage, with
\* its invoice, while its charges go back in the queue.
MergePaymentFails ==
    /\ mpc = "settle_payment"
    /\ PaymentFails(mcur)
    /\ Requeue
    /\ GiveUp("retryable_failed")
    /\ UNCHANGED <<attemptVars, disputes, billVars, lastWindow, settled, matchVars, auto,
                   order, mcur, recVars, handVars>>

\* The windows are settled and the match too, before the provider is told.
MergeRecordResult ==
    /\ mpc = "record_result"
    /\ billStatus' = Billed(mcur, "paid")
    /\ settled' = settled \cup wins[mcur]
    /\ binding' = IF binding = "none" THEN "none" ELSE "settled"
    /\ Advance(mcur, "mark_settled")
    /\ mpc' = "mark_settled"
    /\ UNCHANGED <<wins, invoice, payment, recorded, settledDone, retry, hashed,
                   lastError, disputes, billOwner, lastWindow, pending, bound, held,
                   auto, order, mcur, mto, recVars, handVars, nodeVars>>

\* Only the gateway's error disputes the bills; the guard's refusal does not.
MergeRecordFails ==
    /\ mpc = "record_result"
    /\ \/ "guard" \in Faults /\ UNCHANGED billStatus
       \/ "record_error" \in Faults /\ billStatus' = Billed(mcur, "disputed")
    /\ Fail(mcur, "payment_unknown", "record_result")
    /\ Requeue
    /\ GiveUp("payment_unknown")
    /\ UNCHANGED <<wins, invoice, payment, recorded, settledDone, hashed, disputes,
                   billOwner, lastWindow, settled, matchVars, auto, order, mcur, recVars,
                   handVars, nodeVars>>

\* finalize_trade_billing, when the billed windows deliver what was agreed: it
\* never finds a breach there, and finalizes every bill that is not disputed.
TradeFinalized ==
    LET billed == {w \in Windows : billOwner[w] # 0}
    IN  IF CommittedWindows > 0 /\ Cardinality(billed) >= CommittedWindows
        THEN [w \in Windows |-> IF w \in billed /\ billStatus[w] # "disputed"
                                THEN "finalized" ELSE billStatus[w]]
        ELSE billStatus

\* finalize_settlement_attempt; the reconciliation call that follows changes
\* nothing here, and the loop looks for more charges.
MergeMarkSettled ==
    /\ mpc = "mark_settled"
    /\ Posted("mark_settled")
    /\ billStatus' = TradeFinalized
    /\ status' = [status EXCEPT ![mcur] = Moved(@, "committed")]
    /\ stage' = [stage EXCEPT ![mcur] = "mark_settled"]
    /\ settledDone' = [settledDone EXCEPT ![mcur] = TRUE]
    /\ recorded' = [recorded EXCEPT ![mcur] = TRUE]
    /\ mpc' = "head"
    /\ UNCHANGED <<wins, invoice, payment, retry, hashed, lastError, disputes,
                   billOwner, taskVars, matchVars, auto, mcur, mto, recVars, handVars,
                   nodeVars>>

\* A mutant of MergeMarkSettledFails: the charges are requeued here too.
MergeMarkSettledFailsRequeue ==
    /\ mpc = "mark_settled"
    /\ PostFailed("mark_settled")
    /\ Fail(mcur, "failed_final", "mark_settled")
    /\ Requeue
    /\ GiveUp("failed_final")
    /\ UNCHANGED <<wins, invoice, payment, recorded, settledDone, hashed, disputes,
                   billVars, lastWindow, settled, matchVars, auto, order, mcur, recVars,
                   handVars, nodeVars>>

MergeMarkSettledFails ==
    /\ mpc = "mark_settled"
    /\ PostFailed("mark_settled")
    /\ Fail(mcur, "failed_final", "mark_settled")
    /\ GiveUp("failed_final")
    /\ UNCHANGED <<wins, invoice, payment, recorded, settledDone, hashed, disputes,
                   billVars, taskVars, matchVars, auto, mcur, recVars, handVars, nodeVars>>

Merge ==
    \/ \E w \in Windows : PollWindow(w)
    \/ MergeBreak
    \/ \E a \in Attempts : MergeOpenAttempt(a)
    \/ MergeRelease
    \/ MergeMarkSettling  \/ MergeMarkSettlingFails
    \/ MergeCreateInvoice \/ MergeInvoiceBlocked \/ MergeInvoiceFails
    \/ MergeSettlePayment \/ MergePaymentFails
    \/ MergeRecordResult  \/ MergeRecordFails
    \/ MergeMarkSettled   \/ MergeMarkSettledFails

-----------------------------------------------------------------------------
(* Recovery: run_recovery_tick and run_settlement_attempt_stage.            *)

\* auto_open_runtime_disputes; open_dispute_if_absent never closes one.
AutoDisputes ==
    [a \in Attempts |-> disputes[a] \cup
        {k \in DisputeKinds :
            \/ k = "payment_unknown" /\ status[a] = "payment_unknown"
            \/ k = "replay_inconsistent" /\ "replay" \in lastError[a]
            \/ k = "result_record_conflict" /\ "record" \in lastError[a]
                                            /\ status[a] = "retryable_failed"
            \/ k = "settled_not_committed" /\ settledDone[a]
                                           /\ status[a] # "committed"}]

\* The tick lists the attempts it may touch.  A tick with nothing to list only
\* opens disputes, which the reaper behind it does again.
RecStart(p) ==
    /\ rpc[p] = "idle" /\ auto
    /\ IF p = "loop" THEN LoopIdle ELSE "recover" \in Operator
    /\ rids' = [rids EXCEPT ![p] = {a \in Attempts : Recoverable(status[a])}]
    /\ rids'[p] # {}
    /\ rpc' = [rpc EXCEPT ![p] = "open"]
    /\ UNCHANGED <<attemptVars, disputes, billVars, taskVars, matchVars, auto, order,
                   mergeVars, rcur, rstage, rhashed, handVars, nodeVars>>

\* Opening disputes reads the tasks: the tick waits here for a running merge.
RecOpen(p) ==
    /\ rpc[p] = "open" /\ TasksFree
    /\ disputes' = AutoDisputes
    /\ rpc' = [rpc EXCEPT ![p] = "pick"]
    /\ UNCHANGED <<attemptVars, billVars, taskVars, matchVars, auto, order, mergeVars,
                   rids, rcur, rstage, rhashed, handVars, nodeVars>>

\* The tick goes on to the next listed attempt, or ends.
NextListed(p, left) == [rpc EXCEPT ![p] = IF left = {} THEN "idle" ELSE "pick"]

\* The attempt is still in its backoff.
RecSkip(p, a) ==
    /\ rpc[p] = "pick" /\ a \in rids[p]
    /\ rids' = [rids EXCEPT ![p] = @ \ {a}]
    /\ rpc' = NextListed(p, rids[p] \ {a})
    /\ UNCHANGED <<attemptVars, disputes, billVars, taskVars, matchVars, auto, order,
                   mergeVars, rcur, rstage, rhashed, handVars, nodeVars>>

\* Out of retries.  The status is not looked at again.
RecExhaust(p, a) ==
    /\ rpc[p] = "pick" /\ a \in rids[p]
    /\ retry[a] >= MaxRecoveryRetries
    /\ status' = [status EXCEPT ![a] = "failed_final"]
    /\ lastError' = [lastError EXCEPT ![a] = ErrorAt(stage[a])]
    /\ rids' = [rids EXCEPT ![p] = @ \ {a}]
    /\ rpc' = NextListed(p, rids[p] \ {a})
    /\ UNCHANGED <<stage, wins, invoice, payment, recorded, settledDone, retry, hashed,
                   disputes, billVars, taskVars, matchVars, auto, order, mergeVars, rcur,
                   rstage, rhashed, handVars, nodeVars>>

\* resume_settlement_attempt reads the stage, and the stage runs on that reading.
RecPick(p, a) ==
    /\ rpc[p] = "pick" /\ a \in rids[p]
    /\ retry[a] < MaxRecoveryRetries
    /\ rids' = [rids EXCEPT ![p] = @ \ {a}]
    /\ rcur' = [rcur EXCEPT ![p] = a]
    /\ rstage' = [rstage EXCEPT ![p] = stage[a]]
    /\ rpc' = [rpc EXCEPT ![p] = IF stage[a] \in GatewayStages
                                 THEN "load" ELSE "work"]
    /\ UNCHANGED <<attemptVars, disputes, billVars, taskVars, matchVars, auto, order,
                   mergeVars, rhashed, handVars, nodeVars>>

\* A stage ends well, or with an error: the tail of the tick is a step of its own.
EndStage(p, result) ==
    rpc' = [rpc EXCEPT ![p] = result] /\ UNCHANGED <<rids, rcur, rstage, rhashed>>
MovedOn(p) == stage' = [stage EXCEPT ![rcur[p]] = NextStage(rstage[p])]

Has(a, what) == CASE what = "create_invoice" -> invoice[a] # {}
                  [] what = "settle_payment" -> payment[a]
                  [] what = "record_result"  -> recorded[a]

\* The gateway stages copy the attempt first: what the stage would obtain may
\* already be there, what it needs may be missing, or the call has to be made.
RecLoadDone(p) ==
    /\ rpc[p] = "load" /\ Has(rcur[p], rstage[p])
    /\ MovedOn(p)
    /\ EndStage(p, "ok")
    /\ UNCHANGED <<status, wins, invoice, payment, recorded, settledDone, retry, hashed,
                   lastError, disputes, billVars, taskVars, matchVars, auto, order,
                   mergeVars, handVars, nodeVars>>

RecLoadMissing(p) ==
    LET a == rcur[p] IN
    /\ rpc[p] = "load" /\ ~Has(a, rstage[p])
    /\ \/ rstage[p] = "settle_payment" /\ invoice[a] = {}
       \/ rstage[p] = "record_result" /\ (invoice[a] = {} \/ ~payment[a])
    /\ EndStage(p, "failed")
    /\ UNCHANGED <<attemptVars, disputes, billVars, taskVars, matchVars, auto, order,
                   mergeVars, handVars, nodeVars>>

RecLoad(p) ==
    LET a == rcur[p] IN
    /\ rpc[p] = "load" /\ ~Has(a, rstage[p])
    /\ rstage[p] = "settle_payment" => invoice[a] # {}
    /\ rstage[p] = "record_result" => invoice[a] # {} /\ payment[a]
    /\ rhashed' = [rhashed EXCEPT ![p] = hashed[a]]
    /\ rpc' = [rpc EXCEPT ![p] = "work"]
    /\ UNCHANGED <<attemptVars, disputes, billVars, taskVars, matchVars, auto, order,
                   mergeVars, rids, rcur, rstage, handVars, nodeVars>>

Working(p, s) == rpc[p] = "work" /\ rstage[p] = s

RecMarkSettling(p) ==
    /\ Working(p, "mark_settling")
    /\ Posted("mark_settling")
    /\ MovedOn(p)
    /\ EndStage(p, "ok")
    /\ UNCHANGED <<status, wins, invoice, payment, recorded, settledDone, retry, hashed,
                   lastError, disputes, billVars, taskVars, matchVars, auto, mergeVars,
                   handVars, nodeVars>>

RecMarkFails(p) ==
    /\ \E s \in {"mark_settling", "mark_settled"} : Working(p, s) /\ PostFailed(s)
    /\ EndStage(p, "failed")
    /\ UNCHANGED <<attemptVars, disputes, billVars, taskVars, matchVars, auto, mergeVars,
                   handVars, nodeVars>>

\* The request is rebuilt from the bills of the attempt.  It repeats the stored
\* one only if every drained charge was billed to this attempt and the bills'
\* rounded amounts are the charges.
SameRequest(p) == ~rhashed[p] \/ (BillsOf(rcur[p]) = wins[rcur[p]] /\ "unrounded" \notin Faults)

RecCreateInvoice(p) ==
    LET a == rcur[p] IN
    /\ Working(p, "create_invoice") /\ TasksFree
    /\ BillsOf(a) # {} /\ SameRequest(p)
    /\ invoice' = [invoice EXCEPT ![a] = BillsOf(a)]
    /\ hashed' = [hashed EXCEPT ![a] = TRUE]
    /\ billStatus' = Billed(a, "invoiced")
    /\ MovedOn(p)
    /\ EndStage(p, "ok")
    /\ UNCHANGED <<status, wins, payment, recorded, settledDone, retry, lastError,
                   disputes, billOwner, taskVars, matchVars, auto, order, mergeVars,
                   handVars, nodeVars>>

\* No bills, the guard's refusal, the node's error.
RecInvoiceFails(p) ==
    /\ Working(p, "create_invoice") /\ TasksFree
    /\ \/ BillsOf(rcur[p]) = {} \/ "guard" \in Faults
       \/ SameRequest(p) /\ Faults \cap {"node_error", "node_reply_lost"} # {}
    /\ EndStage(p, "failed")
    /\ UNCHANGED <<attemptVars, disputes, billVars, taskVars, matchVars, auto, order,
                   mergeVars, handVars, nodeVars>>

RecInvoiceConflicts(p) ==
    LET a == rcur[p] IN
    /\ Working(p, "create_invoice") /\ TasksFree
    /\ BillsOf(a) # {} /\ ~SameRequest(p)
    /\ disputes' = [disputes EXCEPT ![a] = @ \cup {"replay_inconsistent"}]
    /\ EndStage(p, "replay")
    /\ UNCHANGED <<attemptVars, billVars, taskVars, matchVars, auto, order, mergeVars,
                   handVars, nodeVars>>

\* A mutant of RecSettlePayment: the payment id is not stored with the attempt.
RecSettlePaymentUnstored(p) ==
    LET a == rcur[p] IN
    /\ Working(p, "settle_payment") /\ TasksFree
    /\ NodePays(a)
    /\ billStatus' = Billed(a, "payment_submitted")
    /\ MovedOn(p)
    /\ EndStage(p, "ok")
    /\ UNCHANGED <<status, wins, invoice, payment, recorded, settledDone, retry, hashed,
                   lastError, disputes, billOwner, taskVars, matchVars, auto, order,
                   mergeVars, handVars>>

\* The copy said there is an invoice and no payment; it may be stale by now.
RecSettlePayment(p) ==
    LET a == rcur[p] IN
    /\ Working(p, "settle_payment") /\ TasksFree
    /\ NodePays(a)
    /\ payment' = [payment EXCEPT ![a] = TRUE]
    /\ billStatus' = Billed(a, "payment_submitted")
    /\ MovedOn(p)
    /\ EndStage(p, "ok")
    /\ UNCHANGED <<status, wins, invoice, recorded, settledDone, retry, hashed, lastError,
                   disputes, billOwner, taskVars, matchVars, auto, order, mergeVars,
                   handVars>>

RecPaymentFails(p) ==
    /\ Working(p, "settle_payment") /\ TasksFree
    /\ PaymentFails(rcur[p])
    /\ EndStage(p, "failed")
    /\ UNCHANGED <<attemptVars, disputes, billVars, taskVars, matchVars, auto, order,
                   mergeVars, handVars>>

RecRecordResult(p) ==
    LET a == rcur[p] IN
    /\ Working(p, "record_result") /\ TasksFree
    /\ recorded' = [recorded EXCEPT ![a] = TRUE]
    /\ billStatus' = Billed(a, "paid")
    /\ MovedOn(p)
    /\ EndStage(p, "ok")
    /\ UNCHANGED <<status, wins, invoice, payment, settledDone, retry, hashed, lastError,
                   disputes, billOwner, taskVars, matchVars, auto, order, mergeVars,
                   handVars, nodeVars>>

RecRecordFails(p) ==
    LET a == rcur[p] IN
    /\ Working(p, "record_result") /\ TasksFree
    /\ \/ "guard" \in Faults /\ UNCHANGED <<billStatus, disputes>>
       \/ /\ "record_error" \in Faults
          /\ billStatus' = Billed(a, "disputed")
          /\ disputes' = [disputes EXCEPT ![a] = @ \cup {"result_record_conflict"}]
    /\ EndStage(p, "failed")
    /\ UNCHANGED <<attemptVars, billOwner, taskVars, matchVars, auto, order, mergeVars,
                   handVars, nodeVars>>

\* The attempt is committed, from whatever status it is in.
RecMarkSettled(p) ==
    LET a == rcur[p] IN
    /\ Working(p, "mark_settled")
    /\ Posted("mark_settled")
    /\ settledDone' = [settledDone EXCEPT ![a] = TRUE]
    /\ recorded' = [recorded EXCEPT ![a] = TRUE]
    /\ status' = [status EXCEPT ![a] = "committed"]
    /\ EndStage(p, "ok")
    /\ UNCHANGED <<stage, wins, invoice, payment, retry, hashed, lastError, disputes,
                   billVars, taskVars, matchVars, auto, mergeVars, handVars, nodeVars>>

\* The tail of the tick after a stage that went well.
RecTail(p) ==
    LET a == rcur[p] IN
    /\ rpc[p] = "ok"
    /\ status' = [status EXCEPT ![a] = IF @ \in {"started", "retryable_failed"}
                                       THEN "in_progress" ELSE @]
    /\ retry' = Retried(a)
    /\ rpc' = NextListed(p, rids[p])
    /\ UNCHANGED <<stage, wins, invoice, payment, recorded, settledDone, hashed, lastError,
                   disputes, billVars, taskVars, matchVars, auto, order, mergeVars, rids,
                   rcur, rstage, rhashed, handVars, nodeVars>>

\* A mutant of RecTailFailed: the stage is left behind although it failed.
RecTailFailedOn(p) ==
    LET a == rcur[p] IN
    /\ rpc[p] \in {"failed", "replay"}
    /\ status' = [status EXCEPT ![a] = "retryable_failed"]
    /\ stage' = [stage EXCEPT ![a] = IF @ = "mark_settled" THEN @ ELSE NextStage(@)]
    /\ retry' = Retried(a)
    /\ rpc' = NextListed(p, rids[p])
    /\ UNCHANGED <<wins, invoice, payment, recorded, settledDone, hashed, lastError,
                   disputes, billVars, taskVars, matchVars, auto, order, mergeVars, rids,
                   rcur, rstage, rhashed, handVars, nodeVars>>

\* The tail after one that did not.  It writes retryable_failed over whatever status
\* it finds.
RecTailFailed(p) ==
    LET a == rcur[p] IN
    /\ rpc[p] \in {"failed", "replay"}
    /\ status' = [status EXCEPT ![a] = "retryable_failed"]
    /\ retry' = Retried(a)
    /\ lastError' = [lastError EXCEPT ![a] = ErrorAt(stage[a]) \cup
                        (IF rpc[p] = "replay" THEN {"replay"} ELSE {})]
    /\ disputes' = [disputes EXCEPT ![a] = @ \cup
                       (IF stage[a] = "record_result" THEN {"result_record_conflict"}
                        ELSE {})]
    /\ rpc' = NextListed(p, rids[p])
    /\ UNCHANGED <<stage, wins, invoice, payment, recorded, settledDone, hashed, billVars,
                   taskVars, matchVars, auto, order, mergeVars, rids, rcur, rstage,
                   rhashed, handVars, nodeVars>>

Recovery(p) ==
    \/ RecStart(p) \/ RecOpen(p)
    \/ \E a \in Attempts : RecSkip(p, a) \/ RecExhaust(p, a) \/ RecPick(p, a)
    \/ RecLoadDone(p) \/ RecLoadMissing(p) \/ RecLoad(p)
    \/ RecMarkSettling(p) \/ RecMarkFails(p)
    \/ RecCreateInvoice(p) \/ RecInvoiceFails(p) \/ RecInvoiceConflicts(p)
    \/ RecSettlePayment(p) \/ RecPaymentFails(p)
    \/ RecRecordResult(p) \/ RecRecordFails(p)
    \/ RecMarkSettled(p)
    \/ RecTail(p) \/ RecTailFailed(p)

-----------------------------------------------------------------------------
(* Accepting, releasing and everybody else who writes attempts or matches.  *)

\* accept_match up to the provider call: the order pair is open and not locked,
\* the locks are taken, the task is bound, the match stored as accepted.
AcceptBind(p) ==
    /\ acc[p] = "idle" /\ TasksFree
    /\ IF p = "loop" THEN LoopIdle /\ auto /\ ~bound ELSE "accept" \in Operator
    /\ order = "open" /\ ~held
    /\ binding \notin {"accepted", "settling", "settled"}
    /\ held' = TRUE /\ bound' = TRUE /\ binding' = "accepted"
    /\ acc' = [acc EXCEPT ![p] = "locking"]
    /\ UNCHANGED <<attemptVars, disputes, billVars, taskVars, auto, order, mergeVars,
                   recVars, rel, roll, nodeVars>>

AcceptLock(p) ==
    /\ acc[p] = "locking"
    /\ Posted("lock")
    /\ acc' = [acc EXCEPT ![p] = "idle"]
    /\ UNCHANGED <<attemptVars, disputes, billVars, taskVars, matchVars, auto, mergeVars,
                   recVars, rel, roll, nodeVars>>

\* The provider refused: the match and the locks go at once, the task's binding
\* when the tasks are free.
AcceptLockFails(p) ==
    /\ acc[p] = "locking"
    /\ PostFailed("lock")
    /\ binding' = "none" /\ held' = FALSE
    /\ acc' = [acc EXCEPT ![p] = "rollback"]
    /\ UNCHANGED <<attemptVars, disputes, billVars, taskVars, bound, auto, mergeVars,
                   recVars, rel, roll, nodeVars>>

AcceptRollback(p) ==
    /\ acc[p] = "rollback" /\ TasksFree
    /\ bound' = FALSE
    /\ acc' = [acc EXCEPT ![p] = "idle"]
    /\ UNCHANGED <<attemptVars, disputes, billVars, taskVars, binding, held, auto, order,
                   mergeVars, recVars, rel, roll, nodeVars>>

Accept(p) == AcceptBind(p) \/ AcceptLock(p) \/ AcceptLockFails(p) \/ AcceptRollback(p)

\* release_binding_and_locks in two steps: locks and provider first, then, once
\* the tasks are free, the task and the match.  cancel, expire and retry of a
\* match, and the reaper's and the poll loop's cleanups, all end in it; the
\* statuses they leave (or a removed match) count as "released" alike.
ReleaseBegin ==
    /\ "release" \in Operator
    /\ rel = "none" /\ binding # "none"
    /\ held' = FALSE
    /\ PostRelease
    /\ rel' = "release"
    /\ UNCHANGED <<attemptVars, disputes, billVars, taskVars, bound, binding, auto,
                   mergeVars, recVars, acc, roll, nodeVars>>

Unbound == bound' = FALSE /\ binding' = IF binding = "none" THEN "none" ELSE "released"

\* converge_mode_state over the attempts.
SweepAttempts ==
    LET live(a) == status[a] \in {"started", "in_progress"} IN
    /\ status' = [a \in Attempts |-> IF live(a) THEN "retryable_failed" ELSE status[a]]
    /\ lastError' = [a \in Attempts |-> IF live(a) THEN ErrorAt(stage[a])
                                        ELSE lastError[a]]

ReleaseFinish ==
    /\ rel # "none" /\ TasksFree
    /\ Unbound
    /\ rel' = "none"
    /\ IF rel = "converge" THEN SweepAttempts ELSE UNCHANGED <<status, lastError>>
    /\ UNCHANGED <<stage, wins, invoice, payment, recorded, settledDone, retry, hashed,
                   disputes, billVars, taskVars, held, auto, order, mergeVars, recVars,
                   acc, roll, nodeVars>>

\* The loop's own cleanup, of a task that is not running (reported so, over its
\* budget, stalled) or whose provider does not answer.
LoopCleanup ==
    /\ "task_stopped" \in Faults
    /\ LoopIdle /\ binding # "none"
    /\ Unbound /\ held' = FALSE /\ PostRelease
    /\ UNCHANGED <<attemptVars, disputes, billVars, taskVars, auto, mergeVars, recVars,
                   handVars, nodeVars>>

\* set_market_mode, between auto and another mode, and converge_mode_state.
SwitchMode ==
    /\ "mode" \in Operator /\ rel = "none"
    /\ auto' = ~auto
    /\ IF binding \in {"accepted", "settling"}
       THEN /\ held' = FALSE /\ PostRelease /\ rel' = "converge"
            /\ UNCHANGED <<status, lastError>>
       ELSE SweepAttempts /\ UNCHANGED <<held, order, rel>>
    /\ UNCHANGED <<stage, wins, invoice, payment, recorded, settledDone, retry, hashed,
                   disputes, billVars, taskVars, bound, binding, mergeVars, recVars, acc,
                   roll, nodeVars>>

\* run_reaper_tick, by the loop or the operator.
Reap ==
    /\ TasksFree
    /\ "reap" \in Operator \/ LoopIdle
    /\ LET stuck(a) == status[a] = "in_progress" /\ retry[a] >= StuckThreshold IN
       /\ status' = [a \in Attempts |-> IF stuck(a) THEN "retryable_failed" ELSE status[a]]
       /\ lastError' = [a \in Attempts |-> IF stuck(a) THEN ErrorAt(stage[a])
                                           ELSE lastError[a]]
    /\ held' = (held /\ binding \in {"accepted", "settling"})
    /\ disputes' = AutoDisputes
    /\ UNCHANGED <<stage, wins, invoice, payment, recorded, settledDone, retry, hashed,
                   billVars, taskVars, bound, binding, auto, order, mergeVars, recVars,
                   handVars, nodeVars>>

\* retry_settlement_attempt.
Retry(a) ==
    /\ "retry" \in Operator
    /\ status[a] \in {"retryable_failed", "payment_unknown"}
    /\ status' = [status EXCEPT ![a] = "in_progress"]
    /\ stage' = [stage EXCEPT ![a] = "mark_settling"]
    /\ retry' = Retried(a)
    /\ UNCHANGED <<wins, invoice, payment, recorded, settledDone, hashed, lastError,
                   disputes, billVars, taskVars, matchVars, auto, order, mergeVars,
                   recVars, handVars, nodeVars>>

\* mark_settlement_attempt_final.
MarkFinal(a) ==
    /\ "mark_final" \in Operator
    /\ status[a] \in {"retryable_failed", "payment_unknown"}
    /\ status' = [status EXCEPT ![a] = "failed_final"]
    /\ disputes' = [disputes EXCEPT ![a] = @ \cup {"result_record_conflict"}]
    /\ UNCHANGED <<stage, wins, invoice, payment, recorded, settledDone, retry, hashed,
                   lastError, billVars, taskVars, matchVars, auto, order, mergeVars,
                   recVars, handVars, nodeVars>>

\* A mutant of DisputeRetry: the attempt restarts at the last stage.
DisputeRetryLast(a) ==
    /\ "dispute_retry" \in Operator /\ disputes[a] # {} /\ roll = 0
    /\ status' = [status EXCEPT ![a] = "in_progress"]
    /\ stage' = [stage EXCEPT ![a] = "mark_settled"]
    /\ UNCHANGED <<wins, invoice, payment, recorded, settledDone, retry, hashed,
                   lastError, disputes, billVars, taskVars, matchVars, auto, order,
                   mergeVars, recVars, handVars, nodeVars>>

\* apply_dispute_action, the actions that write the attempt; none looks at its
\* status.  Each holds the disputes mutex throughout: they come one after the other.
\* apply-penalty and release-refund write the bills of the dispute's trade.  Only
\* disputes about amounts and prices allow them, which are opened without a trade:
\* they change no bill.
DisputeRetry(a) ==
    /\ "dispute_retry" \in Operator /\ disputes[a] # {} /\ roll = 0
    /\ status' = [status EXCEPT ![a] = "in_progress"]
    /\ stage' = [stage EXCEPT ![a] = "mark_settling"]
    /\ UNCHANGED <<wins, invoice, payment, recorded, settledDone, retry, hashed,
                   lastError, disputes, billVars, taskVars, matchVars, auto, order,
                   mergeVars, recVars, handVars, nodeVars>>

DisputeMarkFinal(a) ==
    /\ "dispute_mark_final" \in Operator /\ roll = 0
    /\ "payment_unknown" \in disputes[a]
    /\ status' = [status EXCEPT ![a] = "failed_final"]
    /\ UNCHANGED <<stage, wins, invoice, payment, recorded, settledDone, retry, hashed,
                   lastError, disputes, billVars, taskVars, matchVars, auto, order,
                   mergeVars, recVars, handVars, nodeVars>>

\* A rollback writes the attempt, then waits for the tasks with its bills.
DisputeRollback(a) ==
    /\ "dispute_rollback" \in Operator /\ roll = 0
    /\ disputes[a] \cap {"replay_inconsistent", "result_record_conflict"} # {}
    /\ status' = [status EXCEPT ![a] = "failed_final"]
    /\ roll' = a
    /\ UNCHANGED <<stage, wins, invoice, payment, recorded, settledDone, retry, hashed,
                   lastError, disputes, billVars, taskVars, matchVars, auto, order,
                   mergeVars, recVars, acc, rel, nodeVars>>

RollbackBills ==
    /\ "dispute_rollback" \in Operator /\ roll # 0 /\ TasksFree
    /\ billStatus' = [w \in Windows |-> IF billOwner[w] = roll THEN "failed"
                                        ELSE billStatus[w]]
    /\ roll' = 0
    /\ UNCHANGED <<attemptVars, disputes, billOwner, taskVars, matchVars, auto, order,
                   mergeVars, recVars, acc, rel, nodeVars>>

\* cancel_sell_order and expire_sell_order at the provider, and its retry.
SellOrder ==
    /\ "sell_order" \in Operator
    /\ \/ order # "closed" /\ order' = "closed"
       \/ order = "closed" /\ order' = "open"
    /\ UNCHANGED <<attemptVars, disputes, billVars, taskVars, matchVars, auto, mergeVars,
                   recVars, handVars, nodeVars>>

Operate ==
    \/ ReleaseBegin \/ ReleaseFinish \/ SwitchMode \/ SellOrder \/ RollbackBills
    \/ \E a \in Attempts : \/ Retry(a) \/ MarkFinal(a) \/ DisputeRetry(a)
                           \/ DisputeMarkFinal(a) \/ DisputeRollback(a)

Next ==
    \/ Merge
    \/ \E p \in Runners : Recovery(p) \/ Accept(p)
    \/ LoopCleanup \/ Reap
    \/ Operate

Spec == Init /\ [][Next]_vars

-----------------------------------------------------------------------------
(* Fairness.  The poll loop is a tokio interval that never returns, each of  *)
(* its calls ends (answered, refused or timed out), and a backoff is at most *)
(* 60 seconds, so an attempt the loop keeps listing is taken up in the end.  *)
(* Nothing is promised of the operator, the provider's meter or the ops run. *)

LoopTakes(a) == RecPick("loop", a) \/ RecExhaust("loop", a)
LoopRecovers ==
    \/ RecStart("loop") \/ RecOpen("loop")
    \/ RecLoadDone("loop") \/ RecLoadMissing("loop") \/ RecLoad("loop")
    \/ RecMarkSettling("loop") \/ RecMarkFails("loop")
    \/ RecCreateInvoice("loop") \/ RecInvoiceFails("loop")
    \/ RecInvoiceConflicts("loop")
    \/ RecSettlePayment("loop") \/ RecPaymentFails("loop")
    \/ RecRecordResult("loop") \/ RecRecordFails("loop")
    \/ RecMarkSettled("loop") \/ RecTail("loop") \/ RecTailFailed("loop")
MergeGoesOn == Merge /\ mpc # "idle"

Fairness ==
    /\ WF_vars(MergeGoesOn)
    /\ SF_vars(LoopRecovers)
    /\ \A a \in Attempts : SF_vars(LoopTakes(a))
    /\ SF_vars(AcceptLock("loop") \/ AcceptLockFails("loop"))
    /\ SF_vars(AcceptRollback("loop"))

FairSpec == Spec /\ Fairness

-----------------------------------------------------------------------------
(* Properties.                                                              *)

AttemptTypes ==
    /\ status \in [Attempts -> Statuses]
    /\ stage \in [Attempts -> Stages]
    /\ wins \in [Attempts -> SUBSET Windows]
    /\ invoice \in [Attempts -> SUBSET Windows]
    /\ payment \in [Attempts -> BOOLEAN]
    /\ recorded \in [Attempts -> BOOLEAN]
    /\ settledDone \in [Attempts -> BOOLEAN]
    /\ retry \in [Attempts -> 0..MaxRecoveryRetries]
    /\ hashed \in [Attempts -> BOOLEAN]
    /\ lastError \in [Attempts -> SUBSET ErrorKinds]
DisputeTypes == disputes \in [Attempts -> SUBSET DisputeKinds]
BillTypes ==
    /\ billOwner \in [Windows -> 0..MaxAttempts]
    /\ billStatus \in [Windows -> BillStatuses]
TaskTypes ==
    /\ lastWindow \in 0..MaxWindow
    /\ pending \in SUBSET Windows /\ settled \in SUBSET Windows
MatchTypes ==
    /\ bound \in BOOLEAN /\ binding \in Bindings /\ held \in BOOLEAN
    /\ auto \in BOOLEAN
    /\ order \in OrderStatuses
MergeTypes ==
    /\ mpc \in {"idle", "head", "release"} \cup Stages
    /\ mcur \in Attempts
    /\ mto \in {"retryable_failed", "payment_unknown", "failed_final"}
RecoveryTypes ==
    /\ rpc \in [Runners -> {"idle", "open", "pick", "load", "work", "ok", "failed", "replay"}]
    /\ rids \in [Runners -> SUBSET Attempts]
    /\ rcur \in [Runners -> Attempts]
    /\ rstage \in [Runners -> Stages]
    /\ rhashed \in [Runners -> BOOLEAN]
    /\ \A p \in Runners : rpc[p] = "load" => rstage[p] \in GatewayStages
HandlerTypes ==
    /\ acc \in [Runners -> {"idle", "locking", "rollback"}]
    /\ rel \in {"none", "release", "converge"}
    /\ roll \in 0..MaxAttempts
NodeTypes ==
    /\ paid \in [Windows -> 0..2]
    /\ npay \in [Attempts -> 0..2]

\* Every variable keeps the type of the Rust field it stands for: no step of the
\* merge, of a recovery run or of a handler leaves a record half written.
TypeOK == /\ AttemptTypes /\ DisputeTypes /\ BillTypes /\ TaskTypes /\ MatchTypes
          /\ MergeTypes /\ RecoveryTypes /\ HandlerTypes /\ NodeTypes

\* A committed attempt was paid for, down to the node: whoever committed it, the
\* merge or a recovery with a stale reading, every window on its invoice was
\* charged at least once, and every window billed to it is on the invoice.
CommittedIsPaid ==
    \A a \in Attempts : status[a] = "committed" =>
        /\ payment[a] /\ invoice[a] # {}
        /\ BillsOf(a) \subseteq invoice[a]
        /\ \A w \in invoice[a] : paid[w] >= 1

\* docs/state-machine.md:29: an unconfirmed payment does not advance what cannot be
\* taken back.  Windows the task counts as settled, bills that say paid and the
\* settled order at the provider all come after a payment at the node.
SettledIsPaid ==
    /\ \A w \in settled : paid[w] >= 1
    /\ \A w \in Windows : billStatus[w] = "paid" => paid[w] >= 1
    /\ order = "settled" => \E a \in Attempts : payment[a] /\ npay[a] >= 1

\* A charge is never in two hands: what is settled or being settled is not queued
\* too, and a bill belongs to an attempt that drained its window.
ChargesApart ==
    /\ pending \cap settled = {}
    /\ mpc \in Stages => pending \cap wins[mcur] = {}
    /\ \A w \in Windows : billOwner[w] # 0 => w \in wins[billOwner[w]]
    /\ \A w \in pending \cup settled : w <= lastWindow

(* The parts of the inductive invariant behind the three.                   *)

\* Charges in flight are not settled yet, and all of them were reported.
ChargesInFlight ==
    /\ mpc \in Stages \ {"mark_settled"} => wins[mcur] \cap settled = {}
    /\ \A a \in Attempts : \A w \in wins[a] : w <= lastWindow

\* What an attempt has depends on what it had to have first.
AttemptsInOrder ==
    \A a \in Attempts :
        /\ recorded[a] \/ status[a] = "committed" => payment[a]
        /\ stage[a] \in {"record_result", "mark_settled"} => payment[a]
        /\ payment[a] => invoice[a] # {}
        /\ ~Used(a) => invoice[a] = {} /\ wins[a] = {}

\* The merge finds its attempt as it left it: recovery touches the invoice and the
\* payment only while nobody holds the tasks.
MergeInOrder ==
    /\ mpc \in Stages => wins[mcur] # {}
    /\ mpc \in {"mark_settling", "create_invoice"} => invoice[mcur] = {}
    /\ mpc = "settle_payment" => invoice[mcur] = wins[mcur]
    /\ mpc \in {"record_result", "mark_settled"} => payment[mcur]

\* Who works on a later stage, on however old a reading, has the earlier ones.
RecoveriesInOrder ==
    \A p \in Runners :
        /\ rpc[p] \in {"load", "work"} /\ rstage[p] \in {"record_result", "mark_settled"}
               => payment[rcur[p]]
        /\ rpc[p] = "work" /\ rstage[p] = "settle_payment" => invoice[rcur[p]] # {}

\* A payment the agent knows of was executed, for every window of the invoice and
\* every bill of the attempt.
PaymentsExecuted ==
    /\ \A a \in Attempts :
        /\ invoice[a] # {} => BillsOf(a) \subseteq invoice[a]
        /\ payment[a] => npay[a] >= 1 /\ \A w \in invoice[a] : paid[w] >= 1
    /\ mpc \in {"record_result", "mark_settled"} => \A w \in wins[mcur] : paid[w] >= 1

\* The inductive invariant: it implies CommittedIsPaid and contains the others.
IInv == /\ TypeOK /\ ChargesApart /\ ChargesInFlight
        /\ AttemptsInOrder /\ MergeInOrder /\ RecoveriesInOrder
        /\ PaymentsExecuted /\ SettledIsPaid

\* docs/dispute-protocol.md:59: a disputed bill stays disputed, through every retry
\* of its attempt and through the finalization of the trade.
DisputedBillBlocked ==
    [][\A w \in Windows : billStatus[w] = "disputed" => billStatus'[w] = "disputed"]_vars

\* docs/recovery-model.md:6-7: nothing automatic moves an attempt whose payment is
\* unknown.
UnknownStays ==
    [][\A a \in Attempts : status[a] = "payment_unknown" =>
                               status'[a] = "payment_unknown"]_vars

\* docs/recovery-model.md:8: an attempt that is committed or failed for good is left
\* as it is, also by a merge or a recovery that read it before it was.
TerminalStays ==
    [][\A a \in Attempts : Terminal(status[a]) => status'[a] = status[a]]_vars

\* docs/billing-and-penalty.md:50: executing a recovery stage again does not pay
\* again.  Of one attempt's invoice the node executes one payment.
InvoicePaidOnce == \A a \in Attempts : npay[a] <= 1

\* docs/state-machine.md:30: the same window of the job is not confirmed twice.
SingleConfirm == \A w \in Windows : paid[w] <= 1

\* The charges of the task go through the queue as Charges says: an attempt's windows are
\* settled, left or queued again together and in turn, however many steps it takes and
\* whatever recovery and operators do in between.
InFlight == IF mpc \in Stages \ {"mark_settled"} THEN wins[mcur] ELSE {}
Taken    == UNION {wins[a] : a \in Attempts}
Queue == INSTANCE Charges
         WITH queued <- pending \cup InFlight,
              left   <- Taken \ (pending \cup InFlight \cup settled)
KeepsCharges == Queue!Spec

\* Recovery gives up in the end: an attempt it may touch is not touched for ever.
RecoveryEnds ==
    \A a \in Attempts : Recoverable(status[a]) ~> ~Recoverable(status[a])

=============================================================================
