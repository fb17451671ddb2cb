----------------------------- MODULE LockOrder -----------------------------
(***************************************************************************)
(* The mutexes of agentd, and who waits for one while holding another.     *)
(*                                                                         *)
(* AppState has a mutex per field.  A guard that is bound by a let lives   *)
(* to the end of its block; one that is a temporary lives to the end of    *)
(* its statement, and the statement of a struct literal, of an if let or   *)
(* of an else of an if let (edition 2021) is long.  A handler is thus a    *)
(* path of nested scopes, which Under and Use write down as the code       *)
(* nests them: nothing but locking, unlocking and the branches between     *)
(* them is kept.  A loop over attempts or matches is one round that may    *)
(* be skipped, as each round locks and unlocks the same mutexes.           *)
(*                                                                         *)
(* Threads are the worker threads of the runtime, on which the poll loop   *)
(* and the requests run: no guard lives over an await.  A mutex of std     *)
(* blocks whoever locks it twice.  Requests that lock one mutex at a time  *)
(* (get_market_mode, get_disputes, get_task_receipt...) can neither close  *)
(* a circle nor block themselves, and are left out.                        *)
(***************************************************************************)
EXTENDS Naturals, Sequences

CONSTANTS
  Threads,    \* the worker threads of the runtime
  Serves      \* the handlers that each thread may run

(***************************************************************************)
(* Scopes and branches.                                                    *)
(***************************************************************************)

Under(mutex, body) ==
  <<[do |-> "lock", of |-> mutex]>> \o body \o <<[do |-> "unlock", of |-> mutex]>>

Use(mutex) == Under(mutex, <<>>)

Branch(offsets) == <<[do |-> "branch", by |-> offsets]>>

Maybe(body) == Branch({1, Len(body) + 1}) \o body

Either(this, that) ==
  Branch({1, Len(this) + 2}) \o this \o Branch({Len(that) + 1}) \o that

(***************************************************************************)
(* What the handlers have in common.                                       *)
(***************************************************************************)

\* The snapshot is a struct literal: its guards live to the end of the let.
PersistAgentState ==
  Use("tasks") \o Use("tasks") \o
  Under("manual_buy_orders", Under("accepted_matches", Under("market_audit",
    Under("confirm_ledger", Under("accept_attempts",
      Under("accept_idempotency_ledger", Under("settlement_attempts",
        Use("disputes"))))))))

OpenDisputeIfAbsent == Use("disputes") \o Maybe(Use("disputes"))

ConfirmationIsCurrent ==
  Use("recommended_confirmed") \o Use("recommended_confirmed_hash")

AutoOpenRuntimeDisputes ==
  Use("settlement_attempts") \o Maybe(OpenDisputeIfAbsent) \o
  Use("accepted_matches") \o
  Maybe(ConfirmationIsCurrent \o Maybe(OpenDisputeIfAbsent)) \o
  Use("tasks") \o Maybe(OpenDisputeIfAbsent)

ContextHash ==
  Use("pricing_mode") \o Use("market_mode") \o Use("fixed_price") \o
  Use("recommended_band")

InvalidateConfirmation ==
  Use("recommended_confirmed") \o ContextHash \o
  Use("recommended_context_hash") \o Use("recommended_confirmed_hash") \o
  Use("market_audit") \o Use("accepted_matches") \o OpenDisputeIfAbsent

SetAutoPause ==
  Use("market_mode") \o
  Maybe(Use("lifecycle_tick") \o
        Under("auto_pause_until_tick",
              Use("auto_pause_reason") \o Use("market_audit")))

AutoActionsAllowed == Use("lifecycle_tick") \o Use("auto_pause_until_tick")

ReleaseBindingAndLocks ==
  Use("locked_buy_orders") \o Use("locked_sell_orders") \o Use("tasks") \o
  Use("accepted_matches") \o Use("market_audit")

ReleaseEach == Use("accepted_matches") \o Maybe(ReleaseBindingAndLocks)

CleanupTaskBindings == ReleaseEach

ConvergeModeState ==
  Maybe(ReleaseEach \o Use("accept_attempts") \o
        Use("settlement_attempts") \o InvalidateConfirmation \o SetAutoPause \o
        Use("market_audit"))

ConfiguredBuyPrice ==
  Use("pricing_mode") \o
  Either(Use("fixed_price"),
         Either(Use("band_price"),
                ConfirmationIsCurrent \o Maybe(Use("recommended_band"))))

\* Manual mode, a pause and a missing price each return early.
CollectBuyOrders ==
  Use("market_mode") \o
  Either(Use("manual_buy_orders"),
    Maybe(AutoActionsAllowed) \o
    Either(Use("market_audit"),
      ConfiguredBuyPrice \o
      Maybe(Under("tasks", Use("locked_buy_orders") \o Use("accepted_matches") \o
                           Use("market_audit")))))

ComputeMatches == Use("locked_buy_orders") \o Use("locked_sell_orders")

Gate == Use("protocol_agreements")

(***************************************************************************)
(* Matches.                                                                *)
(***************************************************************************)

AcceptRollback ==
  Use("accept_attempts") \o Use("accepted_matches") \o
  Use("locked_buy_orders") \o Use("locked_sell_orders") \o Use("tasks")

AcceptCommit ==
  Use("market_mode") \o Maybe(SetAutoPause) \o Use("market_audit") \o
  Use("accept_attempts") \o Maybe(Use("accept_idempotency_ledger")) \o
  PersistAgentState

\* The task is looked for, bound and matched under a lock of its own each.
AcceptBind ==
  Either(Under("tasks", Use("locked_buy_orders") \o Use("locked_sell_orders")),
         Use("tasks") \o Use("tasks") \o Use("accepted_matches") \o
         Either(AcceptRollback, AcceptCommit))

AcceptLocks ==
  Use("locked_buy_orders") \o
  Maybe(Either(Under("locked_sell_orders", Use("locked_buy_orders")),
               Use("locked_sell_orders") \o AcceptBind))

AcceptNew ==
  Use("accept_attempts") \o Use("accept_attempts") \o CollectBuyOrders \o
  Either(Use("accept_attempts"),
    Use("accepted_matches") \o
    Maybe(ComputeMatches \o Use("accept_attempts") \o Maybe(AcceptLocks)))

\* The first use of a key, or none.
AcceptMatch == Maybe(Use("accept_idempotency_ledger")) \o AcceptNew

\* A key that is in the ledger: the guard of the ledger is a temporary of
\* the outer if let, that of the attempts one of the inner.
AcceptAgain ==
  Either(Under("accept_idempotency_ledger",
               Under("accept_attempts", OpenDisputeIfAbsent)),
         Under("accept_idempotency_ledger", Use("accept_attempts")) \o
         Maybe(AcceptNew))

\* The guard of the matches is a temporary of the if let, and lives in its
\* else as well: both branches lock the matches again.
RejectMatch ==
  Under("accepted_matches",
        Either(ReleaseBindingAndLocks, Use("accepted_matches"))) \o
  SetAutoPause \o PersistAgentState

\* cancel_match and expire_match
CancelMatch ==
  Use("accepted_matches") \o
  Maybe(ReleaseBindingAndLocks \o SetAutoPause \o PersistAgentState)

RetryMatch ==
  ReleaseEach \o Use("accepted_matches") \o SetAutoPause \o
  Use("market_audit") \o PersistAgentState

StartAutoBidding ==
  Gate \o
  Maybe(Use("market_audit") \o AutoActionsAllowed \o
    Maybe(Use("market_mode") \o
      Maybe(CollectBuyOrders \o ComputeMatches \o Maybe(AcceptNew))))

GetMatchRecords ==
  CollectBuyOrders \o Maybe(ComputeMatches) \o
  Under("accepted_matches", Use("tasks"))

CreateManualBuyOrder ==
  Use("manual_buy_orders") \o SetAutoPause \o Use("market_audit") \o
  PersistAgentState

(***************************************************************************)
(* Modes, prices and agreements.                                           *)
(***************************************************************************)

SetMarketMode ==
  Use("market_mode") \o
  Either(Gate,
         Maybe(Gate) \o Use("market_mode") \o ConvergeModeState \o
         Maybe(SetAutoPause) \o Use("market_audit") \o PersistAgentState)

GetMarketPricing ==
  Under("pricing_mode", Under("fixed_price", Use("band_price")))

SetMarketPricing ==
  Gate \o
  Maybe(Use("pricing_mode") \o Maybe(Use("fixed_price")) \o
        Maybe(Either(Use("band_price") \o Maybe(Use("recommended_band")),
                     Use("tasks") \o Use("recommended_band") \o
                     Use("band_price") \o Use("market_audit"))) \o
        Maybe(InvalidateConfirmation) \o SetAutoPause \o Use("market_audit") \o
        GetMarketPricing)

ConfirmRecommendedBand ==
  Gate \o
  Maybe(ContextHash \o Use("recommended_confirmed") \o
        Use("recommended_context_hash") \o Use("recommended_confirmed_hash") \o
        SetAutoPause \o Use("market_audit") \o PersistAgentState)

\* accept_protocol_agreement and revoke_protocol_agreement
ProtocolAgreement == Under("protocol_agreements", Maybe(Use("market_audit")))

(***************************************************************************)
(* Settlement, recovery and disputes.                                      *)
(***************************************************************************)

ReleaseAfterFailure ==
  Maybe(Under("accepted_matches",
              Use("locked_buy_orders") \o Use("locked_sell_orders")))

\* A call of the merge fails and is compensated, or the merge goes on.
MergeCall(next) ==
  Either(Maybe(Use("settlement_attempts")) \o ReleaseAfterFailure,
         Use("settlement_attempts") \o next)

MergeSettled ==
  Use("accepted_matches") \o Use("settlement_attempts") \o
  Either(Use("settlement_attempts") \o ReleaseAfterFailure,
         Use("settlement_attempts"))

MaybeMergeAndSettle ==
  Maybe(Use("accepted_matches") \o
    Maybe(Use("accepted_matches") \o Use("settlement_attempts") \o
          Use("accepted_matches") \o
          MergeCall(MergeCall(MergeCall(MergeCall(MergeSettled))))))

\* Under the guards of the tasks and of the gateway, from end to end.
ApplyProviderPoll ==
  Under("tasks", Under("settlement_gateway", MaybeMergeAndSettle))

MarkStage == Use("settlement_attempts") \o Maybe(Use("settlement_attempts"))

\* A stage that was done or lost its attempt, that fails with the tasks locked,
\* or that succeeds.
GatewayStage(failing, succeeding) ==
  Use("settlement_attempts") \o
  Either(Maybe(Use("settlement_attempts")),
         Either(Under("tasks", failing),
                Under("tasks", succeeding) \o Use("settlement_attempts")))

InvoiceStage ==
  GatewayStage(Maybe(Either(Use("disputes"), Use("settlement_gateway"))),
               Use("settlement_gateway"))

PaymentStage ==
  GatewayStage(Maybe(Maybe(Use("disputes")) \o Use("settlement_gateway")),
               Maybe(Use("disputes")) \o Use("settlement_gateway"))

\* The closure of map_err runs while the gateway's guard is a temporary.
ResultStage ==
  GatewayStage(Maybe(Under("settlement_gateway", Use("disputes"))),
               Use("settlement_gateway"))

ResumeAttempt ==
  Use("settlement_attempts") \o
  Maybe(Either(MarkStage,
               Either(InvoiceStage, Either(PaymentStage, ResultStage))))

\* Backoff, retries, the stage, and the tail under the attempts' guard.
RecoverAttempt ==
  Use("recovery_backoff_until") \o
  Maybe(Use("settlement_attempts") \o
    Either(Use("settlement_attempts"),
      ResumeAttempt \o
      Under("settlement_attempts",
            Maybe(Use("recovery_backoff_until") \o Maybe(Use("disputes"))))))

RunRecoveryTick ==
  Use("market_mode") \o
  Maybe(Use("settlement_attempts") \o AutoOpenRuntimeDisputes \o
        Maybe(RecoverAttempt))

ReapExpiredLocks ==
  Use("accepted_matches") \o Use("locked_buy_orders") \o
  Use("accepted_matches") \o Use("locked_sell_orders")

ExpireOrphanedMatches ==
  Use("tasks") \o Use("accepted_matches") \o Maybe(ReleaseBindingAndLocks)

RunReaperTick ==
  Use("tasks") \o Maybe(CleanupTaskBindings) \o Use("settlement_attempts") \o
  ExpireOrphanedMatches \o ReapExpiredLocks \o Use("market_audit") \o
  Maybe(Use("tasks") \o Maybe(CleanupTaskBindings)) \o AutoOpenRuntimeDisputes

\* What the loop does with one task: stopped, running or out of reach.
PollTask ==
  Either(ApplyProviderPoll \o
         Either(CleanupTaskBindings \o Use("market_audit"),
                Use("market_mode") \o
                Maybe(AutoActionsAllowed \o
                  Maybe(Use("tasks") \o
                    Maybe(CollectBuyOrders \o ComputeMatches \o
                          Maybe(AcceptNew))))),
         CleanupTaskBindings \o Use("market_audit")) \o
  PersistAgentState

PollOnce ==
  Use("lifecycle_tick") \o Use("tasks") \o RunRecoveryTick \o RunReaperTick \o
  Maybe(PollTask)

RunRecoveryNow ==
  Gate \o Maybe(Use("lifecycle_tick") \o RunRecoveryTick \o PersistAgentState)

RunReaperNow == Gate \o Maybe(RunReaperTick \o PersistAgentState)

RetrySettlementAttempt ==
  Gate \o Maybe(Use("settlement_attempts") \o Maybe(PersistAgentState))

MarkSettlementAttemptFinal ==
  Gate \o
  Maybe(Use("settlement_attempts") \o Maybe(Use("disputes") \o PersistAgentState))

\* retry and mark-final write the attempt, rollback attempt and tasks, penalty
\* and refund the tasks, the others neither: the disputes are held throughout.
ApplyDisputeAction ==
  Under("disputes",
        Maybe(Either(Use("tasks"),
                     Use("settlement_attempts") \o Maybe(Use("tasks")))))

\* dispute_action_handler and resolve_dispute_handler
DisputeAction ==
  Use("disputes") \o Maybe(ApplyDisputeAction \o Maybe(PersistAgentState))

\* The conflict is disputed while the ledger's guard is alive.
ConfirmPayment ==
  Maybe(Either(Under("confirm_ledger", Maybe(Use("disputes"))),
               Use("confirm_ledger") \o PersistAgentState))

(***************************************************************************)
(* Views of the task, which hold the tasks from end to end.                *)
(***************************************************************************)

AttemptCounts == Use("accept_attempts") \o Use("settlement_attempts")

GetTaskStatus ==
  Under("tasks",
    Maybe(Use("market_mode") \o Use("auto_pause_until_tick") \o
          Use("auto_pause_reason") \o Use("recommended_context_hash") \o
          ConfirmationIsCurrent \o AttemptCounts \o
          Use("locked_buy_orders") \o Use("locked_sell_orders") \o
          Use("market_audit") \o Use("disputes") \o Use("accepted_matches") \o
          Gate))

GetTradeDesk ==
  Under("tasks",
    Maybe(Under("accepted_matches",
                Maybe(Use("recommended_context_hash") \o ConfirmationIsCurrent)) \o
          Maybe(Use("recommended_context_hash") \o ConfirmationIsCurrent) \o
          Use("disputes") \o Gate))

(***************************************************************************)
(* The table.                                                              *)
(***************************************************************************)

Path ==
  [poll_once |-> PollOnce, accept_match |-> AcceptMatch,
   accept_again |-> AcceptAgain, reject_match |-> RejectMatch,
   cancel_match |-> CancelMatch, retry_match |-> RetryMatch,
   start_auto_bidding |-> StartAutoBidding,
   get_buy_orders |-> CollectBuyOrders,
   get_match_records |-> GetMatchRecords,
   create_manual_buy_order |-> CreateManualBuyOrder,
   set_market_mode |-> SetMarketMode, get_market_pricing |-> GetMarketPricing,
   set_market_pricing |-> SetMarketPricing,
   confirm_recommended_band |-> ConfirmRecommendedBand,
   protocol_agreement |-> ProtocolAgreement,
   run_recovery_now |-> RunRecoveryNow, run_reaper_now |-> RunReaperNow,
   retry_settlement_attempt |-> RetrySettlementAttempt,
   mark_settlement_attempt_final |-> MarkSettlementAttemptFinal,
   dispute_action |-> DisputeAction, confirm_payment |-> ConfirmPayment,
   get_task_status |-> GetTaskStatus, get_trade_desk |-> GetTradeDesk]

Handlers == DOMAIN Path

Step(h, i) == Path[h][i]

\* Path[h] has locked, before step i, what it has not unlocked again.  Branches
\* do not change that: they leave scopes out as a whole.
Held ==
  [h \in Handlers |-> [i \in 1 .. Len(Path[h]) + 1 |->
     {Step(h, j).of : j \in {k \in 1 .. i - 1 :
        /\ Step(h, k).do = "lock"
        /\ \A l \in k + 1 .. i - 1 :
             Step(h, l) # [do |-> "unlock", of |-> Step(h, k).of]}}]]

\* The order in which most handlers lock.
Level ==
  [tasks |-> 1, lifecycle_tick |-> 1, pricing_mode |-> 1,
   recommended_band |-> 1, settlement_gateway |-> 2, manual_buy_orders |-> 2,
   protocol_agreements |-> 2, market_mode |-> 2, fixed_price |-> 2,
   auto_pause_until_tick |-> 2, auto_pause_reason |-> 3, band_price |-> 3,
   accepted_matches |-> 3, locked_sell_orders |-> 4, locked_buy_orders |-> 5,
   recommended_context_hash |-> 4, recommended_confirmed |-> 4,
   recommended_confirmed_hash |-> 4, market_audit |-> 4, confirm_ledger |-> 5,
   accept_attempts |-> 6, accept_idempotency_ledger |-> 7,
   settlement_attempts |-> 8, disputes |-> 9, recovery_backoff_until |-> 9]

Mutexes == DOMAIN Level

\* The handlers that do not: a rejection and the list of matches (matches
\* before matches and tasks), an accept whose key comes again (ledger before
\* attempts), an action on a dispute (disputes before attempts and tasks).
Reversing == {"reject_match", "get_match_records", "accept_again", "dispute_action"}

Upwards(h, i) ==
  Step(h, i).do = "lock" =>
    \A mutex \in Held[h][i] : Level[mutex] < Level[Step(h, i).of]

\* Facts about the table, which is a constant: evaluating them is their proof.
ASSUME PathsAssumption ==
  /\ "none" \notin Handlers
  /\ \A h \in Handlers :
       /\ Path[h] \in Seq([do : {"lock", "unlock"}, of : Mutexes]
                            \cup [do : {"branch"}, by : SUBSET Nat])
       /\ \A i \in DOMAIN Path[h] :
            Step(h, i).do = "branch" =>
              \A n \in Step(h, i).by : i + n \in 1 .. Len(Path[h]) + 1

ASSUME OrderAssumption ==
  \A h \in Handlers \ Reversing : \A i \in DOMAIN Path[h] : Upwards(h, i)

ASSUME LevelAssumption == \A mutex \in Mutexes : Level[mutex] \in 1 .. 9

ASSUME ServesAssumption == Serves \in [Threads -> SUBSET Handlers]

VARIABLES
  running,    \* the handler of each thread, "none" while it waits for work
  at          \* the next step of its path

vars == <<running, at>>

Busy(t) == running[t] # "none"

Ahead(t) == Step(running[t], at[t])

\* A mutant of Holds: every guard is bound by a let, and lives to the end of
\* its function.
HoldsToTheEnd(t) ==
  IF Busy(t)
  THEN {Step(running[t], i).of :
          i \in {j \in 1 .. at[t] - 1 : Step(running[t], j).do = "lock"}}
  ELSE {}

\* A thread that has come to the end of its path holds nothing.
Holds(t) == IF Busy(t) THEN Held[running[t]][at[t]] ELSE {}

AtStep(t, kind) ==
  /\ Busy(t)
  /\ at[t] \in DOMAIN Path[running[t]]
  /\ Ahead(t).do = kind

Init ==
  /\ running = [t \in Threads |-> "none"]
  /\ at = [t \in Threads |-> 1]

\* A request arrives, or the interval of the loop has passed.
Begin(t, h) ==
  /\ ~ Busy(t)
  /\ h \in Serves[t]
  /\ running' = [running EXCEPT ![t] = h]
  /\ at' = [at EXCEPT ![t] = 1]

\* A mutex that anybody holds, the thread itself included, is waited for.
Lock(t) ==
  /\ AtStep(t, "lock")
  /\ \A u \in Threads : Ahead(t).of \notin Holds(u)
  /\ at' = [at EXCEPT ![t] = @ + 1]
  /\ UNCHANGED running

Unlock(t) ==
  /\ AtStep(t, "unlock")
  /\ at' = [at EXCEPT ![t] = @ + 1]
  /\ UNCHANGED running

\* A mutant of Choose: offsets count from the step after the branch.
ChooseFurther(t) ==
  /\ AtStep(t, "branch")
  /\ \E n \in Ahead(t).by : at' = [at EXCEPT ![t] = @ + n + 1]
  /\ UNCHANGED running

Choose(t) ==
  /\ AtStep(t, "branch")
  /\ \E n \in Ahead(t).by : at' = [at EXCEPT ![t] = @ + n]
  /\ UNCHANGED running

End(t) ==
  /\ Busy(t)
  /\ at[t] \notin DOMAIN Path[running[t]]
  /\ running' = [running EXCEPT ![t] = "none"]
  /\ at' = [at EXCEPT ![t] = 1]

Go(t) == Lock(t) \/ Unlock(t) \/ Choose(t) \/ End(t)

Next == \E t \in Threads : Go(t) \/ \E h \in Handlers : Begin(t, h)

Spec == Init /\ [][Next]_vars

\* A thread that can go on does.
FairSpec == Spec /\ \A t \in Threads : WF_vars(Go(t))

(***************************************************************************)
(* Properties.                                                             *)
(***************************************************************************)

\* Threads are at a step of their path, or at its end.
TypeOK ==
  /\ running \in [Threads -> Handlers \cup {"none"}]
  /\ at \in [Threads -> Nat]
  /\ \A t \in Threads : Busy(t) => at[t] \in 1 .. Len(Path[running[t]]) + 1

\* t waits for a mutex that u holds.
WaitsFor(t, u) == AtStep(t, "lock") /\ Ahead(t).of \in Holds(u)

\* Threads that only wait for each other, for ever.
Circle(S) == S # {} /\ \A t \in S : \E u \in S : WaitsFor(t, u)

\* Whenever threads block each other for ever, one of them serves one of the
\* four reversing requests.  The loop, the merge, recovery, the reaper, the snapshot, the
\* views of the task and all other requests never block each other, in whatever
\* order they meet.
CirclesReverse ==
  \A S \in SUBSET Threads : Circle(S) => \E t \in S : running[t] \in Reversing

\* A rejection ends: it moves the state of the match, and with it the locks of
\* the orders (docs/system-architecture.md:77).
RejectionEnds ==
  \A t \in Threads : running[t] = "reject_match" ~> running[t] # "reject_match"
=============================================================================
