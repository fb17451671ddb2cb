----------------------------- MODULE Acceptance -----------------------------
(***************************************************************************)
(* How a match is accepted, released and reaped, in both daemons.          *)
(*                                                                         *)
(* accept_match keeps no mutex over its way: it looks its idempotency key  *)
(* up, prices the buy orders, asks the provider for the sell orders, takes *)
(* two local order locks, binds the task, stores the match, locks the      *)
(* order at the provider, commits its attempt, enters it under its key and *)
(* persists.  A failed provider lock rolls that back.  At the same time    *)
(* the poll loop reaps locks, settles and accepts by itself, and operators *)
(* cancel, expire and retry the match, switch the mode and call the        *)
(* provider's order endpoints.                                             *)
(*                                                                         *)
(* There is one task with its buy order and one sell order, hence one      *)
(* match.  A request for another pair never gets beyond compute_matches or *)
(* the task lookup, and is left out.  tokio runs a task from await to      *)
(* await, on as many worker threads as there are cores.  Prices (module    *)
(* Pricing) always meet; a settlement (module Settlement) is three steps.  *)
(***************************************************************************)
EXTENDS Integers, FiniteSets

CONSTANTS
    Requests,   \* the accept requests of clients for the match
    Keys,       \* x-client-idempotency-key
    KeyOf,      \* the key of a request, or None
    Loop, Op,   \* the poll loop, and the operators' requests, one at a time
    None,
    MaxHold,    \* the ticks a request pauses automatic actions for, 3, or one less
    Many,       \* agentd has more than one worker thread
    Operator,   \* the operators' requests this instance allows
    MaxKinds,   \* bound: how many kinds of failure there are in a behaviour
    Faults      \* the failures of the environment it allows

OperatorKinds == {"cancel", "retry", "mode", "reap", "order", "suggest"}
FaultKinds    == {"crash", "provider_down", "reply_lost", "provider_restart", "task_stopped"}
\* What the provider's operators do to the sell order under a match counts, too.
Disturbances  == FaultKinds \cup {"order", "suggest"}

ASSUME RequestsAssumption ==
    /\ KeyOf \in [Requests -> Keys \cup {None}] /\ None \notin Keys \cup Requests
    /\ Loop \notin Requests /\ Op \notin Requests \cup {Loop}
ASSUME InstanceAssumption ==
    /\ MaxHold \in Nat \ {0} /\ MaxKinds \in Nat
    /\ Many \in BOOLEAN /\ Operator \subseteq OperatorKinds /\ Faults \subseteq FaultKinds

VARIABLES
    pc, next,            \* where each thread is; where it goes on after a release
    buyOpen, sellOpen,   \* what an accept has seen of the buy and the sell order
    status,              \* AcceptAttempt.status of a request's latest attempt
    ledger,              \* accept_idempotency_ledger
    bound, binding,      \* bound_match_id, the status of the accepted match
    buyLock, sellLock,   \* locked_buy_orders, locked_sell_orders
    mode, hold,          \* market_mode, the ticks automatic actions still pause
    stopped,             \* TaskRuntime.status is not running
    offline,             \* market_audit has a provider_offline line
    snap, file,          \* the snapshot of each thread, and the state file
    poisoned,            \* a thread panicked with the tasks mutex held
    order, double,       \* the provider's sell order; a second one with its id is open
    saved,               \* order and double in the provider's state file
    disturbed            \* of the model: what went wrong so far

acceptVars == <<buyOpen, sellOpen, status>>
matchVars  == <<bound, binding>>
lockVars   == <<buyLock, sellLock>>
modeVars   == <<mode, hold>>
loopVars   == <<stopped, offline, poisoned>>
fileVars   == <<snap, file>>
sellVars   == <<order, double, saved>>
vars == <<pc, next, acceptVars, ledger, matchVars, lockVars, modeVars, loopVars, fileVars,
          sellVars, disturbed>>

-----------------------------------------------------------------------------
Acceptors == Requests \cup {Loop}
Threads   == Requests \cup {Loop, Op}

Modes         == {"manual", "auto", "hybrid"}
AttemptStates == {"none", "validating", "locking", "committed", "failed"}
\* accepted stands for settling too, released for every other status.
Bindings      == {"none", "accepted", "settled", "released"}
OrderStates   == {"open", "locked", "settling", "settled", "closed"}

Places ==
    {"idle",
     \* accept_match
     "asking", "check", "match", "buy", "sell", "bind", "store", "lock", "commit", "enter",
     "undo_match", "undo_buy", "undo_sell", "undo_bind",
     \* release_binding_and_locks
     "unlock_buy", "unlock_sell", "reopen", "unbind", "mark",
     \* what follows: retry_match, converge_mode_state, set_auto_pause_...
     "remove", "attempts", "hold_short", "hold_long",
     \* run_reaper_tick, apply_provider_poll, the automatic accept, persist_agent_state
     "reap_buy", "reap_sell", "reaped", "poll", "merge", "drain", "settle", "auto",
     "looking", "lost", "persist", "write"}

\* The places where a thread waits for a request or for the network.
Awaits == {"idle", "asking", "poll", "looking"}

Snapshots == [status : [Requests -> AttemptStates], ledger : [Keys -> Requests \cup {None}],
              binding : Bindings, offline : BOOLEAN]

TypeOK ==
    /\ pc \in [Threads -> Places] /\ next \in [Threads -> Places]
    /\ buyOpen \in [Acceptors -> BOOLEAN] /\ sellOpen \in [Acceptors -> BOOLEAN]
    /\ status \in [Requests -> AttemptStates]
    /\ ledger \in [Keys -> Requests \cup {None}]
    /\ bound \in BOOLEAN /\ binding \in Bindings
    /\ buyLock \in BOOLEAN /\ sellLock \in BOOLEAN
    /\ mode \in Modes /\ hold \in 0..MaxHold
    /\ stopped \in BOOLEAN /\ offline \in BOOLEAN /\ poisoned \in BOOLEAN
    /\ snap \in [Threads -> Snapshots] /\ file \in Snapshots
    /\ order \in OrderStates /\ double \in BOOLEAN
    /\ saved \in [order : OrderStates, double : BOOLEAN]
    /\ disturbed \subseteq Disturbances

NewSnapshot == [status |-> [q \in Requests |-> "none"], ledger |-> [k \in Keys |-> None],
                binding |-> "none", offline |-> FALSE]

Init ==
    /\ pc = [t \in Threads |-> "idle"] /\ next = [t \in Threads |-> "idle"]
    /\ buyOpen = [a \in Acceptors |-> FALSE] /\ sellOpen = [a \in Acceptors |-> FALSE]
    /\ status = NewSnapshot.status /\ ledger = NewSnapshot.ledger
    /\ bound = FALSE /\ binding = "none"
    /\ buyLock = FALSE /\ sellLock = FALSE
    /\ mode = "auto" /\ hold = 0
    /\ stopped = FALSE /\ offline = FALSE /\ poisoned = FALSE
    /\ snap = [t \in Threads |-> NewSnapshot] /\ file = NewSnapshot
    /\ order = "open" /\ double = FALSE
    /\ saved = [order |-> "open", double |-> FALSE]
    /\ disturbed = {}

\* Thread t may take its next step: on a single worker it is not in another
\* one's middle, and a poisoned mutex stops the daemon.
Turn(t) == ~poisoned /\ (Many \/ \A u \in Threads \ {t} : pc[u] \in Awaits)

At(t, place)   == pc[t] = place /\ Turn(t)
Goto(t, place) == pc' = [pc EXCEPT ![t] = place]
\* The attempts of the loop have no key and are never looked at again.
Becomes(t, s) ==
    status' = IF t \in Requests THEN [status EXCEPT ![t] = s] ELSE status

\* The poll holds the tasks mutex while it merges and settles.
TasksFree == pc[Loop] \notin {"merge", "drain", "settle"}

MayDisturb(what) ==
    what \in Faults \cup Operator /\ Cardinality(disturbed \cup {what}) <= MaxKinds

Disturb(what) == MayDisturb(what) /\ disturbed' = disturbed \cup {what}

-----------------------------------------------------------------------------
(* Calls to the provider's order endpoints.                                 *)

\* The endpoints find the first order with the id.  Which status answers a call
\* with success, and what the order is then.
Takes(call, s) ==
    CASE call = "lock"          -> s \in {"open", "locked"}
      [] call = "mark_settling" -> s \in {"locked", "settling"}
      [] call = "mark_settled"  -> s \in {"settling", "settled"}
      [] call = "release"       -> TRUE
Order(call, s) ==
    CASE call = "lock"          -> "locked"
      [] call = "mark_settling" -> "settling"
      [] call = "mark_settled"  -> "settled"
      [] call = "release"       -> IF s = "settled" THEN s ELSE "open"

Posted(call) ==
    /\ Takes(call, order)
    /\ order' = Order(call, order)
    /\ UNCHANGED disturbed

\* Refused; or the provider is down, or demands its agreement; or the reply is lost.
PostFailed(call) ==
    \/ ~Takes(call, order) /\ UNCHANGED <<order, disturbed>>
    \/ Disturb("provider_down") /\ UNCHANGED order
    \/ Disturb("reply_lost") /\ Takes(call, order) /\ order' = Order(call, order)

-----------------------------------------------------------------------------
(* POST /internal/market/matches/accept                                    *)

\* collect_buy_orders: the task's order is open.  A manual market has other
\* orders only, a paused automatic one has none.
BuyOrderOpen ==
    /\ mode = "hybrid" \/ (mode = "auto" /\ hold = 0)
    /\ ~buyLock
    /\ ~(bound /\ binding \in {"accepted", "settled"})

SellOrderOpen == order = "open" \/ double

Known(q) == KeyOf[q] # None /\ ledger[KeyOf[q]] # None

\* The same key again is answered already_accepted and changes nothing, if the
\* attempt is committed; otherwise another attempt is begun.
Replayed(q) == Known(q) /\ status[ledger[KeyOf[q]]] = "committed"

\* begin_accept_attempt, and the buy orders; then the provider is asked.
AcceptBegin(t) ==
    /\ TasksFree
    /\ Becomes(t, "validating")
    /\ buyOpen' = [buyOpen EXCEPT ![t] = BuyOrderOpen]
    /\ Goto(t, "asking")
    /\ UNCHANGED <<next, sellOpen, ledger, matchVars, lockVars, modeVars, loopVars,
                   fileVars, sellVars, disturbed>>

AcceptAsks(q) == At(q, "idle") /\ ~Replayed(q) /\ AcceptBegin(q)

\* The loop goes on with its round, a request is answered.
After(t) == IF t = Loop THEN "persist" ELSE "idle"

\* The provider lists its orders, whenever the request gets there.
AcceptAnswered(t) ==
    /\ At(t, "asking")
    /\ \/ /\ sellOpen' = [sellOpen EXCEPT ![t] = SellOrderOpen]
          /\ Goto(t, "check")
          /\ UNCHANGED <<buyOpen, status, disturbed>>
       \/ /\ Disturb("provider_down")
          /\ Becomes(t, "failed") /\ Goto(t, After(t))
          /\ buyOpen' = [buyOpen EXCEPT ![t] = FALSE] /\ UNCHANGED sellOpen
    /\ UNCHANGED <<next, ledger, matchVars, lockVars, modeVars, loopVars,
                   fileVars, sellVars>>

\* already_accepted; the attempt just begun is left in validating.
AcceptCheck(t) ==
    /\ At(t, "check")
    /\ IF binding \in {"accepted", "settled"}
       THEN /\ Goto(t, After(t))
            /\ buyOpen' = [buyOpen EXCEPT ![t] = FALSE]
            /\ sellOpen' = [sellOpen EXCEPT ![t] = FALSE]
       ELSE Goto(t, "match") /\ UNCHANGED <<buyOpen, sellOpen>>
    /\ UNCHANGED <<next, status, ledger, matchVars, lockVars, modeVars, loopVars,
                   fileVars, sellVars, disturbed>>

\* compute_matches on the orders seen and the locks of now.
AcceptMatch(t) ==
    /\ At(t, "match")
    /\ IF buyOpen[t] /\ sellOpen[t] /\ ~buyLock /\ ~sellLock
       THEN Becomes(t, "locking") /\ Goto(t, "buy")
       ELSE Becomes(t, "failed") /\ Goto(t, After(t))
    /\ buyOpen' = [buyOpen EXCEPT ![t] = FALSE] /\ sellOpen' = [sellOpen EXCEPT ![t] = FALSE]
    /\ UNCHANGED <<next, ledger, matchVars, lockVars, modeVars, loopVars, fileVars,
                   sellVars, disturbed>>

\* A lock that is taken ends the request and leaves the attempt in locking.
AcceptBuy(t) ==
    /\ At(t, "buy")
    /\ IF buyLock THEN Goto(t, After(t)) ELSE Goto(t, "sell")
    /\ buyLock' = TRUE
    /\ UNCHANGED <<next, acceptVars, ledger, matchVars, sellLock, modeVars, loopVars,
                   fileVars, sellVars, disturbed>>

\* The conflict gives the buy order back while the sell locks are held.
AcceptSell(t) ==
    /\ At(t, "sell")
    /\ IF sellLock THEN Goto(t, After(t)) /\ buyLock' = FALSE
                   ELSE Goto(t, "bind") /\ UNCHANGED buyLock
    /\ sellLock' = TRUE
    /\ UNCHANGED <<next, acceptVars, ledger, matchVars, modeVars, loopVars, fileVars,
                   sellVars, disturbed>>

AcceptBind(t) ==
    /\ At(t, "bind") /\ TasksFree
    /\ bound' = TRUE
    /\ Goto(t, "store")
    /\ UNCHANGED <<next, acceptVars, ledger, binding, lockVars, modeVars, loopVars,
                   fileVars, sellVars, disturbed>>

AcceptStore(t) ==
    /\ At(t, "store")
    /\ binding' = "accepted"
    /\ Goto(t, "lock")
    /\ UNCHANGED <<next, acceptVars, ledger, bound, lockVars, modeVars, loopVars,
                   fileVars, sellVars, disturbed>>

AcceptLock(t) ==
    /\ At(t, "lock")
    /\ \/ Posted("lock") /\ Goto(t, "commit") /\ UNCHANGED status
       \/ PostFailed("lock") /\ Becomes(t, "failed") /\ Goto(t, "undo_match")
    /\ UNCHANGED <<next, buyOpen, sellOpen, ledger, matchVars, lockVars, modeVars,
                   loopVars, fileVars, double, saved>>

\* The rollback, which does not release the order.
AcceptUndo(t) ==
    /\ \/ /\ At(t, "undo_match") /\ Goto(t, "undo_buy")
          /\ binding' = "none"
          /\ UNCHANGED <<bound, lockVars>>
       \/ /\ At(t, "undo_buy") /\ Goto(t, "undo_sell")
          /\ buyLock' = FALSE
          /\ UNCHANGED <<matchVars, sellLock>>
       \/ /\ At(t, "undo_sell") /\ Goto(t, "undo_bind")
          /\ sellLock' = FALSE
          /\ UNCHANGED <<matchVars, buyLock>>
       \/ /\ At(t, "undo_bind") /\ TasksFree /\ Goto(t, After(t))
          /\ bound' = FALSE
          /\ UNCHANGED <<binding, lockVars>>
    /\ UNCHANGED <<next, acceptVars, ledger, modeVars, loopVars, fileVars, sellVars,
                   disturbed>>

\* A mutant of AcceptCommit: the status is left to the persisting of later.
AcceptCommitLater(t) ==
    /\ At(t, "commit")
    /\ Goto(t, "enter")
    /\ UNCHANGED <<next, acceptVars, ledger, matchVars, lockVars, modeVars, loopVars,
                   fileVars, sellVars, disturbed>>

\* The mode read here only words the audit: the pause is for auto alone, and it
\* is asked for in the other modes.
AcceptCommit(t) ==
    /\ At(t, "commit")
    /\ Becomes(t, "committed")
    /\ Goto(t, "enter")
    /\ UNCHANGED <<next, buyOpen, sellOpen, ledger, matchVars, lockVars, modeVars,
                   loopVars, fileVars, sellVars, disturbed>>

AcceptEnter(t) ==
    /\ At(t, "enter")
    /\ ledger' = IF t \in Requests /\ KeyOf[t] # None
                 THEN [ledger EXCEPT ![KeyOf[t]] = t] ELSE ledger
    /\ Goto(t, "persist")
    /\ UNCHANGED <<next, acceptVars, matchVars, lockVars, modeVars, loopVars, fileVars,
                   sellVars, disturbed>>

-----------------------------------------------------------------------------
(* release_binding_and_locks, the requests that use it, and their pause.    *)

Releasing(t, then) == Goto(t, "unlock_buy") /\ next' = [next EXCEPT ![t] = then]

UnlockBuy(t) ==
    /\ At(t, "unlock_buy") /\ Goto(t, "unlock_sell")
    /\ buyLock' = FALSE
    /\ UNCHANGED <<next, acceptVars, ledger, matchVars, sellLock, modeVars, loopVars,
                   fileVars, sellVars, disturbed>>

UnlockSell(t) ==
    /\ At(t, "unlock_sell") /\ Goto(t, "reopen")
    /\ sellLock' = FALSE
    /\ UNCHANGED <<next, acceptVars, ledger, matchVars, buyLock, modeVars, loopVars,
                   fileVars, sellVars, disturbed>>

\* A mutant of Reopen: the order is not given back to the provider.
ReopenNothing(t) ==
    /\ At(t, "reopen") /\ Goto(t, "unbind")
    /\ UNCHANGED <<next, acceptVars, ledger, matchVars, lockVars, modeVars, loopVars,
                   fileVars, sellVars, disturbed>>

\* What the provider answers is ignored.
Reopen(t) ==
    /\ At(t, "reopen") /\ Goto(t, "unbind")
    /\ Posted("release") \/ PostFailed("release")
    /\ UNCHANGED <<next, acceptVars, ledger, matchVars, lockVars, modeVars, loopVars,
                   fileVars, double, saved>>

\* A mutant of Unbind: it takes the task for the one of another match.
UnbindNothing(t) ==
    /\ At(t, "unbind") /\ TasksFree /\ Goto(t, "mark")
    /\ UNCHANGED <<next, acceptVars, ledger, matchVars, lockVars, modeVars, loopVars,
                   fileVars, sellVars, disturbed>>

Unbind(t) ==
    /\ At(t, "unbind") /\ TasksFree /\ Goto(t, "mark")
    /\ bound' = FALSE
    /\ UNCHANGED <<next, acceptVars, ledger, binding, lockVars, modeVars, loopVars,
                   fileVars, sellVars, disturbed>>

\* The match may be gone by now, and stays so.
Mark(t) ==
    /\ At(t, "mark") /\ Goto(t, next[t])
    /\ next' = [next EXCEPT ![t] = "idle"]
    /\ binding' = IF binding = "none" THEN "none" ELSE "released"
    /\ UNCHANGED <<acceptVars, ledger, bound, lockVars, modeVars, loopVars, fileVars,
                   sellVars, disturbed>>

Release(t) == UnlockBuy(t) \/ UnlockSell(t) \/ Reopen(t) \/ Unbind(t) \/ Mark(t)

\* cancel and expire of a match there is.  A rejection is left out, because it never
\* ends: it holds the accepted matches while it gives back the locks, the order and
\* the task, and then blocks at Mark, which takes them again (LockOrder).
OpCancel ==
    /\ "cancel" \in Operator
    /\ At(Op, "idle") /\ binding # "none"
    /\ Releasing(Op, "hold_long")
    /\ UNCHANGED <<acceptVars, ledger, matchVars, lockVars, modeVars, loopVars, fileVars,
                   sellVars, disturbed>>

OpRetry ==
    /\ "retry" \in Operator
    /\ At(Op, "idle")
    /\ IF binding # "none" THEN Releasing(Op, "remove")
                           ELSE Goto(Op, "remove") /\ UNCHANGED next
    /\ UNCHANGED <<acceptVars, ledger, matchVars, lockVars, modeVars, loopVars, fileVars,
                   sellVars, disturbed>>

\* set_market_mode, then converge_mode_state if the mode is another.
OpMode(m) ==
    /\ "mode" \in Operator
    /\ At(Op, "idle")
    /\ mode' = m
    /\ IF m = mode THEN Goto(Op, "persist") /\ UNCHANGED next
       ELSE IF binding = "accepted" THEN Releasing(Op, "attempts")
       ELSE Goto(Op, "attempts") /\ UNCHANGED next
    /\ UNCHANGED <<acceptVars, ledger, matchVars, lockVars, hold, loopVars, fileVars,
                   sellVars, disturbed>>

\* Attempts in flight are failed.  Their requests do not look.
OpFollows ==
    /\ \/ /\ At(Op, "remove")
          /\ binding' = "none"
          /\ UNCHANGED status
       \/ /\ At(Op, "attempts")
          /\ status' = [q \in Requests |->
                           IF status[q] \in {"validating", "locking"} THEN "failed"
                           ELSE status[q]]
          /\ UNCHANGED binding
    /\ Goto(Op, "hold_short")
    /\ UNCHANGED <<next, buyOpen, sellOpen, ledger, bound, lockVars, modeVars, loopVars,
                   fileVars, sellVars, disturbed>>

\* set_auto_pause_for_manual_override.
Hold(place, ticks) ==
    /\ At(Op, place)
    /\ hold' = IF mode = "auto" /\ hold < ticks THEN ticks ELSE hold
    /\ Goto(Op, "persist")
    /\ UNCHANGED <<next, acceptVars, ledger, matchVars, lockVars, mode, loopVars,
                   fileVars, sellVars, disturbed>>

-----------------------------------------------------------------------------
(* persist_agent_state: the snapshot is complete when its last mutex is     *)
(* taken, and then it is written.                                           *)

Persist(t) ==
    /\ At(t, "persist")
    /\ snap' = [snap EXCEPT ![t] = [status |-> status, ledger |-> ledger,
                                    binding |-> binding, offline |-> offline]]
    /\ Goto(t, "write")
    /\ UNCHANGED <<next, acceptVars, ledger, matchVars, lockVars, modeVars, loopVars, file,
                   sellVars, disturbed>>

Write(t) ==
    /\ At(t, "write")
    /\ file' = snap[t]
    /\ snap' = [snap EXCEPT ![t] = NewSnapshot]
    /\ Goto(t, "idle")
    /\ UNCHANGED <<next, acceptVars, ledger, matchVars, lockVars, modeVars, loopVars,
                   sellVars, disturbed>>

-----------------------------------------------------------------------------
(* The poll loop, and the operator's run of the reaper.                     *)

\* cleanup_stopped_tasks releases whatever match the task has.
Reaping(t) ==
    IF stopped /\ binding # "none" THEN Releasing(t, "reap_buy")
                                   ELSE Goto(t, "reap_buy") /\ UNCHANGED next

\* A mutant of LoopTick: the tick does not saturate.
LoopTickBelow ==
    /\ At(Loop, "idle")
    /\ hold' = hold - 1
    /\ Reaping(Loop)
    /\ UNCHANGED <<acceptVars, ledger, matchVars, lockVars, mode, loopVars, fileVars,
                   sellVars, disturbed>>

\* lifecycle_tick; recovery is in module Settlement.
LoopTick ==
    /\ At(Loop, "idle")
    /\ hold' = IF hold > 0 THEN hold - 1 ELSE 0
    /\ Reaping(Loop)
    /\ UNCHANGED <<acceptVars, ledger, matchVars, lockVars, mode, loopVars, fileVars,
                   sellVars, disturbed>>

OpReap ==
    /\ "reap" \in Operator
    /\ At(Op, "idle") /\ TasksFree
    /\ Reaping(Op)
    /\ UNCHANGED <<acceptVars, ledger, matchVars, lockVars, modeVars, loopVars, fileVars,
                   sellVars, disturbed>>

\* reap_expired_locks keeps the locks of active matches.  Then an offline line of
\* any age in the audit releases the match.
ReapLocks(t) ==
    /\ \/ /\ At(t, "reap_buy") /\ Goto(t, "reap_sell")
          /\ buyLock' = (buyLock /\ binding = "accepted")
          /\ UNCHANGED <<sellLock, next>>
       \/ /\ At(t, "reap_sell")
          /\ sellLock' = (sellLock /\ binding = "accepted")
          /\ IF offline /\ binding # "none" THEN Releasing(t, "reaped")
                                            ELSE Goto(t, "reaped") /\ UNCHANGED next
          /\ UNCHANGED buyLock
    /\ UNCHANGED <<acceptVars, ledger, matchVars, modeVars, loopVars, fileVars, sellVars,
                   disturbed>>

Reaped(t) ==
    /\ At(t, "reaped")
    /\ Goto(t, IF t = Loop THEN "poll" ELSE "persist")
    /\ UNCHANGED <<next, acceptVars, ledger, matchVars, lockVars, modeVars, loopVars,
                   fileVars, sellVars, disturbed>>

\* The provider reports the job, or not: then the match is released and the
\* audit says so.
LoopPolled ==
    /\ At(Loop, "poll")
    /\ \/ /\ Goto(Loop, "merge")
          /\ \/ UNCHANGED <<stopped, disturbed>>
             \/ stopped' = TRUE /\ Disturb("task_stopped")
          /\ UNCHANGED next
       \/ /\ Disturb("provider_down")
          /\ IF binding # "none" THEN Releasing(Loop, "lost")
                                 ELSE Goto(Loop, "lost") /\ UNCHANGED next
          /\ UNCHANGED stopped
    /\ UNCHANGED <<acceptVars, ledger, matchVars, lockVars, modeVars, offline, poisoned,
                   fileVars, sellVars>>

LoopLost ==
    /\ At(Loop, "lost")
    /\ offline' = TRUE
    /\ Goto(Loop, "persist")
    /\ UNCHANGED <<next, acceptVars, ledger, matchVars, lockVars, modeVars, stopped,
                   poisoned, fileVars, sellVars, disturbed>>

\* maybe_merge_and_settle, if enough windows wait: the match is looked up...
LoopMerges ==
    /\ At(Loop, "merge")
    /\ \/ Goto(Loop, "auto")
       \/ bound /\ binding = "accepted" /\ Goto(Loop, "drain")
    /\ UNCHANGED <<next, acceptVars, ledger, matchVars, lockVars, modeVars, loopVars,
                   fileVars, sellVars, disturbed>>

\* release_after_failure, with the accepted matches held.
SettlementFails ==
    /\ bound' = FALSE
    /\ binding' = IF binding = "none" THEN "none" ELSE "released"
    /\ buyLock' = (buyLock /\ binding = "none")
    /\ sellLock' = (sellLock /\ binding = "none")
    /\ Goto(Loop, "auto")

GivenBack ==
    IF binding = "none" THEN UNCHANGED <<order, disturbed>>
    ELSE Posted("release") \/ PostFailed("release")

\* ...and looked up again, with expect, before it is marked settling.
LoopDrains ==
    /\ At(Loop, "drain")
    /\ poisoned' = (binding = "none")
    /\ IF binding = "none"
       THEN UNCHANGED <<pc, matchVars, lockVars, order, disturbed>>
       ELSE \/ /\ Posted("mark_settling")
               /\ binding' = "accepted"
               /\ Goto(Loop, "settle")
               /\ UNCHANGED <<bound, lockVars>>
            \/ /\ \/ ~Takes("mark_settling", order) /\ GivenBack
                  \/ Disturb("provider_down") /\ order' \in {order, Order("release", order)}
               /\ SettlementFails
    /\ UNCHANGED <<next, acceptVars, ledger, modeVars, stopped, offline, fileVars, double,
                   saved>>

\* The stages of module Settlement: they end with a settled order, or not.
LoopSettles ==
    /\ At(Loop, "settle")
    /\ \/ /\ Posted("mark_settled")
          /\ binding' = IF binding = "none" THEN "none" ELSE "settled"
          /\ Goto(Loop, "auto")
          /\ UNCHANGED <<bound, lockVars>>
       \/ SettlementFails /\ GivenBack
    /\ UNCHANGED <<next, acceptVars, ledger, modeVars, loopVars, fileVars, double,
                   saved>>

\* The automatic acceptance looks for a match first...
LoopAuto ==
    /\ At(Loop, "auto")
    /\ IF mode = "auto" /\ hold = 0 /\ ~bound
       THEN Goto(Loop, "looking") /\ buyOpen' = [buyOpen EXCEPT ![Loop] = BuyOrderOpen]
       ELSE Goto(Loop, "persist") /\ UNCHANGED buyOpen
    /\ UNCHANGED <<next, sellOpen, status, ledger, matchVars, lockVars, modeVars, loopVars,
                   fileVars, sellVars, disturbed>>

\* ...and accepts it as a request without a key.
LoopLooked ==
    LET matches == buyOpen[Loop] /\ SellOrderOpen /\ ~buyLock /\ ~sellLock IN
    /\ At(Loop, "looking")
    /\ \/ matches /\ AcceptBegin(Loop)
       \/ /\ \/ ~matches /\ UNCHANGED disturbed
             \/ Disturb("provider_down")
          /\ Goto(Loop, "persist")
          /\ buyOpen' = [buyOpen EXCEPT ![Loop] = FALSE]
          /\ UNCHANGED <<next, sellOpen, status, ledger, matchVars, lockVars, modeVars,
                         loopVars, fileVars, sellVars>>

-----------------------------------------------------------------------------
(* The provider's own operators, and restarts.                              *)

agentVars == <<pc, next, acceptVars, ledger, matchVars, lockVars, modeVars, loopVars, fileVars>>

\* The state file also is written by every other request that persists, which
\* matters only if the provider may restart.
ProviderSaves ==
    /\ MayDisturb("provider_restart")
    /\ saved' = [order |-> order, double |-> double]
    /\ UNCHANGED <<agentVars, order, double, disturbed>>

\* cancel, expire and retry of the sell order.
OrderRequest(to) ==
    /\ order' = IF to = "open" /\ order # "closed" THEN order ELSE to
    /\ saved' = [order |-> order', double |-> double]
    /\ Disturb("order")
    /\ UNCHANGED <<agentVars, double>>

\* In hybrid mode a suggestion is made of the order whenever there is none; once it
\* is confirmed there is another open order with the same id.
ConfirmSuggested ==
    /\ Disturb("suggest")
    /\ double' = TRUE
    /\ UNCHANGED <<agentVars, order, saved>>

\* Locks and settlements are saved only by chance.
ProviderRestart ==
    /\ Disturb("provider_restart")
    /\ order' = saved.order /\ double' = saved.double
    /\ UNCHANGED <<agentVars, saved>>

\* load_agent_state restores matches, attempts, keys and audit, no task and no lock.
Crash ==
    /\ Disturb("crash")
    /\ pc' = [t \in Threads |-> "idle"] /\ next' = [t \in Threads |-> "idle"]
    /\ buyOpen' = [a \in Acceptors |-> FALSE] /\ sellOpen' = [a \in Acceptors |-> FALSE]
    /\ status' = file.status /\ ledger' = file.ledger
    /\ binding' = file.binding /\ offline' = file.offline
    /\ bound' = FALSE /\ buyLock' = FALSE /\ sellLock' = FALSE
    /\ mode' = "auto" /\ hold' = 0
    /\ stopped' = FALSE /\ poisoned' = FALSE
    /\ snap' = [t \in Threads |-> NewSnapshot]
    /\ UNCHANGED <<file, sellVars>>

-----------------------------------------------------------------------------
Accept(t) ==
    \/ AcceptAnswered(t) \/ AcceptCheck(t) \/ AcceptMatch(t) \/ AcceptBuy(t)
    \/ AcceptSell(t) \/ AcceptBind(t) \/ AcceptStore(t) \/ AcceptLock(t)
    \/ AcceptUndo(t) \/ AcceptCommit(t) \/ AcceptEnter(t)

LoopNext ==
    \/ LoopTick \/ ReapLocks(Loop) \/ Reaped(Loop) \/ LoopPolled \/ LoopLost
    \/ LoopMerges \/ LoopDrains \/ LoopSettles \/ LoopAuto \/ LoopLooked
    \/ Accept(Loop) \/ Release(Loop) \/ Persist(Loop) \/ Write(Loop)

RequestNext(q) == AcceptAsks(q) \/ Accept(q) \/ Persist(q) \/ Write(q)

OpBegins == OpCancel \/ OpRetry \/ OpReap \/ \E m \in Modes : OpMode(m)
OpGoesOn ==
    \/ OpFollows \/ Hold("hold_short", MaxHold - 1) \/ Hold("hold_long", MaxHold)
    \/ ReapLocks(Op) \/ Reaped(Op) \/ Release(Op) \/ Persist(Op) \/ Write(Op)

Environment ==
    \/ ProviderSaves \/ OrderRequest("open") \/ OrderRequest("closed")
    \/ ConfirmSuggested \/ ProviderRestart \/ Crash

Next == LoopNext \/ (\E q \in Requests : RequestNext(q)) \/ OpBegins \/ OpGoesOn \/ Environment

Spec == Init /\ [][Next]_vars

-----------------------------------------------------------------------------
(* Properties.                                                             *)

AtRest == \A t \in Threads : pc[t] \in Awaits

\* On one worker thread, whenever every thread waits: the bound task, the stored
\* match and the two order locks say the same.  A restart forgets the first and the
\* last, and the loop reaps the locks of a settled match (docs/acceptance.md:414).
MatchAgrees ==
    ~Many /\ AtRest =>
        /\ bound => binding \in {"accepted", "settled"}
        /\ binding = "accepted" /\ "crash" \notin disturbed => bound /\ buyLock /\ sellLock
        /\ buyLock \/ sellLock => binding \in {"accepted", "settled"}
        /\ buyLock <=> sellLock

\* And the provider's order is locked for a match that is accepted, and for no
\* other, as long as no call fails and nobody restarts a daemon or closes the order.
OrderAgrees ==
    ~Many /\ AtRest /\ disturbed \subseteq {"task_stopped", "suggest"} =>
        (order \in {"locked", "settling"} <=> binding = "accepted")

\* A key is entered for a committed attempt only, in memory, in snapshots and in
\* the file, on any number of worker threads: a replay never finds an attempt that
\* a mode switch may still fail (docs/acceptance.md:438).
LedgerCommitted ==
    \A k \in Keys :
        /\ ledger[k] # None => status[ledger[k]] = "committed"
        /\ \A s \in {snap[t] : t \in Threads} \cup {file} :
               s.ledger[k] # None => s.status[s.ledger[k]] = "committed"

\* The second look of the merge finds the match, as its expect says.  On several
\* worker threads it need not (agentd main.rs:3808).
MergeFindsMatch == ~poisoned
=============================================================================
