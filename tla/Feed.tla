-------------------------------- MODULE Feed --------------------------------
(***************************************************************************)
(* From samples to charges: how providerd closes the windows of a job, how *)
(* agentd's loop picks them up, and what stops it from paying for more.    *)
(*                                                                         *)
(* providerd takes a sample every 250 ms and closes a window after 60 of   *)
(* them; only the latest window can be asked for.  The loop of agentd asks *)
(* every 2 s: it counts its tick, reaps the match of a task that does not  *)
(* run, asks for the window, and applies the answer: a new window is       *)
(* charged, enough charged windows are merged and settled if a match is    *)
(* accepted, and budget and stall may pause or stop the task, for good.    *)
(* Then it accepts a match by itself.  Operators accept and release in     *)
(* between, and both daemons may restart.                                  *)
(*                                                                         *)
(* One task and its job.  Settlements are one step with four ends (module  *)
(* Settlement has them in full), and so is acceptance (module Acceptance); *)
(* recovery, which settles no window of the task, is left out.  A window   *)
(* costs one for each active sample.                                       *)
(***************************************************************************)
EXTENDS Integers, FiniteSets, FiniteSetsExt

CONSTANTS
    SamplesPerWindow, \* SAMPLES_PER_WINDOW, 60
    MergeCount,       \* merge_window_count, 2 or 4
    Sla,              \* stall_sla_secs, in polls
    Budget,           \* budget_max
    MaxWindow,        \* bound: how many windows the provider closes
    MaxLag,           \* how many samples the provider takes between two answers if
                      \* the loop is on time, 8
    Operator,         \* what operators do: "accept", "release"
    Faults,           \* what goes wrong
    MaxKinds,         \* bound: how many kinds of faults there are in a behaviour
    None

FaultKinds == {"slow", "offline", "settle", "provider_restart", "crash"}

ASSUME MeterAssumption ==
    /\ SamplesPerWindow \in Nat \ {0} /\ MaxWindow \in Nat /\ MaxLag \in Nat
    /\ MergeCount \in Nat \ {0} /\ Sla \in Nat \ {0} /\ Budget \in Nat
ASSUME EnvironmentAssumption ==
    Operator \subseteq {"accept", "release"} /\ Faults \subseteq FaultKinds /\ MaxKinds \in Nat

VARIABLES
    window, owed,      \* JobRuntime.window_index, owed_window
    count, active,     \* WindowAccumulator.sample_count, active_samples
    lag,               \* samples since the loop was last answered
    pc, answer,        \* where the loop is, and the answer it has got
    status,            \* TaskRuntime.status
    last, lastOwed,    \* last_window_index, last_owed_window
    pending, settled,  \* the indices of pending_windows, settled_windows
    left,              \* the windows of attempts that failed at mark_settling
    charge, spent,     \* the owed_window of each WindowCharge; spent
    idle,              \* the ticks since last_progress_at_secs, as far as they matter
    bound,             \* the status of the match the task is bound to
    receipt,           \* receipts[0] of the evidence bundle
    forced,            \* of the model: an operator accepted while the task did not run
    seen               \* of the model: the faults so far

jobVars  == <<window, owed, count, active>>
taskVars == <<status, last, lastOwed, pending, settled, left, charge, spent, idle, receipt>>
vars == <<jobVars, lag, pc, answer, taskVars, bound, forced, seen>>

-----------------------------------------------------------------------------
Windows  == 1..MaxWindow
Amounts  == 0..SamplesPerWindow
Places   == {"tick", "reap", "fetch", "apply", "auto"}
Answers  == [window : {0} \cup Windows, owed : Amounts]
Statuses == {"running", "pause", "stop"}

ASSUME NoneAssumption == None \notin Answers

TypeOK ==
    /\ window \in {0} \cup Windows /\ owed \in Amounts
    /\ count \in 0..(SamplesPerWindow - 1) /\ active \in 0..count
    /\ lag \in 0..MaxLag
    /\ pc \in Places /\ answer \in Answers \cup {None}
    /\ answer # None <=> pc = "apply"
    /\ status \in Statuses
    /\ last \in {0} \cup Windows /\ lastOwed \in Amounts
    /\ pending \in SUBSET Windows /\ settled \in SUBSET Windows /\ left \in SUBSET Windows
    /\ charge \in [Windows -> Amounts] /\ spent \in Nat
    /\ idle \in 0..(2 * Sla)
    /\ bound \in {"none", "accepted", "settled"}
    /\ receipt \in [window : {0} \cup Windows, owed : Amounts, telemetry : {0} \cup Windows]
    /\ forced \in BOOLEAN /\ seen \in SUBSET FaultKinds

NewReceipt == [window |-> 0, owed |-> 0, telemetry |-> 0]

Init ==
    /\ window = 0 /\ owed = 0 /\ count = 0 /\ active = 0 /\ lag = 0
    /\ pc = "tick" /\ answer = None
    /\ status = "running" /\ last = 0 /\ lastOwed = 0
    /\ pending = {} /\ settled = {} /\ left = {}
    /\ charge = [w \in Windows |-> 0] /\ spent = 0
    /\ idle = 0 /\ receipt = NewReceipt
    /\ bound = "none"
    /\ forced = FALSE /\ seen = {}

Fault(what) ==
    /\ what \in Faults /\ Cardinality(seen \cup {what}) <= MaxKinds
    /\ seen' = seen \cup {what}
Once(what) == what \notin seen /\ Fault(what)

-----------------------------------------------------------------------------
(* providerd: spawn_window_loop, advance_all_jobs_one_sample, ingest_sample. *)

\* A mutant of Closes: the active samples are not reset.
ClosesDirty(a) ==
    /\ window' = window + 1 /\ owed' = active + a
    /\ count' = 0 /\ active' = active + a

Closes(a) ==
    /\ window' = window + 1 /\ owed' = active + a
    /\ count' = 0 /\ active' = 0

\* A sample, active or not, of telemetryd or made up.  The loop of agentd is on
\* time, or it is slow.
Sample(a) ==
    /\ window < MaxWindow
    /\ \/ lag < MaxLag /\ lag' = lag + 1 /\ UNCHANGED seen
       \/ lag = MaxLag /\ Fault("slow") /\ UNCHANGED lag
    /\ IF count + 1 < SamplesPerWindow
       THEN /\ count' = count + 1 /\ active' = active + a
            /\ UNCHANGED <<window, owed>>
       ELSE Closes(a)
    /\ UNCHANGED <<pc, answer, taskVars, bound, forced>>

\* The windows of a job are not persisted: they begin again at 1.
ProviderRestart ==
    /\ Once("provider_restart")
    /\ window' = 0 /\ owed' = 0 /\ count' = 0 /\ active' = 0
    /\ UNCHANGED <<lag, pc, answer, taskVars, bound, forced>>

-----------------------------------------------------------------------------
(* agentd: poll_once.                                                      *)

\* A mutant of Tick: time stands still between windows.
TickWaits ==
    /\ pc = "tick" /\ pc' = "reap"
    /\ UNCHANGED <<jobVars, lag, answer, taskVars, bound, forced, seen>>

Tick ==
    /\ pc = "tick" /\ pc' = "reap"
    /\ idle' = IF idle < 2 * Sla THEN idle + 1 ELSE idle
    /\ UNCHANGED <<jobVars, lag, answer, status, last, lastOwed, pending, settled, left,
                   charge, spent, receipt, bound, forced, seen>>

\* A mutant of Reap: a paused task keeps its match.
ReapOffline ==
    /\ pc = "reap" /\ pc' = "fetch"
    /\ bound' = IF "offline" \in seen THEN "none" ELSE bound
    /\ UNCHANGED <<jobVars, lag, answer, taskVars, forced, seen>>

\* cleanup_stopped_tasks, and handle_provider_offline, which goes on for ever.
Reap ==
    /\ pc = "reap" /\ pc' = "fetch"
    /\ bound' = IF status # "running" \/ "offline" \in seen THEN "none" ELSE bound
    /\ UNCHANGED <<jobVars, lag, answer, taskVars, forced, seen>>

\* The tasks mutex is not held while the answer is under way.
Fetch ==
    /\ pc = "fetch"
    /\ answer' = [window |-> window, owed |-> owed]
    /\ lag' = 0
    /\ pc' = "apply"
    /\ UNCHANGED <<jobVars, taskVars, bound, forced, seen>>

\* No answer: the match is released, the task is not looked at.
FetchFails ==
    /\ pc = "fetch" /\ pc' = "tick"
    /\ Fault("offline")
    /\ bound' = "none"
    /\ UNCHANGED <<jobVars, lag, answer, taskVars, forced>>

-----------------------------------------------------------------------------
(* apply_provider_poll_with_matches                                        *)

\* The next window is taken to cost what this one did.
Budgeted(s, all) ==
    IF all + answer.owed <= Budget THEN s ELSE IF all > Budget THEN "stop" ELSE "pause"

\* assess_stall; only a task that runs is paused or stopped by it.
Stalled(s, ticks) ==
    IF s # "running" \/ ticks < Sla THEN s
    ELSE IF ticks < 2 * Sla THEN "pause" ELSE "stop"

\* update_evidence_for_runtime: the answer's telemetry under the task's window.
Receipt(w, o) == [window |-> w, owed |-> o, telemetry |-> answer.window]

Applied ==
    /\ pc' = "auto" /\ answer' = None
    /\ UNCHANGED <<jobVars, lag, forced>>

\* A mutant of New: off by one.
NewLater == answer.window > last + 1

New == answer.window > last

ApplyKnown ==
    /\ pc = "apply" /\ ~New
    /\ status' = Stalled(Budgeted(status, spent), idle)
    /\ receipt' = Receipt(last, lastOwed)
    /\ Applied
    /\ UNCHANGED <<last, lastOwed, pending, settled, left, charge, spent, idle, bound, seen>>

\* A mutant of Charge: the task keeps the price of the window before.
ChargeOldOwed ==
    /\ pc = "apply" /\ New
    /\ last' = answer.window
    /\ charge' = [charge EXCEPT ![answer.window] = answer.owed]
    /\ spent' = spent + answer.owed /\ idle' = 0
    /\ status' = Stalled(Budgeted(status, spent'), 0)
    /\ receipt' = Receipt(last', lastOwed)
    /\ Applied /\ UNCHANGED lastOwed

Charge ==
    /\ pc = "apply" /\ New
    /\ last' = answer.window /\ lastOwed' = answer.owed
    /\ charge' = [charge EXCEPT ![answer.window] = answer.owed]
    /\ spent' = spent + answer.owed /\ idle' = 0
    /\ status' = Stalled(Budgeted(status, spent'), 0)
    /\ receipt' = Receipt(last', lastOwed')
    /\ Applied

\* A mutant of Oldest: one too many.
OldestMore(ws) == {w \in ws : Cardinality({v \in ws : v < w}) <= MergeCount}

\* The windows a merge takes.
Oldest(ws) == {w \in ws : Cardinality({v \in ws : v < w}) < MergeCount}

Mergeable == bound = "accepted" /\ Cardinality(pending \cup {answer.window}) >= MergeCount

ApplyWaits ==
    /\ Charge /\ ~Mergeable
    /\ pending' = pending \cup {answer.window}
    /\ UNCHANGED <<settled, left, bound, seen>>

\* A mutant of Settles: the windows stay in the queue.
SettlesOn(ws) ==
    /\ pending' = pending \cup {answer.window}
    /\ settled' = settled \cup ws

Settles(ws) ==
    /\ pending' = (pending \cup {answer.window}) \ ws
    /\ settled' = settled \cup ws

\* A match that is settled stays bound and is not used again, unless mark_settled
\* fails.
ApplyMerges ==
    /\ Charge /\ Mergeable
    /\ Settles(Oldest(pending \cup {answer.window}))
    /\ \/ bound' = "settled" /\ UNCHANGED seen
       \/ bound' = "none" /\ Fault("settle")
    /\ UNCHANGED left

\* The provider does not mark its order settling: the match is given up, and the windows
\* are not queued again but left to the attempt that has drained them.
ApplyLeaves ==
    /\ Charge /\ Mergeable
    /\ Fault("settle")
    /\ LET queue == pending \cup {answer.window} IN
       pending' = queue \ Oldest(queue) /\ left' = left \cup Oldest(queue)
    /\ bound' = "none"
    /\ UNCHANGED settled

\* A later stage fails: the windows are queued again and the match is given up.
ApplyFails ==
    /\ Charge /\ Mergeable
    /\ Fault("settle")
    /\ pending' = pending \cup {answer.window}
    /\ bound' = "none"
    /\ UNCHANGED <<settled, left>>

\* The automatic acceptance does not look at the status, either.
AutoAccept ==
    /\ pc = "auto" /\ pc' = "tick"
    /\ bound' \in {bound} \cup (IF bound = "none" THEN {"accepted"} ELSE {})
    /\ UNCHANGED <<jobVars, lag, answer, taskVars, forced, seen>>

-----------------------------------------------------------------------------
(* Operators, at any moment, and a restart, which forgets the task.        *)

OpAccept ==
    /\ "accept" \in Operator /\ bound = "none"
    /\ bound' = "accepted"
    /\ forced' = (forced \/ status # "running")
    /\ UNCHANGED <<jobVars, lag, pc, answer, taskVars, seen>>

OpRelease ==
    /\ "release" \in Operator /\ bound # "none"
    /\ bound' = "none"
    /\ UNCHANGED <<jobVars, lag, pc, answer, taskVars, forced, seen>>

Crash ==
    /\ Once("crash")
    /\ status' = "running" /\ last' = 0 /\ lastOwed' = 0
    /\ pending' = {} /\ settled' = {} /\ left' = {}
    /\ charge' = [w \in Windows |-> 0] /\ spent' = 0
    /\ idle' = 0 /\ receipt' = NewReceipt
    /\ pc' = "tick" /\ answer' = None
    /\ bound' = "none" /\ forced' = FALSE
    /\ UNCHANGED <<jobVars, lag>>

-----------------------------------------------------------------------------
Apply == ApplyKnown \/ ApplyWaits \/ ApplyMerges \/ ApplyLeaves \/ ApplyFails

Loop == Tick \/ Reap \/ Fetch \/ FetchFails \/ Apply \/ AutoAccept

Next ==
    \/ \E a \in {0, 1} : Sample(a)
    \/ Loop
    \/ ProviderRestart \/ OpAccept \/ OpRelease \/ Crash

Spec == Init /\ [][Next]_vars

\* The ticker goes on for ever; whether samples and operators do is left open.
Fairness == WF_vars(Loop)
FairSpec == Spec /\ Fairness

-----------------------------------------------------------------------------
(* Properties.                                                             *)

Total(ch, ws) == MapThenSumSet(LAMBDA w : ch[w], ws)
Cost(ws) == Total(charge, ws)

\* What the task was charged for.
Charged == pending \cup settled \cup left

\* What is spent is the price of what was charged, which is queued, settled or left to
\* recovery, in spite of settlements that fail, and never two of them: no window is
\* charged or settled twice between two starts of the agent, even if the provider begins
\* to count again.
SpentAccounted ==
    /\ pending \cap settled = {} /\ pending \cap left = {} /\ settled \cap left = {}
    /\ spent = Cost(Charged)

\* While the loop is on time and answered, no window passes unseen, although the
\* provider only has the latest one to offer.
NothingMissed ==
    seen \subseteq {"settle"} =>
        /\ Charged = 1..last
        /\ window <= last + (IF pc = "apply" THEN 2 ELSE 1)

\* The receipt describes one window, and what that window cost, unless the provider
\* has begun to count again.
ReceiptAgrees ==
    "provider_restart" \notin seen =>
        /\ receipt.telemetry = receipt.window
        /\ receipt.window # 0 => receipt.owed = charge[receipt.window]

\* The merges of the loop never settle more than the budget and one window, whatever a
\* window costs and however often settlements fail: charging goes on while a task is
\* paused.
PaidWithinBudget == ~forced => Cost(settled) <= Budget + SamplesPerWindow

\* A task that is paused or stopped settles nothing any more, unless an operator accepts
\* a match for it: then a window that is applied before the next reaper tick settles
\* (docs/hard-requirements.md:84).
PausedPaysNothing ==
    [][settled' # settled /\ status # "running" => forced \/ settled' = {}]_vars

\* A provider that closes no more windows is noticed, if it goes on answering: the
\* task is paused or stopped and stays so.
StallNoticed == []<>(pc = "apply") => <>[](status # "running")

\* The charges of the task go through the queue as Charges says: oldest first, in whole
\* batches, each settled at most once, whatever the provider counts and settlements do.
Queue == INSTANCE Charges WITH queued <- pending
KeepsCharges == Queue!Spec
=============================================================================
