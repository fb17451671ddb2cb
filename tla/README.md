# SliceStream: specification, model checking and proofs

SliceStream sells compute by the window. `agentd` (the buyer's side) polls the
provider for finished windows, turns them into charges, and settles the charges
through a fiber node; `providerd` keeps the sell orders, the meter and a record of
what it was paid. This directory specifies, in TLA+, how a match is accepted and
released, how prices are confirmed, how windows become charges, how charges are
settled and recovered, what the provider records, and in which order the agent
locks its mutexes. TLC checks each on small instances, and TLAPS proves the main
invariants for all instances.

## 1. Inventory

| Component | State it keeps | Operations | Talks to | Hard behaviour |
|---|---|---|---|---|
| Settlement (agentd `main.rs`) | `TaskRuntime` (queue, settled windows, bills), `SettlementAttempt` | poll, merge, five stages | provider by HTTP, fiber node by RPC, all shared maps | each stage is an external call that fails, is refused by the guard, or loses its answer |
| Recovery (agentd) | the attempts, backoff deadlines | tick, resume, replay of a stage | as above | two runners at once (poll loop, operator), stale readings, reexecution |
| Reaper (agentd) | attempts, locks, matches, disputes | tick | as above | rewrites attempts others work on |
| Matches (agentd `market_support.rs`, `accept_match`) | accepted matches, order locks, accept attempts, keys | accept, reject, cancel, expire, retry, release | sell orders, tasks | bound before locked; released in the middle of a merge; a rejection that blocks itself |
| Disputes (agentd) | dispute records | scan, open, eight actions | attempts, bills | actions overwrite attempts of any status; lock order |
| Market mode and pricing (agentd, providerd) | mode, pause, bands, confirmations | switch, set, confirm | attempts, matches | switch sweeps attempts in flight; mode, band, flag and hash are a mutex each |
| Matching (agentd) | none | collect, compute | orders of both sides | ordering, compatibility |
| Persistence (both daemons) | snapshot files, event log | persist, load | everything | torn snapshots, fields not restored |
| Sell orders (providerd) | order status | lock, settling, settled, release, cancel, expire, retry | agent | part of it is in memory only |
| Reconciliation, confirmation (both) | confirmed windows, ledgers | reconcile, confirm | each other, persistence | duplicates, conflicting payloads, answers that a restart forgets |
| Metering, stall, window accumulation | window accumulator, queue, spent, last progress | sample, poll, charge, assess | provider by HTTP, settlement | only the latest window can be asked for; restarts on either side |
| Mutexes (agentd) | one per field of `AppState` | lock, and lock another under it | all handlers | circles of handlers that wait for each other |
| Protocol agreements (both) | accepted scopes | accept, revoke, gate | risky endpoints | version drift |
| Fiber client, evidence, hashing, signing, dashboard, C++ daemons | - | pure I/O or byte encodings | - | not modelled |

What makes each of them correct: **settlement** - nothing is committed, settled
or called paid that the node did not execute, no charge is in two hands, no
window is paid twice; **recovery** - executing a stage again is harmless,
unknown and terminal attempts are left alone, it ends; **disputes** - a disputed
bill is not paid out behind the dispute; **matches and sell orders** - an order
is held by one match, and is free again when the match ends; **persistence** -
a restart neither forgets a payment nor repeats one; **reconciliation** -
windows are counted once, and what was answered stands; **prices** - nothing is
quoted that was not confirmed as it is; **metering** - each window is charged once
and none is missed, and a paused task settles nothing; **mutexes** - nobody waits for
ever. `PROJECT.json` lists under `hazards` where each of these could go wrong, and
which property would notice.

## 2. Modules

| Module | Contents |
|---|---|
| `Settlement` | merge, recovery, acceptance and release, operator, reaper; properties |
| `MCSettlement` | the sets of requests and faults of TLC's instances |
| `Settlement_proofs` | type correctness, the inductive invariant `IInv` and what follows from it |
| `SettlementOnce_proofs` | an invoice and a window are paid once; disputed bills, unknown and terminal attempts stay; the refinement of `Charges` |
| `Charges` | what may become of the charges of a task, abstractly: the merge queue |
| `FirstWins` | what an idempotent endpoint promises, abstractly, and the theorem that this is enough |
| `Provider` | providerd's reconcile and confirm endpoints, their persistence and restart; properties; the refinement of `FirstWins` |
| `MCProvider` | the requests of TLC's instances |
| `Provider_proofs` | types, counting, the refinement, and that answers and file are kept |
| `Acceptance` | the acceptance of a match in its fine steps, its rollback, keys, release, reaper, mode switch, snapshots and restart, and the provider's sell order |
| `MCAcceptance` | the requests and faults of TLC's instances |
| `Acceptance_proofs` | types, keys, and that task, match, locks and order agree |
| `Pricing` | prices, their confirmation and its loss in both daemons, and a deal being priced meanwhile |
| `MCPricing` | bands and handlers of TLC's instance |
| `Pricing_proofs` | types, and that only what is confirmed is executable and quoted |
| `Feed` | from samples to windows, charges, the merge queue, budget and stall; the refinement of `Charges` |
| `MCFeed` | the requests and faults of TLC's instance |
| `Feed_proofs` | types, accounts, budget, receipts, that no window is missed, and the refinement |
| `LockOrder` | the mutexes of agentd that each handler takes, under which others |
| `MCLockOrder` | who serves what in TLC's instances |
| `LockOrder_proofs` | which requests every circle of waiting threads needs |

Each module has one subject in full and the others as environment. `Settlement` and
`Feed` meet in the merge queue, which one drains by an attempt of many steps and the
other in one step with four ends: both implement `Charges`, which says what either may
take from the other. `Acceptance` knows of a settlement what it does to the match and to
the provider's order, `Settlement` knows an acceptance as two steps, `Acceptance` takes
prices to meet or not, as `Pricing` does, and `LockOrder` keeps nothing but the mutexes.
`Settlement`
and `Provider` meet in one request: the agent sends a reconciliation after it has
settled, once, and ignores the answer, so that each is the environment of the other.

### How `Settlement` corresponds to the code

One task, one match and one sell order. This loses little: `build_match_id`
gives the same match to every acceptance of a pair of orders, and the code
settles one task at a time under the mutex of all tasks.

* *Attempts.* One function per field of `SettlementAttempt`: `status`, `stage`,
  `wins` (the windows drained), `invoice` (the windows the invoice charges, `{}`
  for no invoice id), `payment`, `recorded` (`result_recorded`), `settledDone`,
  `retry`, `hashed` (a `payload_hash` is stored), `lastError`. Of error codes
  and stages it keeps what `auto_open_runtime_disputes` looks for.
* *Bills.* `billOwner` and `billStatus` by window. `upsert_billing_windows`
  creates a bill once per trade and window, so a requeued window keeps its first
  owner. The legal moves are the table `CanBill`; `Billed` is
  `apply_billing_status_for_attempt`, which stops at the first bill it may not
  move. Attempt statuses move along `CanStatus` in the merge and are overwritten
  without it in recovery and by operators, exactly where the code does so.
* *The tasks mutex.* `maybe_merge_and_settle` holds it from end to end, across
  all its external calls; so do the replays of the three gateway stages. `mpc`
  is the merge's place in its body; `TasksFree` is the wait of everybody else.
  The merge is one action per call, not one action: requests, reaper and
  recovery write attempts, matches and the order between its calls.
* *Recovery.* `rpc[p]` is the place of runner `p`: it lists the attempts by
  status (`RecStart`), waits for the tasks to open disputes (`RecOpen`), then
  skips, exhausts or takes up one attempt after the other. Taking it up reads
  the stage (`RecPick`); a gateway stage copies the attempt (`RecLoad...`),
  waits for the tasks, calls and writes; the tail of the tick is another step.
  A stage's write to the attempt is in one action with its call: the code
  releases the tasks in between, but what it writes then (`invoice`, `payment`,
  `stage`) it decided before.
* *Release.* `release_binding_and_locks` frees the locks and the order first
  and waits for the tasks to unbind: two actions. All statuses it leaves behind
  count as `released`.
* *Failures.* `Faults` names what may go wrong: the guard refuses (it reads the
  configuration file at every call, so it may change its mind), the node
  answers with an error or executes and its reply is lost, `record_result`
  fails, the provider is down or its reply is lost, the task stops, an amount
  was rounded so that a rebuilt request differs from the stored one. `Operator`
  names the requests that may come. Both are constants: TLC takes them apart,
  and the theorems hold for every choice of them that they do not exclude.
* *The node.* `paid` and `npay` count executed payments per window and per
  attempt up to two, "more than once". They are the model's, not the code's:
  the properties compare what the agent believes with them.
* *Disputes.* `retry`, `mark-final` and `rollback` write the attempt, the last its
  bills, too. `apply-penalty` and `release-refund` write the bills of the dispute's
  trade, and are no actions here, because they find none: only `AMOUNT_MISMATCH` and
  `PRICING_DISPUTE` allow them (`dispute_support.rs:19-20`), and
  `auto_open_runtime_disputes` opens these without a trade (`main.rs:1541`, `:1585`).

Left out of `Settlement`: amounts and rounding (except that a rebuilt request
may differ), timestamps, audit strings, events, evidence, backoff deadlines (a
visit may skip), the reconciliation call (its outcome changes only the audit).

### How `Provider` corresponds to the code

One job; a request is one model value with everything it carries, and stands for
its payload hash.

* *The job.* `job.pairs` is `reconciled_pairs`, `job.total` counts for each
  request how often its amount was added to `total_confirmed_paid`, `job.windows`
  is `paid_window_indexes`, `job.last` the `last_confirmed_` pair. The texts of
  errors and audits and `result_state` (a copy of the total) are left out.
* *A handler* goes through `reconcile` or `confirm`, then the steps of
  `persist_provider_state`, then answers. `Gate` is the check of the agreement,
  whose mutex is released before the next one is taken: a revocation may come in
  between. `ReconcileJob` and `ConfirmLedger` are the bodies under the `jobs` and
  `confirm_ledger` mutexes, with their early answers: a replay is answered at once,
  without waiting for the first request's persist.
* *Persisting.* `SnapJobs` is the first statement, `SnapRest` the second, whose
  guards are temporaries and live to its end, so that it copies at one moment;
  `OpenFile` and `WriteFile` are the two steps of `fs::write`. Nothing excludes
  another thread in between: it may write the older snapshot last, and two writes
  into one truncated file may leave `Garbage`. Other requests persist too
  (`OtherRequest`).
* *Restart.* `Crash` loses the memory, the agreement, which is not stored, and the
  requests being answered. `Boot` loads and persists again before it serves.
  A file that is empty or not JSON is not loaded (`Loaded`).
* *Failures.* `crash` between any two steps except inside a write, `torn_write`
  inside a write as well, `io_error` the errors that `persist_provider_state`
  ignores. A write that has returned is taken to survive: the crash is the
  process's, not the machine's.
* *Model only.* `answered` collects the requests answered 200.

### How `Acceptance` corresponds to the code

One task, its buy order, and one sell order, hence one match.

* *Steps.* `accept_match` keeps no mutex from one statement to the next, so every
  locked statement is an action: `AcceptCheck` (begin the attempt, price the
  orders), `AcceptMatch`, `AcceptBuy` and `AcceptSell` (the two order locks),
  `AcceptBind`, `AcceptStore`, `AcceptLock` (the call of the provider),
  `AcceptCommit`, `AcceptEnter` (the key), and `AcceptUndo`, four steps, if the
  provider refuses. `Releasing` to `Mark` are the five statements of
  `release_binding_and_locks`; what its caller does after it is `next`.
* *Worker threads.* tokio runs a task from one await to the next. With one worker
  thread nobody else runs in between (`Turn`); with several (`Many`) everything
  interleaves. `#[tokio::main]` gives as many as there are cores, so both happen.
* *The loop* ticks, reaps, polls, merges and accepts by itself in mode auto, as in
  `poll_once`. Its merge looks the match up twice: `LoopMerges`, `LoopDrains`.
* *Persisting* copies in one action (the guards of the struct literal live to its
  end) and writes in another. `Crash` loads what was written last.
* *The provider's order* goes through `can_transition_sell_order`'s table; what of
  it is saved is `saved`, and lock and settling are saved only when another request
  happens to persist.
* *Disturbances.* `disturbed` remembers which kinds of failure happened, because a
  property may hold only without some of them. `MaxKinds` bounds their number.

A rejection never ends, and is in `LockOrder` only, as the mutexes it takes. Of a
match there is it first gives back both locks, the order and the task, and holds the
accepted matches all the while; then it blocks on them (`market_support.rs:38-70` called
from `main.rs:2777`). Of any other match it blocks at once, in the `else`. What the first
leaves behind, an accepted match without locks and task in a daemon where whoever needs
the matches waits for ever, is no state of `Acceptance`.

### How `Pricing` corresponds to the code

Mode, band, flag and hash of a confirmation are a variable and a mutex each, and
every statement that locks one is an action: a request is let in (`Gate`), sets the
mode and the band, takes the confirmation back (`Unconfirm`, `Unhash`), or confirms
in three steps (context, flag, hash). The context that is read is not kept, because
nothing compares it: `recommended_confirmation_is_current` asks whether there is a
hash. `DealBegins` to `Deal` is an acceptance from its buy price to its match, which
reads flag, hash and band one after the other on both sides. In a manual market it
begins on an order an operator created at its own price, and only the provider is asked
for one. Such orders are not kept as state: in a manual market `CreateManualBuyOrder`
changes nothing else and may come right before any deal, so a deal may always begin. In
an automatic one it pauses the deals. `approved` and `fresh`
are the model's: the band an operator confirmed, and whether a quote was of it.
`Parallel` are the daemons with several worker threads.

### How `Feed` corresponds to the code

`Sample` is `ingest_sample` under the ticker: the window closes after
`SamplesPerWindow` samples and costs one per active sample. The loop goes from
`Tick` (`now_secs`) over `Reap` (`run_reaper_tick`) and `Fetch` to one of five ends
of `apply_provider_poll_with_matches`: the window is known (`ApplyKnown`: budget
and stall only), charged (`ApplyWaits`), charged and merged (`ApplyMerges`), or its
settlement fails: later than the provider's mark, and the windows go back
(`ApplyFails`), or at that mark, and they do not (`ApplyLeaves`). In the second case
`main.rs:3837-3862` releases the match but queues nothing again; the windows stay with
their attempt, which only recovery can finish, and `left` collects them. `idle` is `now_secs` minus
`last_progress_at_secs` in polls, kept as far as `assess_stall` can tell values
apart. `lag` says how many samples went by since the last answer: without the
fault `slow` they are at most `MaxLag`, as 8 samples of 250 ms fit in a poll of 2 s.
`forced` remembers that an operator accepted a match while the task was paused.

### How `Charges` corresponds to the code

`queued` is `pending_windows` together with what a merge under way has drained,
`settled` is `settled_windows`, and `left` what an attempt has drained that neither
settled it nor queued it again. `apply_provider_poll_with_matches` pushes only a window
later than all it has charged (`Queues`); `maybe_merge_and_settle` drains the oldest
`MergeCount` (`Batch`) and settles them (`Settle`), leaves them to their attempt
(`Leave`) or puts them back in front (`Wait`). A restart forgets all three (`Restart`).
`Feed` maps `pending`, `settled` and `left` to themselves; `Settlement` has no variable
for `left` and computes it from `wins`, the windows of its attempts.

### How `LockOrder` corresponds to the code

Each handler of agentd that nests mutexes is a path of steps: lock, unlock, and
branches. `Under(m, body)` is a guard and what runs while it lives; `Use(m)` is a
guard that is a temporary of its statement. How long a guard lives is Rust's rule
for edition 2021, and it matters: the temporaries of a struct literal live to the
end of the `let` (`PersistAgentState`), those of an `if let` scrutinee through its
body and its `else` (`RejectMatch`, `AcceptAgain`). Data is left out, so a branch
may be taken that the data forbid; this adds paths and hides none. `Held` computes
from a path which mutexes are held before each of its steps.

Operators that come right before a definition and are called its mutant differ
from it as a plausible bug would. Nothing uses them: they show that the
property named with them in `PROJECT.json` would notice the bug.

## 3. Properties

| Property | Says |
|---|---|
| `TypeOK` | every variable keeps its type |
| `CommittedIsPaid` | a committed attempt has an invoice that covers its bills, and the node was paid for each window on it |
| `SettledIsPaid` | settled windows, paid bills, a settled order come after a payment at the node |
| `ChargesApart` | a charge is queued, in flight or settled, never two of them; a bill belongs to an attempt that drained its window |
| `DisputedBillBlocked` | a disputed bill is not moved on (`docs/dispute-protocol.md:59`) |
| `UnknownStays`, `TerminalStays` | nothing automatic moves an unknown or a terminal attempt (`docs/recovery-model.md:6-8`) |
| `InvoicePaidOnce` | the node executes one payment for an attempt's invoice (`docs/billing-and-penalty.md:50`) |
| `SingleConfirm` | a window is paid once (`docs/state-machine.md:30`) |
| `KeepsCharges` | the merge implements `Charges`: whatever the attempt, recovery and operators do, the drained windows are settled, left or queued again together, and in turn |
| `RecoveryEnds` | recovery gives up in the end |
| `IInv` | the inductive invariant of section 6 |

And of `Provider` (its `TypeOK` is another):

| Property | Says |
|---|---|
| `KeepsPromise` | reconcile and confirm implement `FirstWins`: the first request stands, only its replays are answered 200, a restart forgets nothing that was answered |
| `AnswersKept` | while it serves, providerd knows every payment it ever answered 200 |
| `CountedOnce` | memory, snapshots and file count each noted payment once and keep its windows (`docs/acceptance.md:288`) |
| `OnePayloadPerPair` | two payloads of one pair are not both answered 200 (`docs/acceptance.md:432-434`) |
| `OnePaymentPerKey` | two payments of one window are not both answered 200 (`docs/state-machine.md:30`) |
| `QuietFileCurrent` | when no request is being answered, the file says what the memory says |

Of `Acceptance`:

| Property | Says |
|---|---|
| `MatchAgrees` | on one worker thread, whenever every thread waits: the task is bound, the match stored and both orders locked, or none of it, in spite of rollbacks, releases, the reaper and failures |
| `OrderAgrees` | then the provider's order is locked or settling exactly for an accepted match, as long as no call fails and nobody restarts a daemon or closes the order |
| `LedgerCommitted` | a key names a committed attempt, in memory, in every snapshot and in the file, on any number of worker threads (`docs/acceptance.md:438`) |
| `MergeFindsMatch` | the second look of a merge finds its match, as its `expect` says |

Of `Pricing`:

| Property | Says |
|---|---|
| `ExecutableApproved` | on one worker thread a recommended band is executable only if it is the one confirmed, and nothing was set since (`docs/acceptance.md:289, 458`) |
| `QuotedApproved` | such a daemon never quotes a band that was not so confirmed when it was read |

Of `Feed`:

| Property | Says |
|---|---|
| `SpentAccounted` | what is spent is the sum of what is queued, settled and left to recovery, and nothing is two of them, in spite of failed settlements and a provider that counts anew |
| `KeepsCharges` | the feed implements `Charges`: charges leave the queue oldest first, in whole batches, and are settled at most once between two starts |
| `NothingMissed` | while the loop is on time and answered, no window passes unseen |
| `ReceiptAgrees` | the receipt describes one window and its cost |
| `PaidWithinBudget` | the merges of the loop settle at most the budget and one window |
| `PausedPaysNothing` | a paused or stopped task settles nothing, unless an operator accepts a match for it |
| `StallNoticed` | if the provider goes on answering and windows stop, the task is paused or stopped |

Of `LockOrder`:

| Property | Says |
|---|---|
| `CirclesReverse` | threads that block each other for ever include one that serves a rejection, the list of matches, an accept whose key comes again, or a dispute action |
| `RejectionEnds` | a rejection ends (`docs/system-architecture.md:77`) |

## 4. Runs

| Run | Instance | Shows |
|---|---|---|
| `loop` | 3 windows merged by 2, 2 attempts, every fault but lost replies, no requests, fairness | the loop alone keeps six safety properties, implements `Charges`, and `RecoveryEnds` |
| `recoveries` | 2 windows, 1 attempt, two runners, lost replies, accept, release, mode switch, sell orders | `IInv` |
| `once` | one attempt of 2 windows, every request but acceptance, sell order and recovery, every fault but lost replies of the node | `InvoicePaidOnce`, and that no order of retries, disputes, releases and mode switches commits or settles the unpaid |
| `serial` | 4 reconcile requests on 3 pairs, 3 confirm requests on 2 keys, one handler, crashes between steps | `KeepsPromise`, `AnswersKept`, `QuietFileCurrent`, `CountedOnce` |
| `threads` | 7 requests as in `serial`, two handlers, write errors | `OnePayloadPerPair`, `OnePaymentPerKey` |
| `accept` | one client with a key, the loop, every request of operators, every fault, one kind in a behaviour, one worker thread | `MatchAgrees`, `OrderAgrees`, `LedgerCommitted` |
| `pricing` | two bands, one handler, one worker thread on each side | `ExecutableApproved`, `QuotedApproved` |
| `feed` | windows of 2 samples merged by 2, budget 3, stall after 2 polls, 4 windows, every fault, one kind in a behaviour | the seven properties of `Feed` |
| `locks` | the loop on one thread, all requests on another | `CirclesReverse` |

*Bounds of `Settlement`.* Two attempts are what it takes for one to wait in recovery
while the next merge drains the same charges; three windows merged by two let the
meter go on after a settlement failed, which is when the second attempt opens; one
attempt is enough where the property is about one attempt and all runs of it. The
retry cap is 2, 3 or 4 instead of 6 (4 lets `once` pay, rewind and come back to
the payment) and the stuck threshold 1 or 2 instead of 4, with the threshold below
the cap as in the code; both are reached. A lost reply looks to the agent like an
error, so that `loop`, which has errors, and `recoveries`, which has lost replies,
show what either does. The provider's meter stops when no attempt is left to open
(`PollWindow`), which is the only bound in a guard; windows may be skipped by the
meter. `CommittedWindows` is 2 so that trades are finalized within the bounds.
No symmetry is used: attempts are opened in order and windows are ordered.

*Bounds of `Provider`.* Two requests for one slot are what a conflict takes, and two
handlers what it takes for one persist to overtake another; the requests with a
window in common and with none are the branches left. Requests repeat without bound,
and no counter needs one: that `job.total` stays below 2 is part of `CountedOnce`.
What one handler keeps and two do not is why `serial` has one. Counting needs no
second run with two handlers: `ReconciledOnce` proves it for any number and every
fault.

*Bounds of `Acceptance`, `Pricing` and `Feed`.* One client that repeats its request
for ever, the loop and an operator are three threads on one match, and the theorems
cover any number of clients and keys. `MaxHold` is the real 3. One kind of failure
in a behaviour, as often as it likes, is what keeps `accept` and `feed` small;
restarts of the agent are included. Two bands are what one needs to quote the wrong
one. Windows of two samples may cost nothing, part or all; four of them make two
merges; a budget of 3 is passed in the middle of the second.

*Bounds of `LockOrder`.* None: paths are finite and threads repeat. Two threads show
circles of two, and `CirclesHold` proves the rest.

*Deadlock* checking is on in every run but those of `LockOrder`, whose threads
really may stop for ever, and finds none. In `Settlement` it covers the tasks mutex
and the rollback's hold on the disputes.

*Disagreements.* Three runs, `v_...`, check what a document or an assertion says and
TLC refutes; each trace is a behaviour of the code, and `PROJECT.json` quotes the
text and names the line.

* `v_window_twice`: a payment that failed goes back in the queue while its attempt
  stays recoverable, so merge and recovery both pay the window. `CommittedIsPaid`,
  `SettledIsPaid` and `ChargesApart` hold in the same instance: the agent may pay
  too often, it does not commit or settle without paying.
* `v_poisoned`: on several worker threads the rollback of an acceptance removes the
  match between the two looks of a merge, whose `expect` then panics with the tasks
  mutex held. From then on every `lock().expect("tasks lock")` panics.
* `v_rejected`: `reject_match` looks the match up in the scrutinee of an `if let`
  and locks the same mutex again in both branches, in the first one after the locks,
  the order and the task are given back. One thread and one request
  suffice, and whoever needs the matches afterwards waits for ever, too.

*Small instances that are no runs of their own.* Most show the same causes again.
With the fault `node_reply_lost`, `InvoicePaidOnce` fails, as recovery pays again
without asking; with `Operator` only `"recover"`, it fails because two recoveries
copy the attempt before either pays, `TerminalStays` because a tick lists attempts
once and writes on that list, and `UnknownStays` likewise with `record_error`. A
finalization of the trade finalizes bills that were never paid, although
`docs/billing-and-penalty.md:31` says otherwise. In `Provider`, with two handlers and
`crash`, `OnePaymentPerKey` fails, because an answer does not wait until the file
holds it; with one handler and `torn_write`, `OnePayloadPerPair` fails, because a
truncated file is silently not loaded. No run allows `torn_write`; `ReconciledOnce`
holds with it. In `Pricing`, with two handlers and a daemon in `Parallel`,
`BandConfirmed` fails: a confirmation that read its context before another request
replaced the band or the mode, and stores flag and hash after that request took them
back, leaves a band executable that nobody confirmed (`docs/technical-breakdown.md:154`
says the confirmation is bound to its context).

*Seen on the way*, and contradicting no line of the repository, hence without a run:
the default stall limit of 6 s is shorter than a window of 15 s, so that a task with
it pauses after three polls; an operator who accepts while a task is paused lets one
more window settle; a settled match stays bound until somebody releases it, and each
task settles by one match only; after a restart of the agent what was spent and
settled is forgotten; a rollback does not free the provider's order if the reply to
its lock was lost; one `provider_offline` line in the audit makes every later reaper
tick release every match; `apply-penalty` and `release-refund` change no bill, because
no dispute that allows them has a trade (`docs/billing-and-penalty.md:42` speaks of
linked bills, of which there are none).

## 5. Fairness

`RecoveryEnds` is checked under `FairSpec`. A merge that has begun goes on (weak
fairness: every call ends, answered, refused or timed out). The loop's recovery
is strongly fair, because the loop is a tokio interval that never returns but
shares the tasks mutex with others; for each attempt, so is taking it up once it is
listed again and again, because a backoff lasts at most 60 seconds. Ending an
acceptance of the loop is fair too. Nothing is assumed of operators, of the
provider's meter, or of the operator's recovery run.

`StallNoticed` is checked under weak fairness of the loop of `Feed`, whose ticker
goes on for ever and whose calls end, answered or not. Whether samples are taken and
operators come is left open. `RejectionEnds` is refuted under weak fairness of every
thread of `LockOrder` (`Go`): a thread that can go on does. That handlers other than
the reversing ones always end is not claimed, because mutexes of std are not fair.

Fairness and `ENABLED` are out of the prover's reach: liveness is model-checked only.

## 6. Proofs

*The settlement.* These theorems hold for every number of windows and attempts,
every merge count, cap, threshold and agreed quantity, every set of requests and every set of
faults, under the assumptions `BoundsAssumption` and `EnvironmentAssumption`.

| Theorem | States |
|---|---|
| `TypeCorrect` | `Spec => []TypeOK` |
| `Invariant` | `Spec => []IInv` |
| `CommittedPaid`, `SettledPaid`, `ChargesKeptApart` | from `Invariant`: `[]CommittedIsPaid`, `[]SettledIsPaid`, `[]ChargesApart` |
| `PaidOnce` | `[]InvoicePaidOnce`, if `"recover"` is no request and `"node_reply_lost"` no fault |
| `WindowPaidOnce` | `[]SingleConfirm`, if `Undisturbed`: besides, neither the guard, the node nor the record fails |
| `DisputedStays` | `DisputedBillBlocked`, if `"dispute_rollback"` is no request |
| `TerminalLeft` | `TerminalStays`, if `Unattended`: no recovery of an operator, and no request that is there to move such an attempt |
| `UnknownLeft` | `UnknownStays`, if `Unattended` and `"retry"` is no request |
| `MergeKeepsCharges` | `Spec => KeepsCharges`, the refinement of `Charges` |

The two hypotheses of `PaidOnce` are necessary: two recoveries at once, and
a lost reply, violate it when either is dropped (section 4). `WindowPaidOnce` is the
positive side of the run `v_window_twice`, whose instance drops its hypotheses: what
makes a window paid twice is something that fails between the invoice and its record, or
a second recovery, and nothing else the model knows, retries, releases and disputes
included. That is why
`PROJECT.json` names no property for it: `SingleConfirm` is checked by that run only,
which refutes it.

*The argument.* `CommittedIsPaid` is not inductive: a recovery commits at stage
`mark_settled` on a reading as old as its `RecPick`. `IInv` adds what makes this
safe. `AttemptsInOrder`: an attempt whose stage is `record_result` or later has
its payment, whoever set the stage, and a payment implies an invoice. Operators
rewind the stage but take nothing back, so `RecoveriesInOrder` survives: a runner
that works on a later stage, however old its reading, has the earlier ones.
`MergeInOrder`: the merge finds its attempt as it left it, because recovery
touches invoice and payment only while nobody holds the tasks. `PaymentsExecuted`:
a payment the agent knows of was executed, for every window of the invoice, and
the bills of an attempt that has an invoice are on it. `ChargesInFlight`: what is drained was
reported and is not settled yet. Types come first, as the theorem `TypeCorrect`,
because they do not depend on the rest.

`PaidOnce` needs the stronger fact (`Single`) that an attempt without a payment
id was not paid at the node, and one with it once: with one runner the copy of
`RecLoad` is current when the payment is made, because only the merge could have
changed it and the loop does not merge while it recovers. `DisputedStays`
examines every writer of bills.

For windows, `Drained` says that each was drained by one attempt, whose invoices charge
nothing else, and that a payment was made with the invoice of an attempt that has it.
For attempts that must not move, `Alone` says that the one in the hands of the merge, or
of a recovery run that goes on for several steps on an old reading, is still one that
recovery may touch: the loop does not merge while it recovers, and what a release or a
mode switch marks `retryable_failed` was not terminal.

For the refinement, `Batched` says that what a merge holds is what `MergeOpenAttempt`
drained: `MergeCount` windows, older than those still queued and in no other hands.
The drain is then a stutter of `Charges`; so is every call, and the windows leave
together at the end. A step that settles, leaves or requeues has a lemma each
(`QueuePassed`, `QueueAgain`, ...), and all steps outside the merge keep the three
sets (`QueueKept`).

*The provider.* These hold for all sets of requests, pairs, windows, keys and
handlers, under the assumptions of `Provider`.

| Theorem | States |
|---|---|
| `ProviderTypes` | `Spec => []TypeOK` |
| `ReconciledOnce` | `Spec => []CountedOnce`, for every fault |
| `PromiseKept` | without crashes, `KeepsPromise`, for any number of handlers and every other fault |
| `PromiseSurvives` | `KeepsPromise`, if `Serial`: one handler, and no faults but crashes outside writes |
| `QuietHolds` | `[]QuietFileCurrent`, if `Serial` |
| `AnswersHold`, `PairOnce`, `KeyOnce` | `[]AnswersKept`, `[]OnePayloadPerPair`, `[]OnePaymentPerKey`, if `Safe`: no crash, or `Serial` |
| `FirstStands` (in `FirstWins`) | the promise keeps a slot from being answered for two items |

`CountedOnce` is inductive given the types, because it speaks of memory,
snapshots and file alike. `PInv` says that what was answered, and what is being
persisted in order to be answered, stands in memory; a step then enters into a
free slot or answers what stands there, which are the steps of `FirstWins`, or
stutters. A crash is a `Restart` of `FirstWins` if what the file lacks was not
answered: `SInv` shows it for one handler, because then the file is the memory
whenever nobody persists, and differs only by the one request not yet answered
while somebody does. The refinement mapping takes what will be loaded for what is
known between a crash and the load. `QuietFileCurrent` is `SInv` where nobody is
served, and the three properties of answers follow from `PInv`, under either
hypothesis. The hypotheses are needed: a crash refutes the conclusion for two
handlers, a torn write refutes it for one.

*Acceptance.* For any clients, keys, pause, requests and faults:

| Theorem | States |
|---|---|
| `AcceptanceTypes` | `Spec => []TypeOK` |
| `LedgerHolds` | `[]LedgerCommitted`, on any number of worker threads |
| `MatchHolds`, `OrderHolds` | `[]MatchAgrees`, `[]OrderAgrees` (which speak of one worker thread) |
| `MergeFinds` | on one worker thread `[]MergeFindsMatch`: the panic needs several |

`LedgerInv` adds to `LedgerCommitted` that a request whose thread is at `enter` is
committed, and that no key names a request that is still trying: a committed attempt
never leaves that status in memory, a snapshot copies attempts and keys at one moment,
and a restart loads both from one file. `Serial`
says that at most one thread is not waiting, and that where it is says how far task,
match, locks and order may differ: `Fits(place)`, the conjunction of `Matched`, which
holds with every failure, and `Ordered`, which holds while nothing disturbed the
order. At `sell` the buy order is locked and the other is not, at `undo_bind` both are
free again and the match is gone, and so on; at rest it is `MatchAgrees`. A step moves
one thread from a place to the next, and `Stepped` reduces it to `Fits` of the new
place; most places know no more than rest (`QuietFits`).

*Prices.* For any handlers and bands:

| Theorem | States |
|---|---|
| `PricingTypes` | `Spec => []TypeOK` |
| `ConfirmationsHold`, `QuotesHold` | `[]ExecutableApproved`, `[]QuotedApproved`, for every daemon with one worker thread, whatever the other does |

`SideInv` speaks of one daemon: while nobody is at work there, flag and hash imply
that the band is the approved one, and what is half done by a handler, or half read
by a deal, is as far as its place says. A step on the other side leaves it alone
(`OtherSide`); one on its own moves the place (`HandlerStep`, `PriceStep`).

*The feed.* For any length of windows, merge count, stall limit, budget, number of
windows, lag, requests and faults, and any number of kinds of faults in a behaviour,
under the assumptions of `Feed`:

| Theorem | States |
|---|---|
| `FeedTypes` | `Spec => []TypeOK` |
| `FeedAccounted` | `[]SpentAccounted` |
| `FeedWithinBudget` | `[]PaidWithinBudget` |
| `FeedPausedPays` | `PausedPaysNothing` |
| `FeedReceipt` | `[]ReceiptAgrees` |
| `FeedMissesNothing` | `[]NothingMissed`, if `MaxLag <= SamplesPerWindow` |
| `FeedKeepsCharges` | `Spec => KeepsCharges`, the refinement of `Charges` |
| `QueueInOrder`, `FeedOldestFirst` | `Charges` keeps `OldestFirst`, hence so does the feed |

What is spent is a sum over a set. The fold of the community modules is a recursive
function on sets, and what the accounts need of it is proved from its definition by
looking at a smallest counterexample: the recursion has a solution (`FoldExists`) and
one only (`FoldUnique`), whichever element comes first (`TotalRemove`), and a part never
costs more than the whole (`TotalGrows`). With that, `Reached` (the task has got to every
window it was charged for) makes `SpentAccounted` inductive: a new window is none of
them. `PaidWithinBudget` needs more than what is spent now: `Solvent` says that a task
that runs has not spent its budget, and `Covered` that the loop, past its reaper with an
accepted match, has a task that runs, unless an operator accepted for it. So a merge
settles at most what was within the budget and the window that made it a batch.
`PausedPaysNothing` follows from the same invariant. `Agreed`, for the receipt, keeps the
task's last window behind the answer and the answer behind the provider, as long as the
provider counts on. `Follows` says that the loop is a window behind only if `lag`
exceeds the samples of the open window. Its hypothesis is what the code has, 8 samples
to a window of 60; without it windows pass between two polls.

*Mutexes.* For any set of threads and whatever they serve:

| Theorem | States |
|---|---|
| `LockOrderTypes` | `Spec => []TypeOK` |
| `CirclesHold` | `[]CirclesReverse` |

The paths are constants without parameters. That their branches stay inside them
(`PathsAssumption`), and that all but the reversing ones lock upwards along `Level`
(`OrderAssumption`), is a matter of evaluating them, which TLC does at the start of
run `locks`; the prover takes both as facts. From them: whoever waits holds only
mutexes of lower levels than the one it waits for (`HoldsLower`), so along a circle
levels rise at every wait, and nine levels end it (`NoCircle`).

Each proof has one step per action of `Next` and under it one per conjunct the
action can disturb.

## 7. Model-checked only, and not modelled

Model-checked only: `RecoveryEnds` and `StallNoticed`, which are liveness and need
`ENABLED`, and what the violation runs refute. Every other property of a passing run is
a theorem, under the hypotheses of section 6 where it is not true without them. What TLC
adds there is that the small instances reach the interesting cases, and that a mutant
of the code breaks each property. The sums of `Feed` are as far as induction over data
goes here: a smallest counterexample takes its place, and no lemma needs an operator as
a parameter.

Not modelled:

* amounts, rounding and penalties, except where a rounded amount makes a rebuilt
  request differ; the order in which `compute_matches` prefers matches; which scopes
  an agreement has;
* a restart of agentd in the middle of a settlement (`Acceptance` and `Feed` restart,
  `Settlement` does not), and matches of a second pair of orders;
* agentd's `confirm_payment` beyond its mutexes: it has the ledger of providerd's,
  persists like `Acceptance`'s requests, and has no gate;
* the metering crate's `settle_window` and invoice aggregator, which no daemon calls;
* the mutexes of providerd: its handlers take most of them one at a time, and no pair
  was seen in both orders, but no module says so;
* the fiber client, evidence, hashing and signing, the dashboard and the C++ daemons:
  I/O and encodings without state that these properties could be about.

## 8. What is left

In the order of what it would add:

1. `Settlement` with a restart: which attempts, bills and charges a snapshot in the
   middle of a merge or of a recovery brings back.
2. A `LockOrder` for providerd, with the same `Under` and `Use`.
3. A second pair of orders in `Acceptance`: keys that come again for another pair,
   orphaned matches, and two tasks for one sell order.
4. Penalty, refund and rounding as operators, against reference definitions.
