------------------------------ MODULE Provider ------------------------------
(***************************************************************************)
(* What providerd knows of the payments made to it, and what survives it.  *)
(*                                                                         *)
(* The agent tells the provider of a payment in two ways: reconcile_payment*)
(* enters a payment, its windows and its amount into the job, and          *)
(* confirm_payment binds a window end to a payment id.  Both are           *)
(* idempotent: the first request with a key stands, its replay is answered *)
(* without effect, another request with the same key is a conflict.        *)
(*                                                                         *)
(* Both end in persist_provider_state, which copies the maps, one mutex    *)
(* after the other, and then rewrites the state file.  Nothing orders the  *)
(* persists of two handlers, and nothing protects the file: the axum       *)
(* server runs the handlers on a thread each.                              *)
(***************************************************************************)
EXTENDS Integers, FiniteSets

CONSTANTS
    Requests,     \* the reconcile requests, each with all its fields
    Pairs,        \* invoice_id::payment_id
    Windows,      \* window indexes
    PairOf,       \* the pair a reconcile request is about
    WindowsOf,    \* and the windows it says were paid
    Confirms,     \* the confirm requests: a key and a payment id
    Keys,         \* job_id:window_end
    KeyOf,        \* the key of a confirm request
    Handlers,     \* the threads that answer requests
    Main,         \* the thread that starts the daemon
    None,
    Empty,        \* the state file after it was truncated, or before it exists
    Garbage,      \* a state file that is not JSON
    Faults        \* the failures of the environment this instance allows

FaultKinds == {"crash", "torn_write", "io_error"}

ASSUME RequestsAssumption ==
    /\ PairOf \in [Requests -> Pairs]
    /\ WindowsOf \in [Requests -> SUBSET Windows]
    /\ KeyOf \in [Confirms -> Keys]
    /\ Requests \cap Confirms = {} /\ Pairs \cap Keys = {}
    /\ None \notin Requests \cup Confirms
ASSUME ThreadsAssumption == Main \notin Handlers
ASSUME FaultsAssumption == Faults \subseteq FaultKinds

VARIABLES
    job,        \* the reconciliation fields of JobRuntime
    ledger,     \* confirm_ledger
    accepted,   \* the provider automation protocol is accepted, with its scopes
    file,       \* the state file
    pc, work,   \* where each thread is, and the request it answers
    snap,       \* the snapshot it has taken
    answered    \* the requests answered 200 (of the model, not of the code)

vars == <<job, ledger, accepted, file, pc, work, snap, answered>>

-----------------------------------------------------------------------------
Threads == Handlers \cup {Main}

\* reconciled_pairs with the request that stands for the payload hash,
\* total_confirmed_paid as the bag of requests whose amount was added to it,
\* paid_window_indexes, and the last_confirmed_ pair.
Jobs == [pairs : [Pairs -> Requests \cup {None}], total : [Requests -> Nat],
         windows : SUBSET Windows, last : Requests \cup {None}]
Ledgers == [Keys -> Confirms \cup {None}]
Snapshots == [job : Jobs, ledger : Ledgers]

ASSUME FileAssumption == Empty # Garbage /\ {Empty, Garbage} \cap Snapshots = {}

NewJob    == [pairs |-> [p \in Pairs |-> None], total |-> [r \in Requests |-> 0],
              windows |-> {}, last |-> None]
NewLedger == [k \in Keys |-> None]
NewSnapshot == [job |-> NewJob, ledger |-> NewLedger]

Places == {"boot", "idle", "reconcile", "confirm", "jobs", "rest", "open",
           "write", "reply"}

\* Requests are served from the end of the start on.
Serving == pc[Main] = "idle"

TypeOK ==
    /\ job \in Jobs
    /\ ledger \in Ledgers
    /\ accepted \in BOOLEAN
    /\ file \in Snapshots \cup {Empty, Garbage}
    /\ pc \in [Threads -> Places]
    /\ work \in [Threads -> Requests \cup Confirms \cup {None}]
    /\ snap \in [Threads -> Snapshots]
    /\ answered \subseteq Requests \cup Confirms

\* The first start: there is no state file.
Init ==
    /\ job = NewJob /\ ledger = NewLedger
    /\ accepted = FALSE
    /\ file = Empty
    /\ pc = [t \in Threads |-> IF t = Main THEN "boot" ELSE "idle"]
    /\ work = [t \in Threads |-> None]
    /\ snap = [t \in Threads |-> NewSnapshot]
    /\ answered = {}

Goto(t, place) == pc' = [pc EXCEPT ![t] = place]

-----------------------------------------------------------------------------
(* The protocol agreement.  It is not part of the state file.              *)

AcceptAgreement ==
    /\ Serving /\ accepted' = TRUE
    /\ UNCHANGED <<job, ledger, file, pc, work, snap, answered>>

RevokeAgreement ==
    /\ Serving /\ accepted' = FALSE
    /\ UNCHANGED <<job, ledger, file, pc, work, snap, answered>>

\* ensure_provider_automation_gate, before any other mutex is taken.  A request
\* that is refused here changes nothing.
Gate(h, request, place) ==
    /\ Serving /\ pc[h] = "idle" /\ accepted
    /\ work' = [work EXCEPT ![h] = request]
    /\ Goto(h, place)
    /\ UNCHANGED <<job, ledger, accepted, file, snap, answered>>

-----------------------------------------------------------------------------
(* POST /internal/provider/reconcile                                       *)

Entered(j, r) ==
    [pairs   |-> [j.pairs EXCEPT ![PairOf[r]] = r],
     total   |-> [j.total EXCEPT ![r] = @ + 1],
     windows |-> j.windows \cup WindowsOf[r],
     last    |-> r]

\* The handler is done with x, which it answers with 200 or with an error.
Answer(h, x, ok) ==
    /\ answered' = IF ok THEN answered \cup {x} ELSE answered
    /\ work' = [work EXCEPT ![h] = None]
    /\ Goto(h, "idle")

\* A mutant of ReconcileJob: a noted pair is a replay, whatever its payload.
ReconcileJobByPair(h) ==
    LET r   == work[h]
        old == job.pairs[PairOf[r]]
    IN  /\ pc[h] = "reconcile"
        /\ IF WindowsOf[r] = {} \/ old # None
           THEN /\ Answer(h, r, WindowsOf[r] # {})
                /\ job' = job
           ELSE /\ job' = Entered(job, r)
                /\ Goto(h, "jobs")
                /\ UNCHANGED <<work, answered>>
        /\ UNCHANGED <<ledger, accepted, file, snap>>

\* Under the jobs mutex.
ReconcileJob(h) ==
    LET r   == work[h]
        old == job.pairs[PairOf[r]]
    IN  /\ pc[h] = "reconcile"
        /\ IF WindowsOf[r] = {} \/ old # None
           THEN /\ Answer(h, r, WindowsOf[r] # {} /\ old = r)
                /\ job' = job
           ELSE /\ job' = Entered(job, r)
                /\ Goto(h, "jobs")
                /\ UNCHANGED <<work, answered>>
        /\ UNCHANGED <<ledger, accepted, file, snap>>

-----------------------------------------------------------------------------
(* POST /confirm                                                           *)

\* A mutant of ConfirmLedger: the last payment stands, not the first.
ConfirmLedgerLast(h) ==
    /\ pc[h] = "confirm"
    /\ ledger' = [ledger EXCEPT ![KeyOf[work[h]]] = work[h]]
    /\ Goto(h, "jobs")
    /\ UNCHANGED <<job, accepted, file, work, snap, answered>>

\* Another one: a confirmation is not persisted.
ConfirmLedgerUnsaved(h) ==
    LET c   == work[h]
        old == ledger[KeyOf[c]]
    IN  /\ pc[h] = "confirm"
        /\ ledger' = IF old = None THEN [ledger EXCEPT ![KeyOf[c]] = c] ELSE ledger
        /\ Answer(h, c, old \in {None, c})
        /\ UNCHANGED <<job, accepted, file, snap>>

\* Under the confirm_ledger mutex.
ConfirmLedger(h) ==
    LET c   == work[h]
        old == ledger[KeyOf[c]]
    IN  /\ pc[h] = "confirm"
        /\ IF old # None
           THEN /\ Answer(h, c, old = c)
                /\ ledger' = ledger
           ELSE /\ ledger' = [ledger EXCEPT ![KeyOf[c]] = c]
                /\ Goto(h, "jobs")
                /\ UNCHANGED <<work, answered>>
        /\ UNCHANGED <<job, accepted, file, snap>>

-----------------------------------------------------------------------------
(* persist_provider_state.  The first statement copies the settlement      *)
(* records; the second takes the other mutexes one by one and holds them   *)
(* all until it has copied what they protect.                              *)

SnapJobs(t) ==
    /\ pc[t] = "jobs"
    /\ snap' = [snap EXCEPT ![t].job = job]
    /\ Goto(t, "rest")
    /\ UNCHANGED <<job, ledger, accepted, file, work, answered>>

SnapRest(t) ==
    /\ pc[t] = "rest"
    /\ snap' = [snap EXCEPT ![t].ledger = ledger]
    /\ Goto(t, "open")
    /\ UNCHANGED <<job, ledger, accepted, file, work, answered>>

\* fs::write opens the file and truncates it.  An error of save_state is ignored.
OpenFile(t) ==
    /\ pc[t] = "open"
    /\ \/ file' = Empty /\ Goto(t, "write")
       \/ "io_error" \in Faults /\ file' = file /\ Goto(t, "reply")
    /\ UNCHANGED <<job, ledger, accepted, work, snap, answered>>

\* It writes from the start of the file.  If another thread wrote since it was
\* truncated, and wrote more, the end of that stays behind; after an error, a part.
WriteFile(t) ==
    /\ pc[t] = "write"
    /\ \/ file' = snap[t]
       \/ file # Empty /\ file' = Garbage
       \/ "io_error" \in Faults /\ file' \in {file, Garbage}
    /\ Goto(t, "reply")
    /\ UNCHANGED <<job, ledger, accepted, work, snap, answered>>

\* A mutant of Reply: no request is answered too.
ReplyAll(t) ==
    /\ pc[t] = "reply"
    /\ Answer(t, work[t], TRUE)
    /\ UNCHANGED <<job, ledger, accepted, file, snap>>

\* Main answers nothing: it begins to serve.
Reply(t) ==
    /\ pc[t] = "reply"
    /\ IF work[t] = None
       THEN Goto(t, "idle") /\ UNCHANGED <<work, answered>>
       ELSE Answer(t, work[t], TRUE)
    /\ UNCHANGED <<job, ledger, accepted, file, snap>>

\* The mode switch and the cancel, expire and retry of a sell order change
\* nothing that is kept here, but they persist.
OtherRequest(h) ==
    /\ Serving /\ pc[h] = "idle"
    /\ Goto(h, "jobs")
    /\ UNCHANGED <<job, ledger, accepted, file, work, snap, answered>>

-----------------------------------------------------------------------------
(* Crash and restart.                                                      *)

\* A mutant of Loaded: the ledger is not restored.
LoadedJobs(f) ==
    IF f \in {Empty, Garbage} THEN NewSnapshot
    ELSE [job |-> f.job, ledger |-> NewLedger]

\* Another one: the total is restored, the pairs that it consists of are not.
LoadedTotals(f) ==
    IF f \in {Empty, Garbage} THEN NewSnapshot
    ELSE [f EXCEPT !.job.pairs = NewJob.pairs]

\* load_provider_state: what is not there or cannot be parsed is not loaded.
Loaded(f) == IF f \in {Empty, Garbage} THEN NewSnapshot ELSE f

\* with_benchmark_score builds the defaults, loads, and persists.
Boot ==
    /\ pc[Main] = "boot"
    /\ job' = Loaded(file).job
    /\ ledger' = Loaded(file).ledger
    /\ Goto(Main, "jobs")
    /\ UNCHANGED <<accepted, file, work, snap, answered>>

\* What is in memory is lost, and so are the requests being answered.
Crash ==
    /\ "crash" \in Faults
    /\ "torn_write" \in Faults \/ \A t \in Threads : pc[t] # "write"
    /\ job' = NewJob /\ ledger' = NewLedger /\ accepted' = FALSE
    /\ pc' = [t \in Threads |-> IF t = Main THEN "boot" ELSE "idle"]
    /\ work' = [t \in Threads |-> None]
    /\ snap' = [t \in Threads |-> NewSnapshot]
    /\ UNCHANGED <<file, answered>>

-----------------------------------------------------------------------------
Next ==
    \/ AcceptAgreement \/ RevokeAgreement
    \/ \E h \in Handlers :
        \/ \E r \in Requests : Gate(h, r, "reconcile")
        \/ \E c \in Confirms : Gate(h, c, "confirm")
        \/ ReconcileJob(h) \/ ConfirmLedger(h) \/ OtherRequest(h)
    \/ \E t \in Threads :
        SnapJobs(t) \/ SnapRest(t) \/ OpenFile(t) \/ WriteFile(t) \/ Reply(t)
    \/ Boot \/ Crash

Spec == Init /\ [][Next]_vars

-----------------------------------------------------------------------------
(* Properties.                                                             *)

\* A request is counted in the total if it is the one noted for its pair, and
\* then once; the paid windows are those of the noted requests.
Counted(j) ==
    /\ \A r \in Requests : j.total[r] = IF j.pairs[PairOf[r]] = r THEN 1 ELSE 0
    /\ j.windows = UNION {WindowsOf[r] : r \in {q \in Requests : j.total[q] > 0}}
    /\ j.last # None => j.total[j.last] = 1

\* No replay, conflict, concurrent persist, failed write or restart makes
\* reconcile_payment count an amount twice or lose a window it has counted
\* (docs/acceptance.md:288), neither in memory nor in what is on its way to the
\* file nor in the file.
CountedOnce ==
    /\ Counted(job)
    /\ \A t \in Threads : Counted(snap[t].job)
    /\ file \notin {Empty, Garbage} => Counted(file.job)

\* Two requests answered 200 by reconcile_payment have the same pair only if
\* they are the same (docs/acceptance.md:432-434).
OnePayloadPerPair ==
    \A r, s \in answered \cap Requests : PairOf[r] = PairOf[s] => r = s

\* Two requests answered 200 by confirm_payment have the same key only if they
\* are the same: a window is confirmed once (docs/state-machine.md:30).
OnePaymentPerKey ==
    \A c, d \in answered \cap Confirms : KeyOf[c] = KeyOf[d] => c = d

\* While providerd serves, it knows every payment it has ever answered 200,
\* whatever restarts came between.
AnswersKept ==
    Serving =>
        \A x \in answered :
            /\ x \in Requests => job.pairs[PairOf[x]] = x
            /\ x \in Confirms => ledger[KeyOf[x]] = x

\* What the provider knows, or will know when it has started: the refinement
\* mapping to FirstWins.
Known == IF pc[Main] = "boot" THEN Loaded(file) ELSE [job |-> job, ledger |-> ledger]

Held == [s \in Pairs \cup Keys |->
             IF s \in Pairs THEN Known.job.pairs[s] ELSE Known.ledger[s]]

SlotOf == [x \in Requests \cup Confirms |->
               IF x \in Requests THEN PairOf[x] ELSE KeyOf[x]]

Promise == INSTANCE FirstWins WITH
    Items <- Requests \cup Confirms, Slots <- Pairs \cup Keys, held <- Held

\* Both endpoints keep the promise of FirstWins: the first request stands, its
\* replays are answered alike, and no restart forgets what was answered.
KeepsPromise == Promise!Spec

\* When no request is being answered, the file says what the memory says.
QuietFileCurrent ==
    (\A t \in Threads : pc[t] = "idle") => file = [job |-> job, ledger |-> ledger]
=============================================================================
