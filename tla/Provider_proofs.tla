--------------------------- MODULE Provider_proofs --------------------------
(***************************************************************************)
(* Proofs about Provider.                                                  *)
(***************************************************************************)
EXTENDS Provider, TLAPS

\* What a thread works on, by its place.
Working ==
    /\ work[Main] = None /\ pc[Main] \notin {"reconcile", "confirm"}
    /\ \A h \in Handlers :
        /\ pc[h] # "boot"
        /\ ~Serving => pc[h] = "idle"
        /\ pc[h] = "idle" => work[h] = None
        /\ pc[h] = "reconcile" => work[h] \in Requests
        /\ pc[h] = "confirm" => work[h] \in Confirms

TInv == TypeOK /\ Working

LEMMA LoadedType == ASSUME file \in Snapshots \cup {Empty, Garbage}
                    PROVE  Loaded(file) \in Snapshots
BY DEF Loaded, Snapshots, NewSnapshot, NewJob, NewLedger, Jobs, Ledgers

LEMMA EnteredType == ASSUME NEW j \in Jobs, NEW r \in Requests
                     PROVE  Entered(j, r) \in Jobs
<1>1. [j.total EXCEPT ![r] = @ + 1] \in [Requests -> Nat]
  BY DEF Jobs
<1>2. [j.pairs EXCEPT ![PairOf[r]] = r] \in [Pairs -> Requests \cup {None}]
  BY DEF Jobs
<1>3. j.windows \cup WindowsOf[r] \in SUBSET Windows
  BY RequestsAssumption DEF Jobs
<1> QED
  BY <1>1, <1>2, <1>3 DEF Entered, Jobs

LEMMA TypeInvariant == Spec => []TInv
<1>1. Init => TInv
  <2> SUFFICES ASSUME Init PROVE TInv
    OBVIOUS
  <2>1. NewJob \in Jobs /\ NewLedger \in Ledgers /\ NewSnapshot \in Snapshots
    BY DEF NewJob, NewLedger, NewSnapshot, Jobs, Ledgers, Snapshots
  <2>2. Working
    BY ThreadsAssumption DEF Init, Working, Threads, Serving
  <2> QED
    BY <2>1, <2>2 DEF Init, TInv, TypeOK, Places, Threads
<1>2. TInv /\ [Next]_vars => TInv'
  <2> SUFFICES ASSUME TInv, [Next]_vars PROVE TInv'
    OBVIOUS
  <2> USE ThreadsAssumption DEF TInv, Working, Threads, Serving
  <2>1. CASE AcceptAgreement \/ RevokeAgreement
    BY <2>1 DEF AcceptAgreement, RevokeAgreement, TypeOK
  <2>2. ASSUME NEW h \in Handlers, NEW r \in Requests, Gate(h, r, "reconcile")
        PROVE  TInv'
    BY <2>2 DEF Gate, Goto, TypeOK, Places
  <2>3. ASSUME NEW h \in Handlers, NEW c \in Confirms, Gate(h, c, "confirm")
        PROVE  TInv'
    BY <2>3 DEF Gate, Goto, TypeOK, Places
  <2>4. ASSUME NEW h \in Handlers, ReconcileJob(h) PROVE TInv'
    <3>1. work[h] \in Requests
      BY <2>4 DEF ReconcileJob
    <3>2. job' \in Jobs
      BY <2>4, <3>1, EnteredType DEF ReconcileJob, TypeOK
    <3> QED
      BY <2>4, <3>1, <3>2 DEF ReconcileJob, Answer, Goto, TypeOK, Places
  <2>5. ASSUME NEW h \in Handlers, ConfirmLedger(h) PROVE TInv'
    <3>1. work[h] \in Confirms
      BY <2>5 DEF ConfirmLedger
    <3>2. ledger' \in Ledgers
      BY <2>5, <3>1 DEF ConfirmLedger, TypeOK, Ledgers
    <3> QED
      BY <2>5, <3>1, <3>2 DEF ConfirmLedger, Answer, Goto, TypeOK, Places
  <2>6. ASSUME NEW h \in Handlers, OtherRequest(h) PROVE TInv'
    BY <2>6 DEF OtherRequest, Goto, TypeOK, Places
  <2>7. ASSUME NEW t \in Threads, SnapJobs(t) PROVE TInv'
    <3>1. snap' \in [Threads -> Snapshots]
      BY <2>7 DEF SnapJobs, TypeOK, Snapshots
    <3> QED
      BY <2>7, <3>1 DEF SnapJobs, Goto, TypeOK, Places
  <2>8. ASSUME NEW t \in Threads, SnapRest(t) PROVE TInv'
    <3>1. snap' \in [Threads -> Snapshots]
      BY <2>8 DEF SnapRest, TypeOK, Snapshots
    <3> QED
      BY <2>8, <3>1 DEF SnapRest, Goto, TypeOK, Places
  <2>9. ASSUME NEW t \in Threads, OpenFile(t) PROVE TInv'
    BY <2>9 DEF OpenFile, Goto, TypeOK, Places
  <2>10. ASSUME NEW t \in Threads, WriteFile(t) PROVE TInv'
    BY <2>10 DEF WriteFile, Goto, TypeOK, Places
  <2>11. ASSUME NEW t \in Threads, Reply(t) PROVE TInv'
    BY <2>11 DEF Reply, Answer, Goto, TypeOK, Places
  <2>12. CASE Boot
    <3>1. job' \in Jobs /\ ledger' \in Ledgers
      BY <2>12, LoadedType DEF Boot, TypeOK, Snapshots
    <3> QED
      BY <2>12, <3>1 DEF Boot, Goto, TypeOK, Places
  <2>13. CASE Crash
    BY <2>13 DEF Crash, TypeOK, Places, NewJob, NewLedger, NewSnapshot, Jobs,
                 Ledgers, Snapshots
  <2>14. CASE UNCHANGED vars
    BY <2>14 DEF vars, TypeOK
  <2> QED
    BY <2>1, <2>2, <2>3, <2>4, <2>5, <2>6, <2>7, <2>8, <2>9, <2>10, <2>11,
       <2>12, <2>13, <2>14 DEF Next
<1> QED
  BY <1>1, <1>2, PTL DEF Spec

\* Every variable keeps its type: a copy of the maps, the file and what is
\* loaded from it have the shape of the maps.
THEOREM ProviderTypes == Spec => []TypeOK
BY TypeInvariant, PTL DEF TInv

-----------------------------------------------------------------------------
(* What reconcile_payment counts.                                          *)

LEMMA NewCounted == Counted(NewJob)
<1>1. \A r \in Requests : NewJob.total[r] = 0 /\ NewJob.pairs[PairOf[r]] = None
  BY RequestsAssumption DEF NewJob
<1>2. NewJob.windows = {} /\ NewJob.last = None
  BY DEF NewJob
<1> QED
  BY <1>1, <1>2, RequestsAssumption DEF Counted

LEMMA EnteredCounted ==
    ASSUME NEW j \in Jobs, Counted(j), NEW r \in Requests, j.pairs[PairOf[r]] = None
    PROVE  Counted(Entered(j, r))
<1> DEFINE e == Entered(j, r)
<1>1. /\ e.pairs = [j.pairs EXCEPT ![PairOf[r]] = r]
      /\ e.total = [j.total EXCEPT ![r] = @ + 1]
      /\ e.windows = j.windows \cup WindowsOf[r]
      /\ e.last = r
  BY DEF Entered
<1>2. /\ j.pairs \in [Pairs -> Requests \cup {None}]
      /\ j.total \in [Requests -> Nat]
  BY DEF Jobs
<1>3. j.total[r] = 0
  BY RequestsAssumption DEF Counted
<1>4. \A q \in Requests : e.total[q] = IF q = r THEN 1 ELSE j.total[q]
  BY <1>1, <1>2, <1>3
<1>5. \A q \in Requests : e.total[q] = IF e.pairs[PairOf[q]] = q THEN 1 ELSE 0
  BY <1>1, <1>2, <1>4, RequestsAssumption DEF Counted
<1>6. {q \in Requests : e.total[q] > 0} = {q \in Requests : j.total[q] > 0} \cup {r}
  BY <1>4
<1>7. e.windows = UNION {WindowsOf[q] : q \in {p \in Requests : e.total[p] > 0}}
  <2>1. j.windows = UNION {WindowsOf[q] : q \in {p \in Requests : j.total[p] > 0}}
    BY DEF Counted
  <2> HIDE DEF e
  <2> QED
    BY <1>1, <1>6, <2>1
<1> QED
  BY <1>1, <1>4, <1>5, <1>7 DEF Counted

\* No replay, conflict, concurrent persist, failed or torn write or restart makes
\* reconcile_payment count an amount twice, or keep a window without its amount.
THEOREM ReconciledOnce == Spec => []CountedOnce
<1>1. Init => CountedOnce
  BY NewCounted DEF Init, CountedOnce, NewSnapshot
<1>2. TInv /\ CountedOnce /\ [Next]_vars => CountedOnce'
  <2> SUFFICES ASSUME TInv, CountedOnce, [Next]_vars PROVE CountedOnce'
    OBVIOUS
  <2> USE DEF TInv, Threads
  <2>0. ASSUME UNCHANGED <<job, file, snap>> PROVE CountedOnce'
    BY <2>0 DEF CountedOnce, Counted
  <2>1. ASSUME NEW h \in Handlers, ReconcileJob(h) PROVE CountedOnce'
    <3>1. work[h] \in Requests
      BY <2>1 DEF ReconcileJob, Working
    <3>2. Counted(job')
      BY <2>1, <3>1, EnteredCounted DEF ReconcileJob, TypeOK, CountedOnce
    <3> QED
      BY <2>1, <3>2 DEF ReconcileJob, CountedOnce, Counted
  <2>2. ASSUME NEW t \in Threads, SnapJobs(t) PROVE CountedOnce'
    <3>1. \A u \in Threads : snap'[u].job = IF u = t THEN job ELSE snap[u].job
      BY <2>2 DEF SnapJobs, TypeOK, Snapshots
    <3>2. \A u \in Threads : Counted(snap'[u].job)
      BY <3>1 DEF CountedOnce
    <3> QED
      BY <2>2, <3>2 DEF SnapJobs, CountedOnce, Counted
  <2>3. ASSUME NEW t \in Threads, SnapRest(t) PROVE CountedOnce'
    <3>1. \A u \in Threads : snap'[u].job = snap[u].job
      BY <2>3 DEF SnapRest, TypeOK, Snapshots
    <3>2. \A u \in Threads : Counted(snap'[u].job)
      BY <3>1 DEF CountedOnce
    <3> QED
      BY <2>3, <3>2 DEF SnapRest, CountedOnce, Counted
  <2>4. ASSUME NEW t \in Threads, OpenFile(t) \/ WriteFile(t) PROVE CountedOnce'
    BY <2>4 DEF OpenFile, WriteFile, CountedOnce, Counted
  <2>5. CASE Boot
    <3>1. Counted(Loaded(file).job)
      BY NewCounted DEF CountedOnce, Loaded, NewSnapshot
    <3> QED
      BY <2>5, <3>1 DEF Boot, CountedOnce, Counted
  <2>6. CASE Crash
    <3>1. job' = NewJob /\ \A t \in Threads : snap'[t].job = NewJob
      BY <2>6 DEF Crash, NewSnapshot
    <3>2. Counted(job') /\ \A t \in Threads : Counted(snap'[t].job)
      BY <3>1, NewCounted
    <3> QED
      BY <2>6, <3>2 DEF Crash, CountedOnce, Counted
  <2> QED
    BY <2>0, <2>1, <2>2, <2>3, <2>4, <2>5, <2>6
    DEF Next, vars, AcceptAgreement, RevokeAgreement, Gate, ConfirmLedger,
        OtherRequest, Reply
<1> QED
  BY <1>1, <1>2, TypeInvariant, PTL DEF Spec

-----------------------------------------------------------------------------
(* The promise of FirstWins.                                               *)

\* x stands in the maps of m.
StandsIn(m, x) ==
    /\ x \in Requests => m.job.pairs[PairOf[x]] = x
    /\ x \in Confirms => m.ledger[KeyOf[x]] = x

\* m has forgotten some of what n knows, and knows nothing else.
Below(m, n) ==
    /\ \A p \in Pairs : m.job.pairs[p] \in {None, n.job.pairs[p]}
    /\ \A k \in Keys : m.ledger[k] \in {None, n.ledger[k]}

Persisting == {"jobs", "rest", "open", "write", "reply"}

\* What was answered stands, and what is about to be answered 200.
PInv ==
    /\ \A x \in answered : StandsIn(Known, x)
    /\ \A t \in Threads :
        pc[t] \in Persisting /\ work[t] # None => StandsIn(Known, work[t])

\* A crash now loses nothing that was answered, and nothing is made up.
SafeCrash ==
    /\ \A x \in answered : StandsIn(Loaded(file), x)
    /\ Below(Loaded(file), Known)

LEMMA KnownType == ASSUME TInv PROVE Known \in Snapshots
BY LoadedType DEF TInv, TypeOK, Known, Snapshots

\* A request stands exactly if it is held in its slot.
LEMMA HeldSlot ==
    ASSUME NEW x \in Requests \cup Confirms
    PROVE  /\ SlotOf[x] \in Pairs \cup Keys
           /\ Held[SlotOf[x]] = x <=> StandsIn(Known, x)
           /\ Held'[SlotOf[x]] = x <=> StandsIn(Known', x)
BY RequestsAssumption DEF SlotOf, Held, StandsIn

\* An action that changes neither what is known nor what was answered.
LEMMA Same ==
    ASSUME TInv, PInv, Known' = Known, answered' = answered,
           \A t \in Threads : pc'[t] \in Persisting /\ work'[t] # None =>
               \/ pc[t] \in Persisting /\ work'[t] = work[t]
               \/ StandsIn(Known, work'[t])
    PROVE  PInv' /\ UNCHANGED <<Held, answered>>
<1>1. PInv'
  BY DEF PInv, StandsIn
<1>2. Held' = Held
  BY DEF Held
<1> QED
  BY <1>1, <1>2

LEMMA EnterStep ==
    ASSUME TInv, PInv, NEW h \in Handlers, NEW x \in Requests \cup Confirms,
           Held[SlotOf[x]] = None,
           answered' = answered, work' = work, Goto(h, "jobs"), work[h] = x,
           Held' = [Held EXCEPT ![SlotOf[x]] = x]
    PROVE  PInv' /\ Promise!Enter(x)
<1>1. Promise!Enter(x)
  BY DEF Promise!Enter
<1>2. ASSUME NEW y \in Requests \cup Confirms, StandsIn(Known, y)
      PROVE  StandsIn(Known', y)
  <2>1. Held[SlotOf[y]] = y /\ y # None
    BY <1>2, HeldSlot, RequestsAssumption
  <2>2. Held'[SlotOf[y]] = y
    BY <2>1
  <2> QED
    BY <2>2, HeldSlot
<1>3. StandsIn(Known', x)
  <2>1. Held'[SlotOf[x]] = x
    BY HeldSlot DEF Held
  <2> QED
    BY <2>1, HeldSlot
<1>4. PInv'
  BY <1>2, <1>3 DEF PInv, TInv, TypeOK, Goto, StandsIn
<1> QED
  BY <1>1, <1>4

LEMMA AnswerStep ==
    ASSUME TInv, PInv, NEW t \in Threads, NEW x \in Requests \cup Confirms,
           StandsIn(Known, x), Answer(t, x, TRUE), Known' = Known
    PROVE  PInv' /\ Promise!Answer(x)
<1>1. Held[SlotOf[x]] = x
  BY HeldSlot
<1>2. Held' = Held
  BY DEF Held
<1>3. Promise!Answer(x)
  BY <1>1, <1>2 DEF Promise!Answer, Answer
<1>4. PInv'
  BY DEF PInv, StandsIn, Answer, Goto, TInv, TypeOK, Persisting
<1> QED
  BY <1>3, <1>4

\* Every step but a crash keeps PInv and is a step of FirstWins.
LEMMA PromiseStep ==
    ASSUME TInv, PInv, Next, ~Crash
    PROVE  PInv' /\ [Promise!Next]_<<Held, answered>>
<1> USE ThreadsAssumption DEF TInv, Working, Threads, Serving
<1> DEFINE Mem == [job |-> job, ledger |-> ledger]
<1>1. CASE AcceptAgreement \/ RevokeAgreement
  <2>1. Known' = Known
    BY <1>1 DEF AcceptAgreement, RevokeAgreement, Known
  <2> QED
    BY <1>1, <2>1, Same DEF AcceptAgreement, RevokeAgreement
<1>2. ASSUME NEW h \in Handlers, NEW x \in Requests \cup Confirms,
             NEW place \in {"reconcile", "confirm"}, Gate(h, x, place)
      PROVE  PInv' /\ [Promise!Next]_<<Held, answered>>
  <2>1. Known' = Known
    BY <1>2 DEF Gate, Goto, Known, TypeOK
  <2>2. \A t \in Threads : pc'[t] \in Persisting => pc[t] \in Persisting /\ work'[t] = work[t]
    BY <1>2 DEF Gate, Goto, TypeOK, Persisting
  <2> QED
    BY <1>2, <2>1, <2>2, Same DEF Gate
<1>3. ASSUME NEW h \in Handlers, ReconcileJob(h)
      PROVE  PInv' /\ [Promise!Next]_<<Held, answered>>
  <2> DEFINE r == work[h]
             old == job.pairs[PairOf[r]]
  <2>1. r \in Requests /\ Known = Mem /\ Known' = Mem'
    BY <1>3 DEF ReconcileJob, Answer, Goto, Known, TypeOK
  <2>2. CASE WindowsOf[r] # {} /\ old = r
    <3>1. StandsIn(Known, r) /\ Answer(h, r, TRUE) /\ Known' = Known
      BY <1>3, <2>1, <2>2, RequestsAssumption DEF ReconcileJob, StandsIn, Answer
    <3> QED
      BY <2>1, <3>1, AnswerStep DEF Promise!Next
  <2>3. CASE (WindowsOf[r] = {} \/ old # None) /\ ~(WindowsOf[r] # {} /\ old = r)
    <3>1. Known' = Known /\ answered' = answered
      BY <1>3, <2>1, <2>3 DEF ReconcileJob, Answer
    <3>2. \A t \in Threads : pc'[t] \in Persisting => pc[t] \in Persisting /\ work'[t] = work[t]
      BY <1>3, <2>3 DEF ReconcileJob, Answer, Goto, TypeOK, Persisting
    <3> QED
      BY <3>1, <3>2, Same
  <2>4. CASE WindowsOf[r] # {} /\ old = None
    <3>1. job' = Entered(job, r) /\ ledger' = ledger
      BY <1>3, <2>4 DEF ReconcileJob
    <3>2. Held[SlotOf[r]] = None /\ Held' = [Held EXCEPT ![SlotOf[r]] = r]
      <4>1. SlotOf[r] = PairOf[r] /\ PairOf[r] \in Pairs
        BY <2>1, RequestsAssumption DEF SlotOf
      <4>2. Known.job = job /\ Known'.job = Entered(job, r) /\ Known'.ledger = Known.ledger
        BY <2>1, <3>1
      <4>3. Known'.job.pairs = [Known.job.pairs EXCEPT ![PairOf[r]] = r]
        BY <4>2 DEF Entered
      <4>4. Known.job.pairs \in [Pairs -> Requests \cup {None}]
        BY <4>2 DEF TypeOK, Jobs
      <4>5. \A s \in Pairs \cup Keys : Held'[s] = IF s = PairOf[r] THEN r ELSE Held[s]
        BY <4>1, <4>2, <4>3, <4>4, RequestsAssumption DEF Held
      <4>6. Held[PairOf[r]] = None
        BY <2>4, <4>1, <4>2 DEF Held
      <4> QED
        BY <4>1, <4>5, <4>6 DEF Held
    <3>3. answered' = answered /\ work' = work /\ Goto(h, "jobs")
      BY <1>3, <2>4 DEF ReconcileJob
    <3> QED
      BY <2>1, <3>2, <3>3, EnterStep DEF Promise!Next
  <2> QED
    BY <2>2, <2>3, <2>4
<1>4. ASSUME NEW h \in Handlers, ConfirmLedger(h)
      PROVE  PInv' /\ [Promise!Next]_<<Held, answered>>
  <2> DEFINE c == work[h]
             old == ledger[KeyOf[c]]
  <2>1. c \in Confirms /\ Known = Mem /\ Known' = Mem'
    BY <1>4 DEF ConfirmLedger, Answer, Goto, Known, TypeOK
  <2>2. CASE old = c
    <3>1. StandsIn(Known, c) /\ Answer(h, c, TRUE) /\ Known' = Known
      BY <1>4, <2>1, <2>2, RequestsAssumption DEF ConfirmLedger, StandsIn, Answer
    <3> QED
      BY <2>1, <3>1, AnswerStep DEF Promise!Next
  <2>3. CASE old # None /\ old # c
    <3>1. Known' = Known /\ answered' = answered
      BY <1>4, <2>1, <2>3 DEF ConfirmLedger, Answer
    <3>2. \A t \in Threads : pc'[t] \in Persisting => pc[t] \in Persisting /\ work'[t] = work[t]
      BY <1>4, <2>3 DEF ConfirmLedger, Answer, Goto, TypeOK, Persisting
    <3> QED
      BY <3>1, <3>2, Same
  <2>4. CASE old = None
    <3>1. ledger' = [ledger EXCEPT ![KeyOf[c]] = c] /\ job' = job
      BY <1>4, <2>4 DEF ConfirmLedger
    <3>2. Held[SlotOf[c]] = None /\ Held' = [Held EXCEPT ![SlotOf[c]] = c]
      <4>1. SlotOf[c] = KeyOf[c] /\ KeyOf[c] \in Keys
        BY <2>1, RequestsAssumption DEF SlotOf
      <4>2. Known'.job = Known.job /\ Known.ledger = ledger /\ Known'.ledger = ledger'
        BY <2>1, <3>1
      <4>3. ledger \in [Keys -> Confirms \cup {None}]
        BY DEF TypeOK, Ledgers
      <4>4. \A s \in Pairs \cup Keys : Held'[s] = IF s = KeyOf[c] THEN c ELSE Held[s]
        BY <3>1, <4>1, <4>2, <4>3, RequestsAssumption DEF Held
      <4>5. Held[KeyOf[c]] = None
        BY <2>4, <4>1, <4>2, RequestsAssumption DEF Held
      <4> QED
        BY <4>1, <4>4, <4>5 DEF Held
    <3>3. answered' = answered /\ work' = work /\ Goto(h, "jobs")
      BY <1>4, <2>4 DEF ConfirmLedger
    <3> QED
      BY <2>1, <3>2, <3>3, EnterStep DEF Promise!Next
  <2> QED
    BY <2>2, <2>3, <2>4
<1>5. ASSUME NEW h \in Handlers, OtherRequest(h)
      PROVE  PInv' /\ [Promise!Next]_<<Held, answered>>
  <2>1. Known' = Known
    BY <1>5 DEF OtherRequest, Goto, Known, TypeOK
  <2>2. \A t \in Threads : pc'[t] \in Persisting /\ work'[t] # None =>
            pc[t] \in Persisting /\ work'[t] = work[t]
    BY <1>5 DEF OtherRequest, Goto, TypeOK, Persisting
  <2> QED
    BY <1>5, <2>1, <2>2, Same DEF OtherRequest
<1>6. ASSUME NEW t \in Threads, SnapJobs(t) \/ SnapRest(t) \/ OpenFile(t) \/ WriteFile(t)
      PROVE  PInv' /\ [Promise!Next]_<<Held, answered>>
  <2>1. pc[Main] # "boot" /\ pc'[Main] # "boot" /\ job' = job /\ ledger' = ledger
    BY <1>6 DEF SnapJobs, SnapRest, OpenFile, WriteFile, Goto, TypeOK
  <2>2. Known' = Known
    BY <2>1 DEF Known
  <2>3. \A u \in Threads : pc'[u] \in Persisting => pc[u] \in Persisting /\ work'[u] = work[u]
    BY <1>6 DEF SnapJobs, SnapRest, OpenFile, WriteFile, Goto, TypeOK, Persisting
  <2> QED
    BY <1>6, <2>2, <2>3, Same DEF SnapJobs, SnapRest, OpenFile, WriteFile
<1>7. ASSUME NEW t \in Threads, Reply(t)
      PROVE  PInv' /\ [Promise!Next]_<<Held, answered>>
  <2>1. Known' = Known
    BY <1>7 DEF Reply, Answer, Goto, Known, TypeOK
  <2>2. CASE work[t] = None
    <3>1. \A u \in Threads : pc'[u] \in Persisting => pc[u] \in Persisting /\ work'[u] = work[u]
      BY <1>7, <2>2 DEF Reply, Goto, TypeOK, Persisting
    <3> QED
      BY <1>7, <2>1, <2>2, <3>1, Same DEF Reply
  <2>3. CASE work[t] # None
    <3>1. StandsIn(Known, work[t]) /\ Answer(t, work[t], TRUE)
      BY <1>7, <2>3 DEF Reply, PInv, Persisting
    <3>2. work[t] \in Requests \cup Confirms
      BY <2>3 DEF TypeOK
    <3> QED
      BY <2>1, <3>1, <3>2, AnswerStep DEF Promise!Next
  <2> QED
    BY <2>2, <2>3
<1>8. CASE Boot
  <2>1. Known' = Known
    BY <1>8, LoadedType DEF Boot, Goto, Known, TypeOK, Snapshots
  <2>2. \A t \in Threads : pc'[t] \in Persisting /\ work'[t] # None =>
            pc[t] \in Persisting /\ work'[t] = work[t]
    BY <1>8 DEF Boot, Goto, TypeOK, Persisting
  <2> QED
    BY <1>8, <2>1, <2>2, Same DEF Boot
<1> QED
  BY <1>1, <1>2, <1>3, <1>4, <1>5, <1>6, <1>7, <1>8 DEF Next

\* A crash forgets, but nothing that was answered.
LEMMA CrashStep ==
    ASSUME TInv, PInv, SafeCrash, Crash
    PROVE  PInv' /\ [Promise!Next]_<<Held, answered>>
<1> USE ThreadsAssumption DEF TInv, Threads
<1>1. Known' = Loaded(file) /\ answered' = answered
  BY DEF Crash, Known, Loaded
<1>2. PInv'
  BY <1>1 DEF SafeCrash, PInv, Crash, StandsIn
<1> DEFINE forgotten == {s \in Pairs \cup Keys : Held'[s] # Held[s]}
<1>3. Held' = [s \in Pairs \cup Keys |-> IF s \in forgotten THEN None ELSE Held[s]]
  <2>1. \A s \in Pairs \cup Keys : Held'[s] \in {None, Held[s]}
    BY <1>1 DEF SafeCrash, Below, Held
  <2>2. /\ Held' = [s \in Pairs \cup Keys |-> Held'[s]]
    BY DEF Held
  <2> QED
    BY <2>1, <2>2
<1>4. forgotten \in SUBSET ((Pairs \cup Keys) \ {SlotOf[x] : x \in answered})
  <2>1. ASSUME NEW x \in answered PROVE SlotOf[x] \notin forgotten
    <3>1. x \in Requests \cup Confirms
      BY DEF TypeOK
    <3>2. StandsIn(Known, x) /\ StandsIn(Known', x)
      BY <1>1 DEF PInv, SafeCrash
    <3> QED
      BY <3>1, <3>2, HeldSlot
  <2> QED
    BY <2>1
<1>5. Promise!Restart
  BY <1>1, <1>3, <1>4 DEF Promise!Restart
<1> QED
  BY <1>2, <1>5 DEF Promise!Next

LEMMA PromiseInit == Init => PInv /\ Promise!Init
<1> SUFFICES ASSUME Init PROVE PInv /\ Promise!Init
  OBVIOUS
<1>1. Known = NewSnapshot
  BY DEF Init, Known, Loaded, Threads
<1>2. Held = [s \in Pairs \cup Keys |-> None]
  BY <1>1 DEF Held, NewSnapshot, NewJob, NewLedger
<1>3. PInv
  BY DEF Init, PInv, Persisting
<1> QED
  BY <1>2, <1>3 DEF Promise!Init, Init

LEMMA PromiseStutter ==
    ASSUME PInv, UNCHANGED vars
    PROVE  PInv' /\ UNCHANGED <<Held, answered>>
<1>1. Known' = Known
  BY DEF vars, Known
<1> QED
  BY <1>1 DEF PInv, StandsIn, Held, vars

\* While the provider does not crash, both endpoints keep the promise of
\* FirstWins, however many handlers answer and persist at the same time and
\* whatever the disk does.
THEOREM PromiseKept ==
    ASSUME "crash" \notin Faults
    PROVE  Spec => KeepsPromise
<1>1. TInv /\ PInv /\ [Next]_vars => PInv' /\ [Promise!Next]_<<Held, answered>>
  <2>1. ~Crash
    BY DEF Crash
  <2> QED
    BY <2>1, PromiseStep, PromiseStutter
<1> QED
  BY <1>1, PromiseInit, TypeInvariant, PTL DEF Spec, KeepsPromise, Promise!Spec

-----------------------------------------------------------------------------
(* One handler at a time.                                                  *)

Memory == [job |-> job, ledger |-> ledger]

\* With one thread at work, the file is the memory, or about to become it.
SInv ==
    /\ \A t, u \in Threads : pc[t] # "idle" /\ pc[u] # "idle" => t = u
    /\ file # Garbage
    /\ \A t \in Threads :
        /\ pc[t] = "rest" => snap[t].job = job
        /\ pc[t] \in {"open", "write"} => snap[t] = Memory
        /\ pc[t] = "write" => file = Empty
        /\ pc[t] = "reply" => file = Memory
    /\ (\A t \in Threads : pc[t] \notin Persisting \cup {"boot"}) => file = Memory
    /\ (\A t \in Threads : pc[t] # "write") => SafeCrash

LEMMA MemoryLoaded == ASSUME TInv PROVE Memory \in Snapshots /\ Loaded(Memory) = Memory
BY FileAssumption DEF TInv, TypeOK, Memory, Snapshots, Loaded

\* A file that says what the memory says makes a crash safe.
LEMMA FileCurrent ==
    ASSUME TInv, PInv, file = Memory, pc[Main] # "boot"
    PROVE  SafeCrash
<1>1. Known = Memory /\ Loaded(file) = Known
  BY MemoryLoaded DEF Known, Memory
<1> QED
  BY <1>1 DEF SafeCrash, Below, PInv

LEMMA SerialStep ==
    ASSUME TInv, TInv', PInv, PInv', SInv, [Next]_vars,
           \A g, h \in Handlers : g = h, Faults \subseteq {"crash"}
    PROVE  SInv'
<1> USE ThreadsAssumption DEF TInv, Working, Threads, Serving
<1>1. CASE AcceptAgreement \/ RevokeAgreement \/ UNCHANGED vars
  <2>1. UNCHANGED <<job, ledger, file, pc, snap, answered>>
    BY <1>1 DEF AcceptAgreement, RevokeAgreement, vars
  <2> QED
    BY <2>1 DEF SInv, Memory, SafeCrash, Known, StandsIn, Below
<1>2. ASSUME NEW h \in Handlers, NEW x \in Requests \cup Confirms,
             NEW place \in {"reconcile", "confirm"}, Gate(h, x, place)
      PROVE  SInv'
  <2>1. UNCHANGED <<job, ledger, file, snap, answered>> /\ pc' = [pc EXCEPT ![h] = place]
        /\ \A t \in Threads : pc[t] = "idle"
    BY <1>2 DEF Gate, Goto
  <2>2. file = Memory /\ Memory' = Memory
    BY <2>1 DEF SInv, Persisting, Memory
  <2>3. SafeCrash'
    BY <2>1, <2>2, FileCurrent DEF SafeCrash, Known, StandsIn, Below, TypeOK
  <2> QED
    BY <2>1, <2>2, <2>3 DEF SInv, Persisting, TypeOK
<1>3. ASSUME NEW h \in Handlers, ReconcileJob(h) PROVE SInv'
  <2>1. file = Memory /\ pc[h] = "reconcile" /\ UNCHANGED <<ledger, file, snap>>
        /\ \A t \in Threads : t # h => pc[t] = "idle"
    BY <1>3 DEF ReconcileJob, SInv, Persisting
  <2>2. CASE pc' = [pc EXCEPT ![h] = "idle"] /\ job' = job
    <3>1. Memory' = Memory
      BY <2>1, <2>2 DEF Memory
    <3>2. SafeCrash'
      <4>1. pc'[Main] # "boot"
        BY <2>1, <2>2 DEF TypeOK
      <4>2. Known' = Memory' /\ Loaded(file)' = Known'
        BY <2>1, <3>1, <4>1, MemoryLoaded DEF Known, Memory, Loaded
      <4> QED
        BY <4>2 DEF SafeCrash, Below, PInv, Loaded
    <3> QED
      BY <2>1, <2>2, <3>1, <3>2 DEF SInv, TypeOK
  <2>3. CASE job' = Entered(job, work[h]) /\ pc' = [pc EXCEPT ![h] = "jobs"]
             /\ job.pairs[PairOf[work[h]]] = None /\ answered' = answered
    <3>1. SafeCrash /\ Loaded(file) = Memory
      BY <2>1, FileCurrent, MemoryLoaded
    <3>2. Known'.job.pairs = [job.pairs EXCEPT ![PairOf[work[h]]] = work[h]]
          /\ Known'.ledger = ledger
      BY <2>1, <2>3 DEF Known, Entered, TypeOK
    <3>3. job.pairs \in [Pairs -> Requests \cup {None}]
      BY DEF TypeOK, Jobs
    <3>4. Below(Loaded(file), Known')
      BY <2>3, <3>1, <3>2, <3>3 DEF Below, Memory
    <3>5. SafeCrash'
      BY <2>1, <2>3, <3>1, <3>4 DEF SafeCrash, StandsIn, Below, Loaded
    <3> QED
      BY <2>1, <2>3, <3>5, FileAssumption, MemoryLoaded DEF SInv, TypeOK, Persisting
  <2> QED
    BY <1>3, <2>2, <2>3 DEF ReconcileJob, Answer, Goto
<1>4. ASSUME NEW h \in Handlers, ConfirmLedger(h) PROVE SInv'
  <2>1. file = Memory /\ pc[h] = "confirm" /\ UNCHANGED <<job, file, snap>>
        /\ \A t \in Threads : t # h => pc[t] = "idle"
    BY <1>4 DEF ConfirmLedger, SInv, Persisting
  <2>2. CASE pc' = [pc EXCEPT ![h] = "idle"] /\ ledger' = ledger
    <3>1. Memory' = Memory
      BY <2>1, <2>2 DEF Memory
    <3>2. SafeCrash'
      <4>1. pc'[Main] # "boot"
        BY <2>1, <2>2 DEF TypeOK
      <4>2. Known' = Memory' /\ Loaded(file)' = Known'
        BY <2>1, <3>1, <4>1, MemoryLoaded DEF Known, Memory, Loaded
      <4> QED
        BY <4>2 DEF SafeCrash, Below, PInv, Loaded
    <3> QED
      BY <2>1, <2>2, <3>1, <3>2 DEF SInv, TypeOK
  <2>3. CASE ledger' = [ledger EXCEPT ![KeyOf[work[h]]] = work[h]]
             /\ pc' = [pc EXCEPT ![h] = "jobs"]
             /\ ledger[KeyOf[work[h]]] = None /\ answered' = answered
    <3>1. SafeCrash /\ Loaded(file) = Memory
      BY <2>1, FileCurrent, MemoryLoaded
    <3>2. Known'.job = job /\ Known'.ledger = [ledger EXCEPT ![KeyOf[work[h]]] = work[h]]
      BY <2>1, <2>3 DEF Known, TypeOK
    <3>3. ledger \in [Keys -> Confirms \cup {None}]
      BY DEF TypeOK, Ledgers
    <3>4. Below(Loaded(file), Known')
      BY <2>3, <3>1, <3>2, <3>3 DEF Below, Memory
    <3>5. SafeCrash'
      BY <2>1, <2>3, <3>1, <3>4 DEF SafeCrash, StandsIn, Below, Loaded
    <3> QED
      BY <2>1, <2>3, <3>5, FileAssumption, MemoryLoaded DEF SInv, TypeOK, Persisting
  <2> QED
    BY <1>4, <2>2, <2>3 DEF ConfirmLedger, Answer, Goto
<1>5. ASSUME NEW h \in Handlers, OtherRequest(h) PROVE SInv'
  <2>1. UNCHANGED <<job, ledger, file, snap, answered>> /\ pc' = [pc EXCEPT ![h] = "jobs"]
        /\ \A t \in Threads : pc[t] = "idle"
    BY <1>5 DEF OtherRequest, Goto
  <2>2. SafeCrash'
    BY <2>1 DEF SInv, SafeCrash, Known, StandsIn, Below, TypeOK
  <2> QED
    BY <2>1, <2>2 DEF SInv, Persisting, TypeOK
<1>6. ASSUME NEW t \in Threads, SnapJobs(t) PROVE SInv'
  <2>1. UNCHANGED <<job, ledger, file, answered>> /\ pc[t] = "jobs"
        /\ pc' = [pc EXCEPT ![t] = "rest"] /\ snap'[t].job = job
        /\ \A u \in Threads : u # t => pc[u] = "idle"
    BY <1>6 DEF SnapJobs, Goto, SInv, TypeOK, Snapshots
  <2>2. SafeCrash'
    BY <2>1 DEF SInv, SafeCrash, Known, StandsIn, Below, TypeOK
  <2> QED
    BY <2>1, <2>2 DEF SInv, Persisting, TypeOK
<1>7. ASSUME NEW t \in Threads, SnapRest(t) PROVE SInv'
  <2>1. UNCHANGED <<job, ledger, file, answered>> /\ pc[t] = "rest"
        /\ pc' = [pc EXCEPT ![t] = "open"]
        /\ \A u \in Threads : u # t => pc[u] = "idle"
    BY <1>7 DEF SnapRest, Goto, SInv
  <2>2. snap'[t] = Memory'
    <3>1. snap[t].job = job /\ snap[t] \in Snapshots
      BY <2>1 DEF SInv, TypeOK
    <3>2. snap'[t] = [snap[t] EXCEPT !.ledger = ledger]
      BY <1>7 DEF SnapRest, TypeOK
    <3> QED
      BY <2>1, <3>1, <3>2 DEF Snapshots, Memory
  <2>3. SafeCrash'
    BY <2>1 DEF SInv, SafeCrash, Known, StandsIn, Below, TypeOK
  <2> QED
    BY <2>1, <2>2, <2>3 DEF SInv, Persisting, TypeOK
<1>8. ASSUME NEW t \in Threads, OpenFile(t) PROVE SInv'
  <2>1. UNCHANGED <<job, ledger, snap, answered>> /\ pc[t] = "open" /\ file' = Empty
        /\ pc' = [pc EXCEPT ![t] = "write"] /\ snap[t] = Memory
        /\ \A u \in Threads : u # t => pc[u] = "idle"
    BY <1>8 DEF OpenFile, Goto, SInv
  <2> QED
    BY <2>1, FileAssumption DEF SInv, Persisting, TypeOK, Memory
<1>9. ASSUME NEW t \in Threads, WriteFile(t) PROVE SInv'
  <2>1. UNCHANGED <<job, ledger, snap, answered>> /\ pc[t] = "write" /\ file' = Memory
        /\ pc' = [pc EXCEPT ![t] = "reply"]
        /\ \A u \in Threads : u # t => pc[u] = "idle"
    BY <1>9 DEF WriteFile, Goto, SInv
  <2>2. file' = Memory' /\ file' # Garbage
    BY <2>1, MemoryLoaded, FileAssumption DEF Memory
  <2>3. SafeCrash'
    <3>1. pc'[Main] # "boot"
      BY <2>1 DEF TypeOK
    <3>2. Known' = Memory /\ Loaded(file)' = Memory
      BY <2>1, <3>1, MemoryLoaded DEF Known, Memory, Loaded
    <3> QED
      BY <3>2 DEF SafeCrash, Below, PInv, Loaded
  <2> QED
    BY <2>1, <2>2, <2>3 DEF SInv, Persisting, TypeOK
<1>10. ASSUME NEW t \in Threads, Reply(t) PROVE SInv'
  <2>1. UNCHANGED <<job, ledger, file, snap>> /\ pc[t] = "reply" /\ file = Memory
        /\ pc' = [pc EXCEPT ![t] = "idle"]
        /\ \A u \in Threads : u # t => pc[u] = "idle"
    BY <1>10 DEF Reply, Answer, Goto, SInv
  <2>2. Memory' = Memory
    BY <2>1 DEF Memory
  <2>3. SafeCrash'
    <3>1. pc'[Main] # "boot"
      BY <2>1 DEF TypeOK
    <3>2. Known' = Memory /\ Loaded(file)' = Memory
      BY <2>1, <2>2, <3>1, MemoryLoaded DEF Known, Memory, Loaded
    <3> QED
      BY <3>2 DEF SafeCrash, Below, PInv, Loaded
  <2> QED
    BY <2>1, <2>2, <2>3 DEF SInv, Persisting, TypeOK
<1>11. CASE Boot
  <2>1. UNCHANGED <<file, snap, answered>> /\ pc[Main] = "boot"
        /\ pc' = [pc EXCEPT ![Main] = "jobs"]
        /\ \A u \in Threads : u # Main => pc[u] = "idle"
    BY <1>11 DEF Boot, Goto, SInv
  <2>2. Known' = Known
    BY <1>11, <2>1, LoadedType DEF Boot, Known, TypeOK, Snapshots
  <2>3. SafeCrash'
    BY <2>1, <2>2 DEF SInv, SafeCrash, StandsIn, Below, Loaded, TypeOK
  <2> QED
    BY <2>1, <2>3 DEF SInv, Persisting, TypeOK
<1>12. CASE Crash
  <2>1. SafeCrash
    BY <1>12 DEF Crash, SInv
  <2>2. Known' = Loaded(file) /\ Loaded(file)' = Loaded(file) /\ answered' = answered
    BY <1>12 DEF Crash, Known, Loaded
  <2>3. SafeCrash'
    BY <2>1, <2>2 DEF SafeCrash, StandsIn, Below
  <2> QED
    BY <1>12, <2>3 DEF Crash, SInv, Persisting
<1> QED
  BY <1>1, <1>2, <1>3, <1>4, <1>5, <1>6, <1>7, <1>8, <1>9, <1>10, <1>11, <1>12 DEF Next

Serial == (\A g, h \in Handlers : g = h) /\ Faults \subseteq {"crash"}

LEMMA SerialInvariant ==
    ASSUME Serial
    PROVE  Spec => [](PInv /\ SInv)
<1>1. Init => SInv
  <2> SUFFICES ASSUME Init PROVE SInv
    OBVIOUS
  <2>1. SafeCrash
    <3>1. Known = NewSnapshot /\ Loaded(file) = NewSnapshot
      BY DEF Init, Known, Loaded, Threads
    <3> QED
      BY <3>1 DEF Init, SafeCrash, Below, NewSnapshot, NewJob, NewLedger
  <2> QED
    BY <2>1, FileAssumption, ThreadsAssumption DEF Init, SInv, Threads
<1>2. TInv /\ TInv' /\ PInv /\ SInv /\ [Next]_vars => PInv' /\ SInv'
  <2> SUFFICES ASSUME TInv, TInv', PInv, SInv, [Next]_vars PROVE PInv' /\ SInv'
    OBVIOUS
  <2>1. PInv'
    <3>1. CASE Crash
      <4>1. SafeCrash
        BY <3>1 DEF Crash, SInv, Serial
      <4> QED
        BY <3>1, <4>1, CrashStep
    <3> QED
      BY <3>1, PromiseStep, PromiseStutter
  <2> QED
    BY <2>1, SerialStep DEF Serial
<1> QED
  BY <1>1, <1>2, PromiseInit, TypeInvariant, PTL DEF Spec

\* With one handler at a time, and a disk that neither fails nor tears a write,
\* a crash at any other moment and any number of restarts keep the promise too:
\* what was answered 200 is in the file before it is answered.
THEOREM PromiseSurvives ==
    ASSUME Serial
    PROVE  Spec => KeepsPromise
<1>1. TInv /\ PInv /\ SInv /\ [Next]_vars => [Promise!Next]_<<Held, answered>>
  <2> SUFFICES ASSUME TInv, PInv, SInv, [Next]_vars
               PROVE  [Promise!Next]_<<Held, answered>>
    OBVIOUS
  <2>1. CASE Crash
    <3>1. SafeCrash
      BY <2>1 DEF Crash, SInv, Serial
    <3> QED
      BY <2>1, <3>1, CrashStep
  <2> QED
    BY <2>1, PromiseStep, PromiseStutter
<1> QED
  BY <1>1, PromiseInit, SerialInvariant, TypeInvariant, PTL
  DEF Spec, KeepsPromise, Promise!Spec

\* Then a provider that is not busy has in its file what it has in memory: a restart
\* that finds it so changes nothing.
THEOREM QuietHolds ==
    ASSUME Serial
    PROVE  Spec => []QuietFileCurrent
<1>1. SInv => QuietFileCurrent
  BY DEF SInv, QuietFileCurrent, Memory, Persisting
<1> QED
  BY <1>1, SerialInvariant, PTL

-----------------------------------------------------------------------------
(* What follows for those who are answered, in either case.                 *)

Safe == "crash" \notin Faults \/ Serial

LEMMA PromiseInvariant ==
    ASSUME Safe
    PROVE  Spec => []PInv
<1>1. CASE Serial
  BY <1>1, SerialInvariant, PTL
<1>2. CASE "crash" \notin Faults
  <2>1. TInv /\ PInv /\ [Next]_vars => PInv'
    BY <1>2, PromiseStep, PromiseStutter DEF Crash
  <2> QED
    BY <2>1, PromiseInit, TypeInvariant, PTL DEF Spec
<1> QED
  BY <1>1, <1>2 DEF Safe

\* A provider that serves knows every payment that it has ever answered 200: with any
\* number of handlers until it crashes, with one handler across restarts, too.
THEOREM AnswersHold ==
    ASSUME Safe
    PROVE  Spec => []AnswersKept
<1>1. TInv /\ PInv => AnswersKept
  BY DEF PInv, AnswersKept, StandsIn, Known, Serving
<1> QED
  BY <1>1, PromiseInvariant, TypeInvariant, PTL

\* No two payloads of a pair are answered 200 (docs/acceptance.md:432-434).
THEOREM PairOnce ==
    ASSUME Safe
    PROVE  Spec => []OnePayloadPerPair
<1>1. PInv => OnePayloadPerPair
  BY DEF PInv, StandsIn, OnePayloadPerPair
<1> QED
  BY <1>1, PromiseInvariant, PTL

\* No two payments of a window are answered 200 (docs/state-machine.md:30).
THEOREM KeyOnce ==
    ASSUME Safe
    PROVE  Spec => []OnePaymentPerKey
<1>1. PInv => OnePaymentPerKey
  BY DEF PInv, StandsIn, OnePaymentPerKey
<1> QED
  BY <1>1, PromiseInvariant, PTL
=============================================================================
