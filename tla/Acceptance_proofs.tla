-------------------------- MODULE Acceptance_proofs -------------------------
(***************************************************************************)
(* Proofs about Acceptance, for any requests and keys.                     *)
(***************************************************************************)
EXTENDS Acceptance, TLAPS

LEMMA ThreadsApart ==
    /\ Loop \in Threads /\ Op \in Threads /\ Loop \in Acceptors /\ Requests \subseteq Threads
    /\ Loop \notin Requests /\ Op \notin Acceptors /\ None \notin Requests
    /\ Acceptors \subseteq Threads
BY RequestsAssumption DEF Threads, Acceptors

LEMMA MovesType ==
    ASSUME pc \in [Threads -> Places], NEW t, NEW p \in Places, Goto(t, p)
    PROVE  pc' \in [Threads -> Places]
BY DEF Goto

LEMMA BecomesType ==
    ASSUME status \in [Requests -> AttemptStates], NEW t, NEW s \in AttemptStates,
           Becomes(t, s)
    PROVE  status' \in [Requests -> AttemptStates]
BY DEF Becomes

LEMMA DisturbType ==
    ASSUME disturbed \subseteq Disturbances, NEW what \in Disturbances, Disturb(what)
    PROVE  disturbed' \subseteq Disturbances
BY DEF Disturb

LEMMA ReleasingType ==
    ASSUME pc \in [Threads -> Places], next \in [Threads -> Places], NEW t,
           NEW p \in Places, Releasing(t, p)
    PROVE  pc' \in [Threads -> Places] /\ next' \in [Threads -> Places]
BY DEF Releasing, Goto, Places

Calls == {"lock", "mark_settling", "mark_settled", "release"}

LEMMA PostType ==
    ASSUME order \in OrderStates, disturbed \subseteq Disturbances, NEW call \in Calls,
           Posted(call) \/ PostFailed(call)
    PROVE  order' \in OrderStates /\ disturbed' \subseteq Disturbances
<1>1. Order(call, order) \in OrderStates
  BY DEF Order, OrderStates, Calls
<1>2. "provider_down" \in Disturbances /\ "reply_lost" \in Disturbances
  BY DEF Disturbances, FaultKinds
<1> QED
  BY <1>1, <1>2, DisturbType DEF Posted, PostFailed

LEMMA NewSnapshotType == NewSnapshot \in Snapshots
BY DEF NewSnapshot, Snapshots, AttemptStates, Bindings

LEMMA TypeInvariant == Spec => []TypeOK
<1>1. Init => TypeOK
  <2> SUFFICES ASSUME Init PROVE TypeOK
    OBVIOUS
  <2>1. /\ status \in [Requests -> AttemptStates] /\ ledger \in [Keys -> Requests \cup {None}]
        /\ saved \in [order : OrderStates, double : BOOLEAN]
    BY DEF Init, NewSnapshot, AttemptStates, OrderStates
  <2>2. snap \in [Threads -> Snapshots] /\ file \in Snapshots
    BY NewSnapshotType DEF Init
  <2>3. /\ pc \in [Threads -> Places] /\ next \in [Threads -> Places]
        /\ buyOpen \in [Acceptors -> BOOLEAN] /\ sellOpen \in [Acceptors -> BOOLEAN]
    BY DEF Init, Places
  <2>4. /\ binding \in Bindings /\ mode \in Modes /\ hold \in 0..MaxHold
        /\ order \in OrderStates /\ disturbed \subseteq Disturbances
    BY InstanceAssumption DEF Init, Bindings, Modes, OrderStates
  <2> QED
    BY <2>1, <2>2, <2>3, <2>4 DEF Init, TypeOK
<1>2. TypeOK /\ [Next]_vars => TypeOK'
  <2> SUFFICES ASSUME TypeOK, [Next]_vars PROVE TypeOK'
    OBVIOUS
  <2> USE ThreadsApart, InstanceAssumption
      DEF acceptVars, matchVars, lockVars, modeVars, loopVars, fileVars, sellVars
  <2>1. ASSUME NEW t \in Acceptors, Accept(t) \/ AcceptAsks(t) PROVE TypeOK'
    <3>1. t \in Threads
      OBVIOUS
    <3>2. ASSUME AcceptBegin(t) PROVE TypeOK'
      <4>1. status' \in [Requests -> AttemptStates]
        BY <3>2, BecomesType DEF AcceptBegin, TypeOK, AttemptStates
      <4>2. pc' \in [Threads -> Places]
        BY <3>2, MovesType DEF AcceptBegin, TypeOK, Places
      <4>3. buyOpen' \in [Acceptors -> BOOLEAN]
        BY <3>2 DEF AcceptBegin, TypeOK, BuyOrderOpen
      <4> QED
        BY <3>2, <4>1, <4>2, <4>3 DEF AcceptBegin, TypeOK
    <3>3. CASE AcceptAnswered(t)
      <4>1. status' \in [Requests -> AttemptStates]
        BY <3>3, BecomesType DEF AcceptAnswered, TypeOK, AttemptStates
      <4>2. pc' \in [Threads -> Places]
        BY <3>3, MovesType DEF AcceptAnswered, TypeOK, Places, After
      <4>3. buyOpen' \in [Acceptors -> BOOLEAN] /\ sellOpen' \in [Acceptors -> BOOLEAN]
        BY <3>3 DEF AcceptAnswered, TypeOK, SellOrderOpen
      <4>4. disturbed' \subseteq Disturbances
        BY <3>3, DisturbType DEF AcceptAnswered, TypeOK, Disturbances, FaultKinds
      <4> QED
        BY <3>3, <4>1, <4>2, <4>3, <4>4 DEF AcceptAnswered, TypeOK
    <3>4. CASE AcceptCheck(t)
      <4>1. pc' \in [Threads -> Places]
        BY <3>4, MovesType DEF AcceptCheck, TypeOK, Places, After
      <4> QED
        BY <3>4, <4>1 DEF AcceptCheck, TypeOK
    <3>5. CASE AcceptMatch(t)
      <4>1. status' \in [Requests -> AttemptStates]
        BY <3>5, BecomesType DEF AcceptMatch, TypeOK, AttemptStates
      <4>2. pc' \in [Threads -> Places]
        BY <3>5, MovesType DEF AcceptMatch, TypeOK, Places, After
      <4> QED
        BY <3>5, <4>1, <4>2 DEF AcceptMatch, TypeOK
    <3>6. CASE AcceptBuy(t) \/ AcceptSell(t)
      <4>1. pc' \in [Threads -> Places]
        BY <3>6, MovesType DEF AcceptBuy, AcceptSell, TypeOK, Places, After
      <4> QED
        BY <3>6, <4>1 DEF AcceptBuy, AcceptSell, TypeOK
    <3>7. CASE AcceptBind(t) \/ AcceptStore(t)
      <4>1. pc' \in [Threads -> Places]
        BY <3>7, MovesType DEF AcceptBind, AcceptStore, TypeOK, Places
      <4> QED
        BY <3>7, <4>1 DEF AcceptBind, AcceptStore, TypeOK, Bindings
    <3>8. CASE AcceptLock(t)
      <4>1. status' \in [Requests -> AttemptStates]
        BY <3>8, BecomesType DEF AcceptLock, TypeOK, AttemptStates
      <4>2. pc' \in [Threads -> Places]
        BY <3>8, MovesType DEF AcceptLock, TypeOK, Places
      <4>3. order' \in OrderStates /\ disturbed' \subseteq Disturbances
        BY <3>8, PostType DEF AcceptLock, TypeOK, Calls
      <4> QED
        BY <3>8, <4>1, <4>2, <4>3 DEF AcceptLock, TypeOK
    <3>9. CASE AcceptUndo(t)
      <4>1. pc' \in [Threads -> Places]
        BY <3>9, MovesType DEF AcceptUndo, TypeOK, Places, After
      <4> QED
        BY <3>9, <4>1 DEF AcceptUndo, TypeOK, Bindings
    <3>10. CASE AcceptCommit(t)
      <4>1. status' \in [Requests -> AttemptStates]
        BY <3>10, BecomesType DEF AcceptCommit, TypeOK, AttemptStates
      <4>2. pc' \in [Threads -> Places]
        BY <3>10, MovesType DEF AcceptCommit, TypeOK, Places
      <4> QED
        BY <3>10, <4>1, <4>2 DEF AcceptCommit, TypeOK
    <3>11. CASE AcceptEnter(t)
      <4>1. ledger' \in [Keys -> Requests \cup {None}]
        BY <3>11 DEF AcceptEnter, TypeOK
      <4>2. pc' \in [Threads -> Places]
        BY <3>11, MovesType DEF AcceptEnter, TypeOK, Places
      <4> QED
        BY <3>11, <4>1, <4>2 DEF AcceptEnter, TypeOK
    <3>12. AcceptAsks(t) => AcceptBegin(t)
      BY DEF AcceptAsks
    <3> QED
      BY <2>1, <3>2, <3>3, <3>4, <3>5, <3>6, <3>7, <3>8, <3>9, <3>10, <3>11, <3>12
         DEF Accept
  <2>2. ASSUME NEW t \in Threads, Persist(t) \/ Write(t) PROVE TypeOK'
    <3>1. pc' \in [Threads -> Places]
      BY <2>2, MovesType DEF Persist, Write, TypeOK, Places
    <3>2. snap' \in [Threads -> Snapshots] /\ file' \in Snapshots
      <4>1. [status |-> status, ledger |-> ledger, binding |-> binding, offline |-> offline]
            \in Snapshots
        BY DEF TypeOK, Snapshots
      <4> QED
        BY <2>2, <4>1, NewSnapshotType DEF Persist, Write, TypeOK
    <3> QED
      BY <2>2, <3>1, <3>2 DEF Persist, Write, TypeOK
  <2>3. ASSUME NEW t \in Threads, Release(t) PROVE TypeOK'
    <3>1. pc' \in [Threads -> Places] /\ next' \in [Threads -> Places]
      BY <2>3, MovesType DEF Release, UnlockBuy, UnlockSell, Reopen, Unbind, Mark, TypeOK,
                             Places
    <3>2. order' \in OrderStates /\ disturbed' \subseteq Disturbances
      BY <2>3, PostType DEF Release, UnlockBuy, UnlockSell, Reopen, Unbind, Mark, TypeOK,
                            Calls
    <3>3. binding' \in Bindings
      BY <2>3 DEF Release, UnlockBuy, UnlockSell, Reopen, Unbind, Mark, TypeOK, Bindings
    <3> QED
      BY <2>3, <3>1, <3>2, <3>3 DEF Release, UnlockBuy, UnlockSell, Reopen, Unbind, Mark,
                                    TypeOK
  <2>4. ASSUME NEW t \in Threads, ReapLocks(t) \/ Reaped(t) PROVE TypeOK'
    <3>1. pc' \in [Threads -> Places] /\ next' \in [Threads -> Places]
      BY <2>4, MovesType, ReleasingType DEF ReapLocks, Reaped, TypeOK, Places
    <3> QED
      BY <2>4, <3>1 DEF ReapLocks, Reaped, TypeOK
  <2>5. CASE LoopNext
    <3>1. CASE LoopTick
      <4>1. pc' \in [Threads -> Places] /\ next' \in [Threads -> Places]
        BY <3>1, MovesType, ReleasingType DEF LoopTick, Reaping, TypeOK, Places
      <4> QED
        BY <3>1, <4>1 DEF LoopTick, TypeOK
    <3>2. CASE LoopPolled
      <4>1. pc' \in [Threads -> Places] /\ next' \in [Threads -> Places]
        BY <3>2, MovesType, ReleasingType DEF LoopPolled, TypeOK, Places
      <4>2. stopped' \in BOOLEAN /\ disturbed' \subseteq Disturbances
        BY <3>2, DisturbType DEF LoopPolled, TypeOK, Disturbances, FaultKinds
      <4> QED
        BY <3>2, <4>1, <4>2 DEF LoopPolled, TypeOK
    <3>3. CASE LoopLost \/ LoopMerges
      <4>1. pc' \in [Threads -> Places]
        BY <3>3, MovesType DEF LoopLost, LoopMerges, TypeOK, Places
      <4> QED
        BY <3>3, <4>1 DEF LoopLost, LoopMerges, TypeOK
    <3>4. CASE LoopDrains
      <4>1. pc' \in [Threads -> Places]
        BY <3>4, MovesType DEF LoopDrains, SettlementFails, TypeOK, Places
      <4>2. order' \in OrderStates /\ disturbed' \subseteq Disturbances
        <5>1. Order("release", order) \in OrderStates
          BY DEF TypeOK, Order, OrderStates
        <5>2. "provider_down" \in Disturbances
          BY DEF Disturbances, FaultKinds
        <5> QED
          BY <3>4, <5>1, <5>2, PostType, DisturbType DEF LoopDrains, GivenBack, TypeOK, Calls
      <4>3. binding' \in Bindings /\ bound' \in BOOLEAN /\ buyLock' \in BOOLEAN
            /\ sellLock' \in BOOLEAN /\ poisoned' \in BOOLEAN
        BY <3>4 DEF LoopDrains, SettlementFails, TypeOK, Bindings
      <4> QED
        BY <3>4, <4>1, <4>2, <4>3 DEF LoopDrains, TypeOK
    <3>5. CASE LoopSettles
      <4>1. pc' \in [Threads -> Places]
        BY <3>5, MovesType DEF LoopSettles, SettlementFails, TypeOK, Places
      <4>2. order' \in OrderStates /\ disturbed' \subseteq Disturbances
        BY <3>5, PostType DEF LoopSettles, GivenBack, TypeOK, Calls
      <4>3. binding' \in Bindings /\ bound' \in BOOLEAN /\ buyLock' \in BOOLEAN
            /\ sellLock' \in BOOLEAN
        BY <3>5 DEF LoopSettles, SettlementFails, TypeOK, Bindings
      <4> QED
        BY <3>5, <4>1, <4>2, <4>3 DEF LoopSettles, TypeOK
    <3>6. CASE LoopAuto
      <4>1. pc' \in [Threads -> Places]
        BY <3>6, MovesType DEF LoopAuto, TypeOK, Places
      <4>2. buyOpen' \in [Acceptors -> BOOLEAN]
        BY <3>6 DEF LoopAuto, TypeOK, BuyOrderOpen
      <4> QED
        BY <3>6, <4>1, <4>2 DEF LoopAuto, TypeOK
    <3>7. CASE LoopLooked
      <4>1. pc' \in [Threads -> Places]
        BY <3>7, MovesType DEF LoopLooked, AcceptBegin, TypeOK, Places
      <4>2. buyOpen' \in [Acceptors -> BOOLEAN]
        BY <3>7 DEF LoopLooked, AcceptBegin, TypeOK, BuyOrderOpen
      <4>3. disturbed' \subseteq Disturbances
        BY <3>7, DisturbType DEF LoopLooked, AcceptBegin, TypeOK, Disturbances, FaultKinds
      <4>4. status' = status
        BY <3>7 DEF LoopLooked, AcceptBegin, Becomes
      <4> QED
        BY <3>7, <4>1, <4>2, <4>3, <4>4 DEF LoopLooked, AcceptBegin, TypeOK
    <3> QED
      BY <2>1, <2>2, <2>3, <2>4, <2>5, <3>1, <3>2, <3>3, <3>4, <3>5, <3>6, <3>7 DEF LoopNext
  <2>6. ASSUME NEW q \in Requests, RequestNext(q) PROVE TypeOK'
    BY <2>1, <2>2, <2>6 DEF RequestNext, Acceptors
  <2>7. CASE OpBegins
    <3>1. pc' \in [Threads -> Places] /\ next' \in [Threads -> Places]
      BY <2>7, MovesType, ReleasingType DEF OpBegins, OpCancel, OpRetry, OpReap, OpMode,
                                            Reaping, TypeOK, Places
    <3> QED
      BY <2>7, <3>1 DEF OpBegins, OpCancel, OpRetry, OpReap, OpMode, TypeOK
  <2>8. CASE OpGoesOn
    <3>1. CASE OpFollows
      <4>1. pc' \in [Threads -> Places]
        BY <3>1, MovesType DEF OpFollows, TypeOK, Places
      <4>2. status' \in [Requests -> AttemptStates]
        BY <3>1 DEF OpFollows, TypeOK, AttemptStates
      <4> QED
        BY <3>1, <4>1, <4>2 DEF OpFollows, TypeOK, Bindings
    <3>2. CASE Hold("hold_short", MaxHold - 1) \/ Hold("hold_long", MaxHold)
      <4>1. pc' \in [Threads -> Places]
        BY <3>2, MovesType DEF Hold, TypeOK, Places
      <4>2. hold' \in 0..MaxHold
        BY <3>2 DEF Hold, TypeOK
      <4> QED
        BY <3>2, <4>1, <4>2 DEF Hold, TypeOK
    <3> QED
      BY <2>2, <2>3, <2>4, <2>8, <3>1, <3>2 DEF OpGoesOn
  <2>9. CASE Environment
    <3>1. CASE ProviderSaves
      BY <3>1 DEF ProviderSaves, agentVars, TypeOK
    <3>2. CASE OrderRequest("open") \/ OrderRequest("closed")
      <4>1. order' \in OrderStates /\ disturbed' \subseteq Disturbances
        BY <3>2, DisturbType DEF OrderRequest, TypeOK, OrderStates, Disturbances
      <4> QED
        BY <3>2, <4>1 DEF OrderRequest, agentVars, TypeOK
    <3>3. CASE ConfirmSuggested \/ ProviderRestart
      <4>1. disturbed' \subseteq Disturbances
        BY <3>3, DisturbType DEF ConfirmSuggested, ProviderRestart, TypeOK, Disturbances,
                                 FaultKinds
      <4> QED
        BY <3>3, <4>1 DEF ConfirmSuggested, ProviderRestart, agentVars, TypeOK
    <3>4. CASE Crash
      <4>1. disturbed' \subseteq Disturbances
        BY <3>4, DisturbType DEF Crash, TypeOK, Disturbances, FaultKinds
      <4>2. /\ status' \in [Requests -> AttemptStates] /\ binding' \in Bindings
            /\ ledger' \in [Keys -> Requests \cup {None}] /\ offline' \in BOOLEAN
        BY <3>4 DEF Crash, TypeOK, Snapshots
      <4>3. /\ pc' \in [Threads -> Places] /\ next' \in [Threads -> Places]
            /\ buyOpen' \in [Acceptors -> BOOLEAN] /\ sellOpen' \in [Acceptors -> BOOLEAN]
        BY <3>4 DEF Crash, Places
      <4>4. snap' \in [Threads -> Snapshots] /\ file' \in Snapshots
        BY <3>4, NewSnapshotType DEF Crash, TypeOK
      <4>5. /\ bound' \in BOOLEAN /\ buyLock' \in BOOLEAN /\ sellLock' \in BOOLEAN
            /\ stopped' \in BOOLEAN /\ poisoned' \in BOOLEAN
        BY <3>4 DEF Crash
      <4>7. mode' \in Modes /\ hold' \in 0..MaxHold
        BY <3>4 DEF Crash, Modes
      <4>6. /\ order' \in OrderStates /\ double' \in BOOLEAN
            /\ saved' \in [order : OrderStates, double : BOOLEAN]
        BY <3>4 DEF Crash, TypeOK
      <4> QED
        BY <4>1, <4>2, <4>3, <4>4, <4>5, <4>6, <4>7 DEF TypeOK
    <3> QED
      BY <2>9, <3>1, <3>2, <3>3, <3>4 DEF Environment
  <2>10. CASE UNCHANGED vars
    BY <2>10 DEF vars, TypeOK
  <2> QED
    BY <2>5, <2>6, <2>7, <2>8, <2>9, <2>10 DEF Next
<1> QED
  BY <1>1, <1>2, PTL DEF Spec

\* Every variable keeps its type, through snapshots, restarts and rollbacks: the pause
\* in particular never leaves its range.
THEOREM AcceptanceTypes == Spec => []TypeOK
BY TypeInvariant
-----------------------------------------------------------------------------
(* The idempotency keys.  A key is entered for its own request, while the   *)
(* request is at "enter"; a request that still may change its status has no *)
(* entry: its key had none when it began.                                   *)

Consistent(l, s) == \A k \in Keys : l[k] # None => s[l[k]] = "committed" /\ KeyOf[l[k]] = k

\* The places from which a request changes the status of its attempt.
Trying == {"asking", "check", "match", "buy", "sell", "bind", "store", "lock", "commit"}

LedgerInv ==
    /\ Consistent(ledger, status)
    /\ \A t \in Threads : Consistent(snap[t].ledger, snap[t].status)
    /\ Consistent(file.ledger, file.status)
    /\ \A q \in Requests : pc[q] = "enter" => status[q] = "committed"
    /\ \A q \in Requests : pc[q] \in Trying => \A k \in Keys : ledger[k] # q

LEMMA Elsewhere ==
    ASSUME pc \in [Threads -> Places], NEW t \in Threads, NEW p, Goto(t, p)
    PROVE  pc'[t] = p /\ \A u \in Threads \ {t} : pc'[u] = pc[u]
BY DEF Goto

\* A step that leaves the attempts alone, and begins none.
LEMMA LedgerKept ==
    ASSUME LedgerInv, UNCHANGED <<ledger, status, snap, file>>,
           \A q \in Requests : /\ pc'[q] = "enter" => pc[q] = "enter"
                               /\ pc'[q] \in Trying => pc[q] \in Trying
    PROVE  LedgerInv'
BY DEF LedgerInv, Consistent

\* A request that has no entry changes its status.
LEMMA LedgerRetried ==
    ASSUME TypeOK, LedgerInv, NEW t \in Acceptors, NEW s, NEW p,
           Becomes(t, s), Goto(t, p), UNCHANGED <<ledger, snap, file>>,
           t \in Requests => \A k \in Keys : ledger[k] # t,
           p = "enter" => s = "committed"
    PROVE  LedgerInv'
<1>1. t \in Threads /\ Loop \notin Requests /\ Requests \subseteq Threads
  BY ThreadsApart
<1>2. pc'[t] = p /\ \A u \in Threads \ {t} : pc'[u] = pc[u]
  BY <1>1, Elsewhere DEF TypeOK
<1>3. \A q \in Requests : q # t => status'[q] = status[q]
  BY DEF Becomes, TypeOK
<1>4. t \in Requests => status'[t] = s
  BY DEF Becomes, TypeOK
<1>5. \A k \in Keys : ledger[k] # None => ledger[k] \in Requests /\ ledger[k] # t
  BY <1>1 DEF TypeOK, Acceptors
<1>6. Consistent(ledger, status)'
  BY <1>3, <1>5 DEF LedgerInv, Consistent
<1>7. \A q \in Requests : pc'[q] = "enter" => status'[q] = "committed"
  BY <1>1, <1>2, <1>3, <1>4 DEF LedgerInv
<1>8. \A q \in Requests : pc'[q] \in Trying => \A k \in Keys : ledger'[k] # q
  BY <1>1, <1>2 DEF LedgerInv
<1> QED
  BY <1>6, <1>7, <1>8 DEF LedgerInv, Consistent

\* A thread goes on to a place where nothing is entered.
LEMMA LedgerPassed ==
    ASSUME TypeOK, LedgerInv, NEW t \in Threads, NEW p, Goto(t, p),
           UNCHANGED <<ledger, status, snap, file>>,
           p \notin Trying \/ pc[t] \in Trying \/ t \notin Requests,
           p # "enter" \/ t \notin Requests
    PROVE  LedgerInv'
<1>1. pc'[t] = p /\ \A u \in Threads \ {t} : pc'[u] = pc[u]
  BY Elsewhere DEF TypeOK
<1> QED
  BY <1>1, LedgerKept, ThreadsApart

LEMMA LedgerInvariant == Spec => []LedgerInv
<1>1. Init => LedgerInv
  <2>1. Consistent(NewSnapshot.ledger, NewSnapshot.status)
    BY DEF NewSnapshot, Consistent
  <2>2. Init => \A t \in Threads : snap[t] = NewSnapshot /\ pc[t] = "idle"
    BY DEF Init
  <2> QED
    BY <2>1, <2>2, ThreadsApart DEF Init, LedgerInv, Trying
<1>2. TypeOK /\ LedgerInv /\ [Next]_vars => LedgerInv'
  <2> SUFFICES ASSUME TypeOK, LedgerInv, [Next]_vars PROVE LedgerInv'
    OBVIOUS
  <2> USE ThreadsApart
      DEF acceptVars, matchVars, lockVars, modeVars, loopVars, fileVars, sellVars
  <2>1. ASSUME NEW t \in Acceptors, AcceptBegin(t), t \in Requests => ~Replayed(t)
        PROVE  LedgerInv'
    <3>1. t \in Requests => \A k \in Keys : ledger[k] # t
      BY <2>1, RequestsAssumption DEF Replayed, Known, LedgerInv, Consistent
    <3> QED
      BY <2>1, <3>1, LedgerRetried DEF AcceptBegin
  <2>2. ASSUME NEW t \in Acceptors, Accept(t) PROVE LedgerInv'
    <3>1. pc[t] \in Trying => (t \in Requests => \A k \in Keys : ledger[k] # t)
      BY DEF LedgerInv
    <3>2. t \in Threads
      OBVIOUS
    <3>3. CASE AcceptAnswered(t)
      <4>1. pc[t] \in Trying
        BY <3>3 DEF AcceptAnswered, At, Trying
      <4>2. CASE UNCHANGED status
        BY <3>3, <3>2, <4>1, <4>2, LedgerPassed DEF AcceptAnswered, After, Trying
      <4>3. CASE Becomes(t, "failed") /\ Goto(t, After(t))
        BY <3>1, <3>3, <4>1, <4>3, LedgerRetried DEF AcceptAnswered, After
      <4> QED
        BY <3>3, <4>2, <4>3 DEF AcceptAnswered
    <3>4. CASE AcceptMatch(t)
      <4>1. pc[t] \in Trying
        BY <3>4 DEF AcceptMatch, At, Trying
      <4> QED
        BY <3>1, <3>4, <4>1, LedgerRetried DEF AcceptMatch, After
    <3>5. CASE AcceptLock(t)
      <4>1. pc[t] \in Trying
        BY <3>5 DEF AcceptLock, At, Trying
      <4>2. CASE Goto(t, "commit") /\ UNCHANGED status
        BY <3>5, <3>2, <4>1, <4>2, LedgerPassed DEF AcceptLock
      <4>3. CASE Becomes(t, "failed") /\ Goto(t, "undo_match")
        BY <3>1, <3>5, <4>1, <4>3, LedgerRetried DEF AcceptLock
      <4> QED
        BY <3>5, <4>2, <4>3 DEF AcceptLock
    <3>6. CASE AcceptCommit(t)
      <4>1. pc[t] \in Trying
        BY <3>6 DEF AcceptCommit, At, Trying
      <4> QED
        BY <3>1, <3>6, <4>1, LedgerRetried DEF AcceptCommit
    <3>7. CASE AcceptEnter(t)
      <4>1. pc'[t] = "persist" /\ \A u \in Threads \ {t} : pc'[u] = pc[u]
        BY <3>2, <3>7, Elsewhere DEF AcceptEnter, TypeOK
      <4>2. t \in Requests => status[t] = "committed"
        BY <3>7 DEF AcceptEnter, At, LedgerInv
      <4>3. \A k \in Keys : \/ ledger'[k] = ledger[k]
                            \/ t \in Requests /\ k = KeyOf[t] /\ ledger'[k] = t
        BY <3>7 DEF AcceptEnter, TypeOK
      <4>4. Consistent(ledger, status)'
        BY <3>7, <4>2, <4>3 DEF AcceptEnter, LedgerInv, Consistent
      <4>5. \A q \in Requests : pc'[q] \in Trying => q # t /\ pc[q] \in Trying
        BY <4>1 DEF Trying
      <4>6. \A q \in Requests : pc'[q] \in Trying => \A k \in Keys : ledger'[k] # q
        BY <4>3, <4>5 DEF LedgerInv
      <4>7. \A q \in Requests : pc'[q] = "enter" => status'[q] = "committed"
        BY <3>7, <4>1 DEF AcceptEnter, LedgerInv
      <4> QED
        BY <3>7, <4>4, <4>6, <4>7 DEF AcceptEnter, LedgerInv, Consistent
    <3>8. CASE AcceptCheck(t) \/ AcceptBuy(t) \/ AcceptSell(t) \/ AcceptBind(t) \/ AcceptStore(t)
      BY <3>2, <3>8, LedgerPassed DEF AcceptCheck, AcceptBuy, AcceptSell, AcceptBind,
         AcceptStore, After, At, Trying
    <3>9. CASE AcceptUndo(t)
      BY <3>2, <3>9, LedgerPassed DEF AcceptUndo, After, Trying
    <3> QED
      BY <2>2, <3>3, <3>4, <3>5, <3>6, <3>7, <3>8, <3>9 DEF Accept
  <2>3. ASSUME NEW t \in Threads, Persist(t) PROVE LedgerInv'
    <3>1. pc'[t] = "write" /\ \A u \in Threads \ {t} : pc'[u] = pc[u]
      BY <2>3, Elsewhere DEF Persist, TypeOK
    <3>2. \A u \in Threads :
             \/ snap'[u] = snap[u]
             \/ snap'[u] = [status |-> status, ledger |-> ledger, binding |-> binding,
                            offline |-> offline]
      BY <2>3 DEF Persist, TypeOK
    <3>3. \A u \in Threads : Consistent(snap'[u].ledger, snap'[u].status)
      BY <3>2 DEF LedgerInv
    <3> QED
      BY <2>3, <3>1, <3>3 DEF Persist, LedgerInv, Consistent, Trying
  <2>4. ASSUME NEW t \in Threads, Write(t) PROVE LedgerInv'
    <3>1. pc'[t] = "idle" /\ \A u \in Threads \ {t} : pc'[u] = pc[u]
      BY <2>4, Elsewhere DEF Write, TypeOK
    <3>2. \A u \in Threads : snap'[u] = snap[u] \/ snap'[u] = NewSnapshot
      BY <2>4 DEF Write, TypeOK
    <3>3. Consistent(NewSnapshot.ledger, NewSnapshot.status)
      BY DEF NewSnapshot, Consistent
    <3>4. \A u \in Threads : Consistent(snap'[u].ledger, snap'[u].status)
      BY <3>2, <3>3 DEF LedgerInv
    <3> QED
      BY <2>4, <3>1, <3>4 DEF Write, LedgerInv, Consistent, Trying
  <2>5. ASSUME NEW t \in Threads, Release(t), t \notin Requests PROVE LedgerInv'
    BY <2>5, LedgerPassed DEF Release, UnlockBuy, UnlockSell, Reopen, Unbind, Mark
  <2>6. ASSUME NEW t \in Threads, ReapLocks(t) \/ Reaped(t), t \notin Requests
        PROVE  LedgerInv'
    BY <2>6, LedgerPassed DEF ReapLocks, Reaped, Releasing
  <2>7. CASE LoopNext
    <3>1. CASE LoopTick \/ LoopPolled \/ LoopLost \/ LoopMerges \/ LoopAuto
      BY <3>1, LedgerPassed DEF LoopTick, Reaping, Releasing, LoopPolled, LoopLost,
         LoopMerges, LoopAuto
    <3>2. CASE LoopDrains
      <4>1. \A q \in Requests : pc'[q] = pc[q]
        BY <3>2, Elsewhere DEF LoopDrains, SettlementFails, TypeOK
      <4> QED
        BY <3>2, <4>1, LedgerKept DEF LoopDrains
    <3>3. CASE LoopSettles
      <4>1. \A q \in Requests : pc'[q] = pc[q]
        BY <3>3, Elsewhere DEF LoopSettles, SettlementFails, TypeOK
      <4> QED
        BY <3>3, <4>1, LedgerKept DEF LoopSettles
    <3>4. CASE LoopLooked
      <4>1. CASE AcceptBegin(Loop)
        BY <4>1, <2>1
      <4>2. CASE Goto(Loop, "persist") /\ UNCHANGED <<ledger, status, snap, file>>
        BY <4>2, LedgerPassed
      <4> QED
        BY <3>4, <4>1, <4>2 DEF LoopLooked
    <3> QED
      BY <2>2, <2>3, <2>4, <2>5, <2>6, <2>7, <3>1, <3>2, <3>3, <3>4 DEF LoopNext
  <2>8. ASSUME NEW q \in Requests, RequestNext(q) PROVE LedgerInv'
    <3>1. AcceptAsks(q) => AcceptBegin(q) /\ ~Replayed(q)
      BY DEF AcceptAsks
    <3> QED
      BY <2>1, <2>2, <2>3, <2>4, <2>8, <3>1 DEF RequestNext, Acceptors
  <2>9. CASE OpBegins
    BY <2>9, LedgerPassed DEF OpBegins, OpCancel, OpRetry, OpReap, OpMode, Reaping,
       Releasing, Acceptors
  <2>10. CASE OpGoesOn
    <3>1. CASE OpFollows
      <4>1. \A q \in Requests : pc'[q] = pc[q]
        BY <3>1, Elsewhere DEF OpFollows, TypeOK, Acceptors
      <4>2. \A q \in Requests : status[q] = "committed" => status'[q] = "committed"
        BY <3>1 DEF OpFollows, TypeOK
      <4>3. \A k \in Keys : ledger[k] # None => ledger[k] \in Requests
        BY DEF TypeOK
      <4> QED
        BY <3>1, <4>1, <4>2, <4>3 DEF OpFollows, LedgerInv, Consistent
    <3>2. CASE Hold("hold_short", MaxHold - 1) \/ Hold("hold_long", MaxHold)
      BY <3>2, LedgerPassed DEF Hold, Acceptors
    <3> QED
      BY <2>3, <2>4, <2>5, <2>6, <2>10, <3>1, <3>2 DEF OpGoesOn, Acceptors
  <2>11. CASE Environment
    <3>1. CASE Crash
      <4>1. \A t \in Threads : pc'[t] = "idle" /\ snap'[t] = NewSnapshot
        BY <3>1 DEF Crash
      <4>2. Consistent(NewSnapshot.ledger, NewSnapshot.status)
        BY DEF NewSnapshot, Consistent
      <4> QED
        BY <3>1, <4>1, <4>2 DEF Crash, LedgerInv, Consistent, Trying
    <3>2. CASE ~Crash
      BY <2>11, <3>2, LedgerKept DEF Environment, ProviderSaves, OrderRequest,
         ConfirmSuggested, ProviderRestart, agentVars
    <3> QED
      BY <3>1, <3>2
  <2>12. CASE UNCHANGED vars
    BY <2>12, LedgerKept DEF vars
  <2> QED
    BY <2>7, <2>8, <2>9, <2>10, <2>11, <2>12 DEF Next
<1> QED
  BY <1>1, <1>2, TypeInvariant, PTL DEF Spec

\* With any number of clients that retry under any keys beside a mode switch, a crash
\* or a lost reply, no key is ever answered for an attempt that is not committed.
THEOREM LedgerHolds == Spec => []LedgerCommitted
<1>1. LedgerInv => LedgerCommitted
  BY DEF LedgerInv, LedgerCommitted, Consistent
<1> QED
  BY <1>1, LedgerInvariant, PTL
-----------------------------------------------------------------------------
(* The match, on one worker thread.  At most one thread is between two      *)
(* awaits; where it is says what of the match is done already.              *)

Held  == binding \in {"accepted", "settled"}
Free  == ~buyLock /\ ~sellLock
Given == order \in {"locked", "settling"}
Calm  == disturbed \subseteq {"task_stopped", "suggest"}

Whole ==
    /\ bound => Held
    /\ (binding = "accepted" /\ "crash" \notin disturbed) => (bound /\ buyLock /\ sellLock)
    /\ (buyLock \/ sellLock) => Held
    /\ buyLock <=> sellLock

\* The buy lock of a settled match is reaped, its sell lock is not.
HalfReaped ==
    /\ bound => Held
    /\ (binding = "accepted" /\ "crash" \notin disturbed) => (bound /\ buyLock /\ sellLock)
    /\ sellLock => Held
    /\ buyLock <=> (sellLock /\ binding = "accepted")

\* The places where the match is not whole, or something more is known.
Halfway == {"buy", "sell", "bind", "store", "undo_match", "undo_buy", "undo_sell",
            "undo_bind", "unlock_sell", "reopen", "unbind", "mark", "remove", "reap_sell",
            "drain", "settle"}

Matched(p) ==
    /\ p \notin Halfway => Whole
    /\ p \in {"match", "buy", "sell", "bind", "store"} => ~Held
    /\ p \in {"buy", "sell", "bind"} => ~bound
    /\ p = "buy" => Free
    /\ p = "sell" => (buyLock /\ ~sellLock)
    /\ p \in {"bind", "store"} => (buyLock /\ sellLock)
    /\ p = "store" => bound
    /\ p \in {"undo_buy", "undo_sell", "undo_bind"} => binding = "none"
    /\ p \in {"undo_sell", "unlock_sell"} => ~buyLock
    /\ p \in {"undo_bind", "reopen", "unbind", "mark", "remove"} => Free
    /\ p \in {"mark", "remove"} => ~bound
    /\ p = "remove" => ~Held
    /\ p = "reap_sell" => HalfReaped
    /\ p \in {"drain", "settle"} => (Whole /\ bound /\ binding = "accepted")

Ordered(p) ==
    /\ p \in {"lock", "undo_match", "unbind", "mark"} => ~Given
    /\ p = "lock" => binding = "accepted"
    /\ p \notin {"lock", "undo_match", "unbind", "mark", "unlock_buy", "unlock_sell", "reopen"}
          => (Given <=> binding = "accepted")

Fits(p) == Matched(p) /\ (Calm => Ordered(p))

Releases == {"unlock_buy", "unlock_sell", "reopen", "unbind", "mark"}
Follows  == {"hold_short", "hold_long", "remove", "attempts", "reap_buy", "reaped", "lost"}

Serial ==
    /\ ~poisoned
    /\ \A t, u \in Threads : t # u => (pc[t] \in Awaits \/ pc[u] \in Awaits)
    /\ \A t \in Threads : pc[t] \in Releases => next[t] \in Follows
    /\ \A t \in Threads : pc[t] \notin Awaits => Fits(pc[t])
    /\ AtRest => Fits("idle")

\* The places where no more is known than at rest.
Quiet == Places \ (Halfway \cup {"match", "lock", "unlock_buy"})

LEMMA QuietFits == \A p \in Quiet : Fits(p) <=> Fits("idle")
BY DEF Quiet, Fits, Matched, Ordered, Halfway, Places

LEMMA AwaitsQuiet == Awaits \subseteq Quiet
BY DEF Awaits, Quiet, Places, Halfway

LEMMA Here ==
    ASSUME Serial, TypeOK, ~Many, NEW t \in Threads, NEW p, At(t, p)
    PROVE  Fits(p) /\ Turn(t) /\ pc[t] = p
<1>1. Turn(t) /\ pc[t] = p
  BY DEF At
<1>2. CASE pc[t] \notin Awaits
  BY <1>1, <1>2 DEF Serial
<1>3. CASE pc[t] \in Awaits
  <2>1. AtRest
    BY <1>1, <1>3 DEF Turn, AtRest
  <2> QED
    BY <1>1, <1>3, <2>1, QuietFits, AwaitsQuiet DEF Serial
<1> QED
  BY <1>1, <1>2, <1>3

\* A thread steps to a place that fits.
LEMMA Stepped ==
    ASSUME Serial, TypeOK, ~Many, NEW t \in Threads, NEW p, Turn(t), Goto(t, p), Fits(p)',
           ~poisoned', \A u \in Threads \ {t} : next'[u] = next[u],
           p \in Releases => next'[t] \in Follows
    PROVE  Serial'
<1>1. pc'[t] = p /\ \A u \in Threads \ {t} : pc'[u] = pc[u]
  BY Elsewhere DEF TypeOK
<1>2. \A u \in Threads \ {t} : pc[u] \in Awaits
  BY DEF Turn
<1>3. AtRest' => Fits("idle")'
  <2>1. AtRest' => p \in Awaits
    BY <1>1 DEF AtRest
  <2>2. \A x \in Quiet : Fits(x)' <=> Fits("idle")'
    BY DEF Quiet, Fits, Matched, Ordered, Halfway, Places
  <2> QED
    BY <2>1, <2>2, AwaitsQuiet
<1>4. \A x, u \in Threads : x # u => (pc'[x] \in Awaits \/ pc'[u] \in Awaits)
  BY <1>1, <1>2
<1>5. (\A x \in Threads : pc[x] \notin Awaits => Fits(pc[x]))'
  <2> SUFFICES ASSUME NEW x \in Threads, pc'[x] \notin Awaits PROVE Fits(pc[x])'
    OBVIOUS
  <2>1. pc'[x] = p
    BY <1>1, <1>2
  <2> QED
    BY <2>1 DEF Fits, Matched, Ordered
<1>6. \A x \in Threads : pc'[x] \in Releases => next'[x] \in Follows
  BY <1>1 DEF Serial
<1> QED
  BY <1>3, <1>4, <1>5, <1>6 DEF Serial

\* A thread steps on without touching the match.
LEMMA Passed ==
    ASSUME Serial, TypeOK, ~Many, NEW t \in Threads, NEW p, NEW b \in Quiet \cup {"match"},
           At(t, b), p \in Quiet \cup {"unlock_buy"}, Goto(t, p),
           UNCHANGED <<matchVars, lockVars, order, poisoned>>, disturbed \subseteq disturbed',
           \A u \in Threads \ {t} : next'[u] = next[u],
           p = "unlock_buy" => next'[t] \in Follows
    PROVE  Serial'
<1>1. Fits(b) /\ Turn(t)
  BY Here
<1>2. Fits("idle")
  BY <1>1 DEF Quiet, Fits, Matched, Ordered, Halfway, Places
<1>3. Fits("idle")'
  BY <1>2 DEF Fits, Matched, Ordered, Halfway, Whole, Held, Given, Calm, matchVars, lockVars
<1>4. Fits(p)'
  BY <1>3 DEF Quiet, Fits, Matched, Ordered, Halfway, Places
<1>5. p \in Releases => p = "unlock_buy"
  BY DEF Quiet, Releases, Halfway
<1> QED
  BY <1>1, <1>4, <1>5, Stepped DEF Serial

LEMMA PostKeeps ==
    ASSUME NEW call, Posted(call) \/ PostFailed(call)
    PROVE  disturbed \subseteq disturbed'
BY DEF Posted, PostFailed, Disturb
\* Every step of a thread keeps the match in its place.
LEMMA AcceptStep ==
    ASSUME Serial, TypeOK, ~Many, NEW t \in Acceptors, Accept(t)
    PROVE  Serial'
<1> USE ThreadsApart
    DEF acceptVars, matchVars, lockVars, modeVars, loopVars, fileVars, sellVars
<1>1. t \in Threads /\ After(t) \in Quiet /\ After(t) # "unlock_buy"
  BY DEF After, Quiet, Places, Halfway
<1>2. CASE AcceptAnswered(t)
  <2>1. "asking" \in Quiet /\ "check" \in Quiet
    BY DEF Quiet, Places, Halfway
  <2>2. At(t, "asking") /\ disturbed \subseteq disturbed' /\ UNCHANGED poisoned
    BY <1>2 DEF AcceptAnswered, Disturb
  <2>3. CASE Goto(t, "check")
    BY <1>1, <1>2, <2>1, <2>2, <2>3, Passed DEF AcceptAnswered
  <2>4. CASE Goto(t, After(t))
    BY <1>1, <1>2, <2>1, <2>2, <2>4, Passed DEF AcceptAnswered
  <2> QED
    BY <1>2, <2>3, <2>4 DEF AcceptAnswered
<1>3. CASE AcceptCheck(t)
  <2>1. Fits("check") /\ Turn(t) /\ pc[t] = "check"
    BY <1>1, <1>3, Here DEF AcceptCheck
  <2>2. CASE Held
    <3>1. "check" \in Quiet
      BY DEF Quiet, Places, Halfway
    <3>2. At(t, "check") /\ Goto(t, After(t))
      BY <1>3, <2>2 DEF AcceptCheck, Held
    <3> QED
      BY <1>1, <1>3, <3>1, <3>2, Passed DEF AcceptCheck
  <2>3. CASE ~Held
    <3>1. Goto(t, "match")
      BY <1>3, <2>3 DEF AcceptCheck, Held
    <3>2. Fits("match")'
      BY <1>3, <2>1, <2>3 DEF AcceptCheck, Fits, Matched, Ordered, Halfway, Held,
         Free, Given, Calm, Whole
    <3> QED
      BY <1>1, <1>3, <2>1, <3>1, <3>2, Stepped DEF AcceptCheck, Releases, Serial
  <2> QED
    BY <2>2, <2>3
<1>4. CASE AcceptMatch(t)
  <2>1. Fits("match") /\ Turn(t) /\ pc[t] = "match"
    BY <1>1, <1>4, Here DEF AcceptMatch
  <2>2. CASE Goto(t, "buy") /\ Free
    <3>1. Fits("buy")'
      BY <1>4, <2>1, <2>2 DEF AcceptMatch, Fits, Matched, Ordered, Halfway, Held,
         Free, Given, Calm, Whole
    <3> QED
      BY <1>1, <1>4, <2>1, <2>2, <3>1, Stepped DEF AcceptMatch, Releases, Serial
  <2>3. CASE Goto(t, After(t))
    <3>1. At(t, "match") /\ disturbed \subseteq disturbed'
      BY <1>4 DEF AcceptMatch
    <3> QED
      BY <1>1, <1>4, <2>3, <3>1, Passed DEF AcceptMatch
  <2> QED
    BY <1>4, <2>2, <2>3 DEF AcceptMatch, Free
<1>5. CASE AcceptBuy(t)
  <2>1. Fits("buy") /\ Turn(t) /\ pc[t] = "buy"
    BY <1>1, <1>5, Here DEF AcceptBuy
  <2>2. Goto(t, "sell")
    BY <1>5, <2>1 DEF AcceptBuy, Fits, Matched, Free
  <2>3. Fits("sell")'
    BY <1>5, <2>1 DEF AcceptBuy, Fits, Matched, Ordered, Halfway, Held,
         Free, Given, Calm, Whole
  <2> QED
    BY <1>1, <1>5, <2>1, <2>2, <2>3, Stepped DEF AcceptBuy, Releases, Serial
<1>6. CASE AcceptSell(t)
  <2>1. Fits("sell") /\ Turn(t) /\ pc[t] = "sell"
    BY <1>1, <1>6, Here DEF AcceptSell
  <2>2. Goto(t, "bind") /\ UNCHANGED buyLock
    BY <1>6, <2>1 DEF AcceptSell, Fits, Matched
  <2>3. Fits("bind")'
    BY <1>6, <2>1, <2>2 DEF AcceptSell, Fits, Matched, Ordered, Halfway, Held,
         Free, Given, Calm, Whole
  <2> QED
    BY <1>1, <1>6, <2>1, <2>2, <2>3, Stepped DEF AcceptSell, Releases, Serial
<1>7. CASE AcceptBind(t)
  <2>1. Fits("bind") /\ Turn(t) /\ pc[t] = "bind"
    BY <1>1, <1>7, Here DEF AcceptBind
  <2>2. Fits("store")'
    BY <1>7, <2>1 DEF AcceptBind, Fits, Matched, Ordered, Halfway, Held,
         Free, Given, Calm, Whole
  <2> QED
    BY <1>1, <1>7, <2>1, <2>2, Stepped DEF AcceptBind, Releases, Serial
<1>8. CASE AcceptStore(t)
  <2>1. Fits("store") /\ Turn(t) /\ pc[t] = "store"
    BY <1>1, <1>8, Here DEF AcceptStore
  <2>2. Fits("lock")'
    BY <1>8, <2>1 DEF AcceptStore, Fits, Matched, Ordered, Halfway, Held,
         Free, Given, Calm, Whole
  <2> QED
    BY <1>1, <1>8, <2>1, <2>2, Stepped DEF AcceptStore, Releases, Serial
<1>9. CASE AcceptLock(t)
  <2>1. Fits("lock") /\ Turn(t) /\ pc[t] = "lock"
    BY <1>1, <1>9, Here DEF AcceptLock
  <2>2. CASE Posted("lock") /\ Goto(t, "commit")
    <3>1. Fits("commit")'
      BY <1>9, <2>1, <2>2 DEF AcceptLock, Posted, Order, Fits, Matched, Ordered, Halfway, Held,
         Free, Given, Calm, Whole
    <3> QED
      BY <1>1, <1>9, <2>1, <2>2, <3>1, Stepped DEF AcceptLock, Releases, Serial
  <2>3. CASE PostFailed("lock") /\ Goto(t, "undo_match")
    <3>1. Calm' => (Calm /\ order' = order)
      <4>1. CASE UNCHANGED <<order, disturbed>>
        BY <4>1 DEF Calm
      <4>2. CASE Disturb("provider_down") \/ Disturb("reply_lost")
        BY <4>2 DEF Disturb, Calm
      <4> QED
        BY <2>3, <4>1, <4>2 DEF PostFailed
    <3>2. Fits("undo_match")'
      BY <1>9, <2>1, <3>1 DEF AcceptLock, Fits, Matched, Ordered, Halfway, Given
    <3> QED
      BY <1>1, <1>9, <2>1, <2>3, <3>2, Stepped DEF AcceptLock, Releases, Serial
  <2> QED
    BY <1>9, <2>2, <2>3 DEF AcceptLock
<1>10. CASE AcceptUndo(t)
  <2>1. CASE At(t, "undo_match") /\ Goto(t, "undo_buy") /\ binding' = "none"
    <3>1. Fits("undo_match") /\ Turn(t)
      BY <1>1, <2>1, Here
    <3>2. Fits("undo_buy")'
      BY <1>10, <2>1, <3>1 DEF AcceptUndo, Fits, Matched, Ordered, Halfway, Held,
         Free, Given, Calm, Whole
    <3> QED
      BY <1>1, <1>10, <2>1, <3>1, <3>2, Stepped DEF AcceptUndo, Releases, Serial
  <2>2. CASE /\ At(t, "undo_buy") /\ Goto(t, "undo_sell") /\ buyLock' = FALSE
             /\ UNCHANGED <<matchVars, sellLock>>
    <3>1. Fits("undo_buy") /\ Turn(t)
      BY <1>1, <2>2, Here
    <3>2. Fits("undo_sell")'
      BY <1>10, <2>2, <3>1 DEF AcceptUndo, Fits, Matched, Ordered, Halfway, Held,
         Free, Given, Calm, Whole
    <3> QED
      BY <1>1, <1>10, <2>2, <3>1, <3>2, Stepped DEF AcceptUndo, Releases, Serial
  <2>3. CASE /\ At(t, "undo_sell") /\ Goto(t, "undo_bind") /\ sellLock' = FALSE
             /\ UNCHANGED <<matchVars, buyLock>>
    <3>1. Fits("undo_sell") /\ Turn(t)
      BY <1>1, <2>3, Here
    <3>2. Fits("undo_bind")'
      BY <1>10, <2>3, <3>1 DEF AcceptUndo, Fits, Matched, Ordered, Halfway, Held,
         Free, Given, Calm, Whole
    <3> QED
      BY <1>1, <1>10, <2>3, <3>1, <3>2, Stepped DEF AcceptUndo, Releases, Serial
  <2>4. CASE /\ At(t, "undo_bind") /\ Goto(t, After(t)) /\ bound' = FALSE
             /\ UNCHANGED <<binding, lockVars>>
    <3>1. Fits("undo_bind") /\ Turn(t)
      BY <1>1, <2>4, Here
    <3>2. Fits("idle")'
      BY <1>10, <2>4, <3>1 DEF AcceptUndo, Fits, Matched, Ordered, Halfway, Held,
         Free, Given, Calm, Whole
    <3>3. Fits(After(t))' /\ After(t) \notin Releases
      BY <3>2 DEF After, Fits, Matched, Ordered, Halfway, Releases
    <3> QED
      BY <1>1, <1>10, <2>4, <3>1, <3>3, Stepped DEF AcceptUndo, Serial
  <2> QED
    BY <1>10, <2>1, <2>2, <2>3, <2>4 DEF AcceptUndo
<1>11. CASE AcceptCommit(t) \/ AcceptEnter(t)
  <2>1. {"commit", "enter", "persist"} \subseteq Quiet
    BY DEF Quiet, Places, Halfway
  <2> QED
    BY <1>1, <1>11, <2>1, Passed DEF AcceptCommit, AcceptEnter
<1> QED
  BY <1>2, <1>3, <1>4, <1>5, <1>6, <1>7, <1>8, <1>9, <1>10, <1>11 DEF Accept

LEMMA ReleaseStep ==
    ASSUME Serial, TypeOK, ~Many, NEW t \in Threads, Release(t)
    PROVE  Serial'
<1> USE DEF acceptVars, matchVars, lockVars, modeVars, loopVars, fileVars, sellVars
<1>1. CASE UnlockBuy(t)
  <2>1. Fits("unlock_buy") /\ Turn(t) /\ pc[t] = "unlock_buy"
    BY <1>1, Here DEF UnlockBuy
  <2>2. Fits("unlock_sell")'
    BY <1>1, <2>1 DEF UnlockBuy, Fits, Matched, Ordered, Halfway, Held,
         Free, Given, Calm, Whole
  <2> QED
    BY <1>1, <2>1, <2>2, Stepped DEF UnlockBuy, Releases, Serial
<1>2. CASE UnlockSell(t)
  <2>1. Fits("unlock_sell") /\ Turn(t) /\ pc[t] = "unlock_sell"
    BY <1>2, Here DEF UnlockSell
  <2>2. Fits("reopen")'
    BY <1>2, <2>1 DEF UnlockSell, Fits, Matched, Ordered, Halfway, Held,
         Free, Given, Calm, Whole
  <2> QED
    BY <1>2, <2>1, <2>2, Stepped DEF UnlockSell, Releases, Serial
<1>3. CASE Reopen(t)
  <2>1. Fits("reopen") /\ Turn(t) /\ pc[t] = "reopen"
    BY <1>3, Here DEF Reopen
  <2>2. Calm' => ~Given'
    BY <1>3 DEF Reopen, Posted, PostFailed, Disturb, Takes, Order, Calm, Given
  <2>3. Fits("unbind")'
    BY <1>3, <2>1, <2>2 DEF Reopen, Fits, Matched, Ordered, Halfway, Free
  <2> QED
    BY <1>3, <2>1, <2>3, Stepped DEF Reopen, Releases, Serial
<1>4. CASE Unbind(t)
  <2>1. Fits("unbind") /\ Turn(t) /\ pc[t] = "unbind"
    BY <1>4, Here DEF Unbind
  <2>2. Fits("mark")'
    BY <1>4, <2>1 DEF Unbind, Fits, Matched, Ordered, Halfway, Held,
         Free, Given, Calm, Whole
  <2> QED
    BY <1>4, <2>1, <2>2, Stepped DEF Unbind, Releases, Serial
<1>5. CASE Mark(t)
  <2>1. Fits("mark") /\ Turn(t) /\ pc[t] = "mark"
    BY <1>5, Here DEF Mark
  <2>2. next[t] \in Follows
    BY <2>1 DEF Serial, Releases
  <2>3. ~Held' /\ ~bound' /\ Free' /\ (Calm' => ~Given')
    BY <1>5, <2>1 DEF Mark, Fits, Matched, Ordered, Held, Free, Given, Calm
  <2>4. binding' # "accepted"
    BY <2>3 DEF Held
  <2>5. \A p \in Follows : Fits(p)'
    BY <2>3, <2>4 DEF Follows, Fits, Matched, Ordered, Halfway, Whole, Free
  <2>6. next[t] \notin Releases
    BY <2>2 DEF Follows, Releases
  <2>7. PICK p \in Follows : p = next[t]
    BY <2>2
  <2>8. Fits(p)'
    BY <2>5
  <2> QED
    BY <1>5, <2>1, <2>6, <2>7, <2>8, Stepped DEF Mark, Serial
<1> QED
  BY <1>1, <1>2, <1>3, <1>4, <1>5 DEF Release
\* The reaper begins, of a task that stopped with the release of its match.
LEMMA ReapingStep ==
    ASSUME Serial, TypeOK, ~Many, NEW t \in Threads, At(t, "idle"), Reaping(t),
           UNCHANGED <<matchVars, lockVars, order, poisoned, disturbed>>
    PROVE  Serial'
<1>1. "idle" \in Quiet /\ "reap_buy" \in Quiet
  BY DEF Quiet, Places, Halfway
<1>2. CASE Releasing(t, "reap_buy")
  <2>1. next'[t] \in Follows /\ \A u \in Threads \ {t} : next'[u] = next[u]
    BY <1>2 DEF Releasing, Follows, TypeOK
  <2> QED
    BY <1>1, <1>2, <2>1, Passed DEF Releasing
<1>3. CASE Goto(t, "reap_buy") /\ UNCHANGED next
  BY <1>1, <1>3, Passed
<1> QED
  BY <1>2, <1>3 DEF Reaping

LEMMA ReapStep ==
    ASSUME Serial, TypeOK, ~Many, NEW t \in Threads, ReapLocks(t) \/ Reaped(t)
    PROVE  Serial'
<1> USE DEF acceptVars, matchVars, lockVars, modeVars, loopVars, fileVars, sellVars
<1>1. CASE At(t, "reap_buy") /\ ReapLocks(t)
  <2>1. Fits("reap_buy") /\ Turn(t) /\ pc[t] = "reap_buy"
    BY <1>1, Here
  <2>2. /\ Goto(t, "reap_sell") /\ buyLock' = (buyLock /\ binding = "accepted")
        /\ UNCHANGED <<sellLock, next>>
    BY <1>1, <2>1 DEF ReapLocks, At
  <2>3. Fits("reap_sell")'
    BY <1>1, <2>1, <2>2 DEF ReapLocks, HalfReaped, Fits, Matched, Ordered, Halfway, Held,
         Free, Given, Calm, Whole
  <2> QED
    BY <1>1, <2>1, <2>2, <2>3, Stepped DEF ReapLocks, Releases, Serial
<1>2. CASE At(t, "reap_sell") /\ ReapLocks(t)
  <2>1. Fits("reap_sell") /\ Turn(t) /\ pc[t] = "reap_sell"
    BY <1>2, Here
  <2>2. /\ sellLock' = (sellLock /\ binding = "accepted") /\ UNCHANGED buyLock
        /\ Releasing(t, "reaped") \/ (Goto(t, "reaped") /\ UNCHANGED next)
    BY <1>2, <2>1 DEF ReapLocks, At
  <2>3. Fits("idle")'
    BY <1>2, <2>1, <2>2 DEF ReapLocks, HalfReaped, Fits, Matched, Ordered, Halfway, Held,
         Free, Given, Calm, Whole
  <2>4. Fits("unlock_buy")' /\ Fits("reaped")'
    BY <2>3 DEF Fits, Matched, Ordered, Halfway
  <2>5. CASE Releasing(t, "reaped")
    <3>1. next'[t] \in Follows /\ \A u \in Threads \ {t} : next'[u] = next[u]
      BY <2>5 DEF Releasing, Follows, TypeOK
    <3> QED
      BY <1>2, <2>1, <2>4, <2>5, <3>1, Stepped DEF ReapLocks, Releasing, Serial
  <2>6. CASE Goto(t, "reaped") /\ UNCHANGED next
    BY <1>2, <2>1, <2>4, <2>6, Stepped DEF ReapLocks, Releases, Serial
  <2> QED
    BY <2>2, <2>5, <2>6
<1>3. CASE Reaped(t)
  <2>1. {"reaped", "poll", "persist"} \subseteq Quiet
    BY DEF Quiet, Places, Halfway
  <2>2. CASE t = Loop
    BY <1>3, <2>1, <2>2, Passed DEF Reaped, Quiet
  <2>3. CASE t # Loop
    BY <1>3, <2>1, <2>3, Passed DEF Reaped, Quiet
  <2> QED
    BY <2>2, <2>3
<1> QED
  BY <1>1, <1>2, <1>3 DEF ReapLocks

LEMMA PersistStep ==
    ASSUME Serial, TypeOK, ~Many, NEW t \in Threads, Persist(t) \/ Write(t)
    PROVE  Serial'
<1>1. {"persist", "write", "idle"} \subseteq Quiet
  BY DEF Quiet, Places, Halfway
<1> QED
  BY <1>1, Passed DEF Persist, Write, acceptVars, matchVars, lockVars, modeVars, loopVars,
     fileVars, sellVars

\* The looking of a merge, its two looks at the match, and its settlement.
LEMMA LoopStep ==
    ASSUME Serial, TypeOK, ~Many, LoopNext
    PROVE  Serial'
<1> USE ThreadsApart
    DEF acceptVars, matchVars, lockVars, modeVars, loopVars, fileVars, sellVars
<1>1. {"idle", "poll", "merge", "auto", "lost", "looking", "persist", "asking"} \subseteq Quiet
  BY DEF Quiet, Places, Halfway
<1>2. CASE LoopTick
  BY <1>2, ReapingStep DEF LoopTick
<1>3. CASE LoopPolled
  <2>1. At(Loop, "poll") /\ disturbed \subseteq disturbed' /\ UNCHANGED <<order, poisoned>>
    BY <1>3 DEF LoopPolled, Disturb
  <2>2. CASE (Goto(Loop, "merge") \/ Goto(Loop, "lost")) /\ UNCHANGED next
    <3>1. PICK p \in {"merge", "lost"} : Goto(Loop, p)
      BY <2>2
    <3> QED
      BY <1>1, <1>3, <2>1, <2>2, <3>1, Passed DEF LoopPolled, Quiet
  <2>3. CASE Releasing(Loop, "lost")
    <3>1. next'[Loop] \in Follows /\ \A u \in Threads \ {Loop} : next'[u] = next[u]
      BY <2>3 DEF Releasing, Follows, TypeOK
    <3> QED
      BY <1>1, <1>3, <2>1, <2>3, <3>1, Passed DEF LoopPolled, Releasing
  <2> QED
    BY <1>3, <2>2, <2>3 DEF LoopPolled
<1>4. CASE LoopLost
  BY <1>1, <1>4, Passed DEF LoopLost, Quiet
<1>5. CASE LoopMerges
  <2>1. CASE Goto(Loop, "auto")
    BY <1>1, <1>5, <2>1, Passed DEF LoopMerges, Quiet
  <2>2. CASE bound /\ binding = "accepted" /\ Goto(Loop, "drain")
    <3>1. Fits("merge") /\ Turn(Loop)
      BY <1>5, Here DEF LoopMerges
    <3>2. Fits("drain")'
      BY <1>5, <2>2, <3>1 DEF LoopMerges, Fits, Matched, Ordered, Halfway, Held,
         Free, Given, Calm, Whole
    <3> QED
      BY <1>5, <2>2, <3>1, <3>2, Stepped DEF LoopMerges, Releases, Serial
  <2> QED
    BY <1>5, <2>1, <2>2 DEF LoopMerges
<1>6. ASSUME SettlementFails, GivenBack \/ ~Calm', NEW p, At(Loop, p), p \in {"drain", "settle"},
             UNCHANGED next, ~poisoned', disturbed \subseteq disturbed'
      PROVE  Serial'
  <2>1. Fits(p) /\ Turn(Loop)
    BY <1>6, Here
  <2>2. binding = "accepted"
    BY <1>6, <2>1 DEF Fits, Matched
  <2>3. Calm' => ~Given'
    BY <1>6, <2>2 DEF GivenBack, Posted, PostFailed, Disturb, Takes, Order, Calm, Given
  <2>4. ~bound' /\ binding' = "released" /\ Free'
    BY <1>6, <2>2 DEF SettlementFails, Free
  <2>5. Fits("auto")'
    BY <2>3, <2>4 DEF Fits, Matched, Ordered, Halfway, Held,
         Free, Given, Calm, Whole
  <2> QED
    BY <1>6, <2>1, <2>5, Stepped DEF SettlementFails, Releases
<1>7. CASE LoopDrains
  <2>1. Fits("drain") /\ Turn(Loop) /\ pc[Loop] = "drain"
    BY <1>7, Here DEF LoopDrains
  <2>2. binding = "accepted" /\ ~poisoned' /\ UNCHANGED next
    BY <1>7, <2>1 DEF LoopDrains, Fits, Matched
  <2>3. CASE /\ Posted("mark_settling") /\ binding' = "accepted" /\ Goto(Loop, "settle")
             /\ UNCHANGED <<bound, lockVars>>
    <3>1. order' = "settling" /\ UNCHANGED disturbed
      BY <2>3 DEF Posted, Order
    <3>2. Fits("settle")'
      BY <2>1, <2>3, <3>1 DEF Fits, Matched, Ordered, Halfway, Held,
         Free, Given, Calm, Whole
    <3> QED
      BY <2>1, <2>2, <2>3, <3>2, Stepped DEF Releases
  <2>4. CASE ~Takes("mark_settling", order) /\ GivenBack /\ SettlementFails
    <3>1. disturbed \subseteq disturbed'
      BY <2>4, PostKeeps DEF GivenBack
    <3> QED
      BY <1>6, <1>7, <2>2, <2>4, <3>1 DEF LoopDrains
  <2>5. CASE Disturb("provider_down") /\ SettlementFails
    <3>1. ~Calm' /\ disturbed \subseteq disturbed'
      BY <2>5 DEF Disturb, Calm
    <3> QED
      BY <1>6, <1>7, <2>2, <2>5, <3>1 DEF LoopDrains
  <2> QED
    BY <1>7, <2>2, <2>3, <2>4, <2>5 DEF LoopDrains
<1>8. CASE LoopSettles
  <2>1. Fits("settle") /\ Turn(Loop) /\ pc[Loop] = "settle"
    BY <1>8, Here DEF LoopSettles
  <2>2. binding = "accepted" /\ ~poisoned' /\ UNCHANGED next
    BY <1>8, <2>1 DEF LoopSettles, Fits, Matched, Serial
  <2>3. CASE /\ Posted("mark_settled") /\ Goto(Loop, "auto") /\ UNCHANGED <<bound, lockVars>>
             /\ binding' = IF binding = "none" THEN "none" ELSE "settled"
    <3>1. order' = "settled" /\ binding' = "settled" /\ UNCHANGED disturbed
      BY <2>2, <2>3 DEF Posted, Order
    <3>2. Fits("auto")'
      BY <2>1, <2>3, <3>1 DEF Fits, Matched, Ordered, Halfway, Held,
         Free, Given, Calm, Whole
    <3> QED
      BY <2>1, <2>2, <2>3, <3>2, Stepped DEF Releases
  <2>4. CASE SettlementFails /\ GivenBack
    <3>1. disturbed \subseteq disturbed'
      BY <2>4, PostKeeps DEF GivenBack
    <3> QED
      BY <1>6, <1>8, <2>2, <2>4, <3>1 DEF LoopSettles
  <2> QED
    BY <1>8, <2>3, <2>4 DEF LoopSettles
<1>9. CASE LoopAuto
  <2>1. At(Loop, "auto") /\ UNCHANGED <<matchVars, lockVars, order, poisoned, disturbed, next>>
    BY <1>9 DEF LoopAuto
  <2>2. PICK p \in {"looking", "persist"} : Goto(Loop, p)
    BY <1>9 DEF LoopAuto
  <2> QED
    BY <1>1, <2>1, <2>2, Passed DEF Quiet
<1>10. CASE LoopLooked
  <2>1. /\ At(Loop, "looking") /\ disturbed \subseteq disturbed'
        /\ UNCHANGED <<matchVars, lockVars, order, poisoned, next>>
    BY <1>10 DEF LoopLooked, AcceptBegin, Disturb
  <2>2. PICK p \in {"asking", "persist"} : Goto(Loop, p)
    BY <1>10 DEF LoopLooked, AcceptBegin
  <2> QED
    BY <1>1, <2>1, <2>2, Passed DEF Quiet
<1> QED
  BY <1>2, <1>3, <1>4, <1>5, <1>7, <1>8, <1>9, <1>10, AcceptStep, ReleaseStep, ReapStep,
     PersistStep DEF LoopNext

LEMMA OperatorStep ==
    ASSUME Serial, TypeOK, ~Many, OpBegins \/ OpGoesOn
    PROVE  Serial'
<1> USE DEF acceptVars, matchVars, lockVars, modeVars, loopVars, fileVars, sellVars
<1>1. Op \in Threads
  BY ThreadsApart
<1>2. {"idle", "attempts", "hold_short", "hold_long", "persist"} \subseteq Quiet
  BY DEF Quiet, Places, Halfway
<1>3. ASSUME At(Op, "idle"), NEW p \in Follows, Releasing(Op, p),
             UNCHANGED <<matchVars, lockVars, order, poisoned, disturbed>>
      PROVE  Serial'
  <2>1. next'[Op] \in Follows /\ \A u \in Threads \ {Op} : next'[u] = next[u]
    BY <1>1, <1>3 DEF Releasing, TypeOK
  <2> QED
    BY <1>1, <1>2, <1>3, <2>1, Passed DEF Releasing
<1>4. CASE OpCancel
  BY <1>3, <1>4 DEF OpCancel, Follows
<1>5. CASE OpRetry
  <2>1. CASE Releasing(Op, "remove")
    BY <1>3, <1>5, <2>1 DEF OpRetry, Follows
  <2>2. CASE Goto(Op, "remove") /\ UNCHANGED next /\ binding = "none"
    <3>1. Fits("idle") /\ Turn(Op)
      BY <1>1, <1>5, Here DEF OpRetry
    <3>2. Fits("remove")'
      BY <1>5, <2>2, <3>1 DEF OpRetry, Fits, Matched, Ordered, Halfway, Held,
         Free, Given, Calm, Whole
    <3> QED
      BY <1>1, <1>5, <2>2, <3>1, <3>2, Stepped DEF OpRetry, Releases, Serial
  <2> QED
    BY <1>5, <2>1, <2>2 DEF OpRetry
<1>6. ASSUME NEW m \in Modes, OpMode(m) PROVE Serial'
  <2>1. /\ At(Op, "idle")
        /\ UNCHANGED <<matchVars, lockVars, order, poisoned, disturbed>>
    BY <1>6 DEF OpMode
  <2>2. CASE Releasing(Op, "attempts")
    BY <1>3, <2>1, <2>2 DEF Follows
  <2>3. CASE (Goto(Op, "persist") \/ Goto(Op, "attempts")) /\ UNCHANGED next
    <3>1. PICK p \in {"persist", "attempts"} : Goto(Op, p)
      BY <2>3
    <3> QED
      BY <1>1, <1>2, <2>1, <2>3, <3>1, Passed DEF Quiet
  <2> QED
    BY <1>6, <2>2, <2>3 DEF OpMode
<1>7. CASE OpReap
  BY <1>1, <1>7, ReapingStep DEF OpReap
<1>8. CASE OpFollows
  <2>1. CASE At(Op, "remove") /\ binding' = "none"
    <3>1. Fits("remove") /\ Turn(Op)
      BY <1>1, <2>1, Here
    <3>2. Fits("hold_short")'
      BY <1>8, <2>1, <3>1 DEF OpFollows, Fits, Matched, Ordered, Halfway, Held,
         Free, Given, Calm, Whole
    <3> QED
      BY <1>1, <1>8, <2>1, <3>1, <3>2, Stepped DEF OpFollows, Releases, Serial
  <2>2. CASE At(Op, "attempts") /\ UNCHANGED binding
    BY <1>1, <1>2, <1>8, <2>2, Passed DEF OpFollows, Quiet
  <2> QED
    BY <1>8, <2>1, <2>2 DEF OpFollows
<1>9. CASE Hold("hold_short", MaxHold - 1) \/ Hold("hold_long", MaxHold)
  <2>1. PICK b \in {"hold_short", "hold_long"} : At(Op, b)
    BY <1>9 DEF Hold
  <2>2. /\ Goto(Op, "persist")
        /\ UNCHANGED <<matchVars, lockVars, order, poisoned, disturbed, next>>
    BY <1>9 DEF Hold
  <2> QED
    BY <1>1, <1>2, <2>1, <2>2, Passed DEF Quiet
<1> QED
  BY <1>1, <1>4, <1>5, <1>6, <1>7, <1>8, <1>9, ReleaseStep, ReapStep, PersistStep
     DEF OpBegins, OpGoesOn

\* What the provider's side does, and a restart of agentd.
LEMMA EnvironmentStep ==
    ASSUME Serial, TypeOK, ~Many, Environment
    PROVE  Serial'
<1> USE DEF acceptVars, matchVars, lockVars, modeVars, loopVars, fileVars, sellVars
<1>1. CASE Crash
  <2>1. \A t \in Threads : pc'[t] = "idle"
    BY <1>1 DEF Crash
  <2>2. "crash" \in disturbed'
    BY <1>1 DEF Crash, Disturb
  <2>3. Fits("idle")'
    BY <1>1, <2>2 DEF Crash, Fits, Matched, Ordered, Halfway, Held,
         Free, Given, Calm, Whole
  <2> QED
    BY <1>1, <2>1, <2>3 DEF Crash, Serial, Awaits, Releases
<1>2. CASE ~Crash
  <2>1. UNCHANGED agentVars /\ disturbed \subseteq disturbed'
    BY <1>2 DEF Environment, ProviderSaves, OrderRequest, ConfirmSuggested, ProviderRestart,
       Disturb
  <2>2. Calm' => (Calm /\ order' = order)
    <3>1. CASE ProviderSaves
      BY <3>1 DEF ProviderSaves, Calm
    <3>2. CASE OrderRequest("open") \/ OrderRequest("closed") \/ ProviderRestart
      <4>1. "order" \in disturbed' \/ "provider_restart" \in disturbed'
        BY <3>2 DEF OrderRequest, ProviderRestart, Disturb
      <4> QED
        BY <4>1 DEF Calm
    <3>3. CASE ConfirmSuggested
      BY <2>1, <3>3 DEF ConfirmSuggested, Calm
    <3> QED
      BY <1>2, <3>1, <3>2, <3>3 DEF Environment
  <2>3. \A p \in Places : Fits(p) => Fits(p)'
    BY <2>1, <2>2 DEF agentVars, Fits, Matched, Ordered, Whole, HalfReaped, Held, Free, Given
  <2>4. \A t \in Threads : pc[t] \in Places /\ pc'[t] = pc[t] /\ next'[t] = next[t]
    BY <2>1 DEF agentVars, TypeOK
  <2>5. (\A t \in Threads : pc[t] \notin Awaits => Fits(pc[t]))'
    <3> SUFFICES ASSUME NEW t \in Threads, pc'[t] \notin Awaits PROVE Fits(pc[t])'
      OBVIOUS
    <3>1. PICK p \in Places : p = pc[t]
      BY <2>4
    <3>2. Fits(p)'
      BY <2>3, <2>4, <3>1 DEF Serial
    <3>3. pc'[t] = p
      BY <2>4, <3>1
    <3> QED
      BY <3>2, <3>3 DEF Fits, Matched, Ordered
  <2>6. AtRest' => Fits("idle")'
    BY <2>3, <2>4 DEF AtRest, Serial, Places
  <2> QED
    BY <2>1, <2>4, <2>5, <2>6 DEF Serial, agentVars
<1> QED
  BY <1>1, <1>2

LEMMA SerialInvariant == ~Many => (Spec => []Serial)
<1> SUFFICES ASSUME ~Many PROVE Spec => []Serial
  OBVIOUS
<1>1. Init => Serial
  BY ThreadsApart DEF Init, Serial, Awaits, Releases, Fits, Matched, Ordered, Halfway, Held,
         Free, Given, Calm, Whole
<1>2. TypeOK /\ Serial /\ [Next]_vars => Serial'
  <2> SUFFICES ASSUME TypeOK, Serial, [Next]_vars PROVE Serial'
    OBVIOUS
  <2>1. ASSUME NEW q \in Requests, RequestNext(q) PROVE Serial'
    <3>1. q \in Threads /\ q \in Acceptors
      BY DEF Threads, Acceptors
    <3>2. CASE AcceptAsks(q)
      <4>1. "idle" \in Quiet /\ "asking" \in Quiet
        BY DEF Quiet, Places, Halfway
      <4> QED
        BY <3>1, <3>2, <4>1, Passed DEF AcceptAsks, AcceptBegin, matchVars, lockVars, loopVars,
           sellVars
    <3> QED
      BY <2>1, <3>1, <3>2, AcceptStep, PersistStep DEF RequestNext
  <2>2. CASE UNCHANGED vars
    <3>1. UNCHANGED <<pc, next, poisoned, bound, binding, buyLock, sellLock, order, disturbed>>
      BY <2>2 DEF vars, matchVars, lockVars, loopVars, sellVars
    <3> QED
      BY <3>1 DEF Serial, AtRest, HalfReaped, Fits, Matched, Ordered, Halfway, Held,
         Free, Given, Calm, Whole
  <2> QED
    BY <2>1, <2>2, LoopStep, OperatorStep, EnvironmentStep DEF Next
<1> QED
  BY <1>1, <1>2, TypeInvariant, PTL DEF Spec

\* On a single worker thread the task's binding, the stored match and the two locks
\* agree whenever every thread waits, for any number of clients and any failures.
THEOREM MatchHolds == Spec => []MatchAgrees
<1>1. CASE ~Many
  <2>1. Serial => MatchAgrees
    BY DEF Serial, MatchAgrees, Fits, Matched, Halfway, Whole, Held
  <2> QED
    BY <1>1, <2>1, SerialInvariant, PTL
<1>2. CASE Many
  <2>1. MatchAgrees
    BY <1>2 DEF MatchAgrees
  <2> QED
    BY <2>1, PTL
<1> QED
  BY <1>1, <1>2

\* And the provider's order is given to nobody but an accepted match, and to it, as
\* long as only tasks stop and suggestions are confirmed.
THEOREM OrderHolds == Spec => []OrderAgrees
<1>1. CASE ~Many
  <2>1. Serial => OrderAgrees
    BY DEF Serial, OrderAgrees, Fits, Ordered, Given, Calm
  <2> QED
    BY <1>1, <2>1, SerialInvariant, PTL
<1>2. CASE Many
  <2>1. OrderAgrees
    BY <1>2 DEF OrderAgrees
  <2> QED
    BY <2>1, PTL
<1> QED
  BY <1>1, <1>2

\* On a single worker thread the merge always finds its match the second time, so that
\* the panic of the finding needs several.
THEOREM MergeFinds == ~Many => (Spec => []MergeFindsMatch)
<1>1. Serial => MergeFindsMatch
  BY DEF Serial, MergeFindsMatch
<1> QED
  BY <1>1, SerialInvariant, PTL
=============================================================================
