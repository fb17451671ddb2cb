--------------------------- MODULE LockOrder_proofs ---------------------------
(***************************************************************************)
(* Circles of waiting threads hold a reversing request, for any number of  *)
(* threads and whatever they serve.  Along a circle without one each wait  *)
(* is for a mutex of a higher level than the one before, and levels end.   *)
(***************************************************************************)
EXTENDS LockOrder, TLAPS

PathSteps ==
  [do : {"lock", "unlock"}, of : Mutexes] \cup [do : {"branch"}, by : SUBSET Nat]

LEMMA PathTypes ==
    ASSUME NEW h \in Handlers
    PROVE  /\ Path[h] \in Seq(PathSteps)
           /\ Len(Path[h]) \in Nat
           /\ DOMAIN Path[h] = 1 .. Len(Path[h])
           /\ h # "none"
<1>1. Path[h] \in Seq(PathSteps) /\ h # "none"
  BY PathsAssumption DEF PathSteps
<1> QED BY <1>1

LEMMA LockedMutexes ==
    ASSUME NEW h \in Handlers, NEW i \in DOMAIN Path[h], Step(h, i).do = "lock"
    PROVE  Step(h, i).of \in Mutexes
<1>1. Path[h][i] \in PathSteps
  BY PathTypes
<1> QED BY <1>1 DEF PathSteps, Step

\* A busy thread is within its path, or at its end.
LEMMA NextKeepsTypes ==
    ASSUME TypeOK, [Next]_vars
    PROVE  TypeOK'
<1>1. ASSUME NEW t \in Threads, NEW h \in Handlers, Begin(t, h) PROVE TypeOK'
  <2>1. 1 \in 1 .. Len(Path[h]) + 1
    BY PathTypes
  <2> QED BY <1>1, <2>1 DEF TypeOK, Begin, Busy
<1>2. ASSUME NEW t \in Threads, Lock(t) PROVE TypeOK'
  <2>1. /\ running[t] \in Handlers
        /\ at[t] + 1 \in 1 .. Len(Path[running[t]]) + 1
    BY <1>2, PathTypes DEF TypeOK, Lock, AtStep, Busy
  <2> QED BY <1>2, <2>1 DEF TypeOK, Lock, AtStep, Busy
<1>3. ASSUME NEW t \in Threads, Unlock(t) PROVE TypeOK'
  <2>1. /\ running[t] \in Handlers
        /\ at[t] + 1 \in 1 .. Len(Path[running[t]]) + 1
    BY <1>3, PathTypes DEF TypeOK, Unlock, AtStep, Busy
  <2> QED BY <1>3, <2>1 DEF TypeOK, Unlock, AtStep, Busy
<1>4. ASSUME NEW t \in Threads, Choose(t) PROVE TypeOK'
  <2>1. PICK n \in Ahead(t).by : at' = [at EXCEPT ![t] = @ + n]
    BY <1>4 DEF Choose
  <2>2. /\ running[t] \in Handlers
        /\ at[t] \in DOMAIN Path[running[t]]
        /\ Step(running[t], at[t]).do = "branch"
    BY <1>4 DEF TypeOK, Choose, AtStep, Busy, Ahead
  <2>3. at[t] + n \in 1 .. Len(Path[running[t]]) + 1
    BY <2>1, <2>2, PathsAssumption DEF Ahead
  <2> QED BY <1>4, <2>1, <2>3, PathTypes, <2>2 DEF TypeOK, Choose, Busy
<1>5. ASSUME NEW t \in Threads, End(t) PROVE TypeOK'
  BY <1>5 DEF TypeOK, End, Busy
<1>6. CASE UNCHANGED vars
  BY <1>6 DEF TypeOK, vars, Busy
<1> QED BY <1>1, <1>2, <1>3, <1>4, <1>5, <1>6 DEF Next, Go

\* Types: every thread is at a step of the path it runs, or at its end, for
\* any threads and whatever they serve.
THEOREM LockOrderTypes == Spec => []TypeOK
<1>1. Init => TypeOK
  BY DEF Init, TypeOK, Busy
<1> QED BY <1>1, NextKeepsTypes, PTL DEF Spec

\* A thread that waits, and serves no reversing request, holds mutexes of lower
\* levels only.
LEMMA HoldsLower ==
    ASSUME TypeOK, NEW t \in Threads, AtStep(t, "lock"), running[t] \notin Reversing,
           NEW mutex \in Holds(t)
    PROVE  Level[mutex] < Level[Ahead(t).of]
<1>1. /\ running[t] \in Handlers \ Reversing
      /\ at[t] \in DOMAIN Path[running[t]]
      /\ Step(running[t], at[t]).do = "lock"
  BY DEF TypeOK, AtStep, Busy, Ahead
<1>2. mutex \in Held[running[t]][at[t]]
  BY DEF Holds, AtStep
<1> QED BY <1>1, <1>2, OrderAssumption DEF Upwards, Ahead

\* Nine levels are not enough for a circle of upward waits.
LEMMA NoCircle ==
    ASSUME TypeOK, NEW S \in SUBSET Threads, Circle(S)
    PROVE  \E t \in S : running[t] \in Reversing
<1> SUFFICES ASSUME \A t \in S : running[t] \notin Reversing PROVE FALSE
  OBVIOUS
<1> DEFINE wants(t) == Level[Ahead(t).of]
<1>1. ASSUME NEW t \in S
      PROVE  wants(t) \in 1 .. 9 /\ \E u \in S : wants(u) > wants(t)
  <2>1. PICK u \in S : WaitsFor(t, u)
    BY DEF Circle
  <2>2. AtStep(t, "lock") /\ AtStep(u, "lock")
    BY <2>1 DEF Circle, WaitsFor
  <2>3. Ahead(t).of \in Holds(u)
    BY <2>1 DEF WaitsFor
  <2>4. Level[Ahead(t).of] < Level[Ahead(u).of]
    BY <2>2, <2>3, HoldsLower
  <2>5. ASSUME NEW v \in S, AtStep(v, "lock") PROVE Ahead(v).of \in Mutexes
    BY <2>5, LockedMutexes DEF TypeOK, AtStep, Busy, Ahead
  <2>6. wants(t) \in 1 .. 9 /\ wants(u) \in 1 .. 9
    BY <2>2, <2>5, LevelAssumption
  <2> QED BY <2>4, <2>6
<1> HIDE DEF wants
<1>2. PICK t1 \in S : wants(t1) >= 1
  BY <1>1 DEF Circle
<1>3. PICK t3 \in S : wants(t3) >= 3
  BY <1>1, <1>2
<1>4. PICK t5 \in S : wants(t5) >= 5
  BY <1>1, <1>3
<1>5. PICK t7 \in S : wants(t7) >= 7
  BY <1>1, <1>4
<1>6. PICK t9 \in S : wants(t9) >= 9
  BY <1>1, <1>5
<1> QED BY <1>1, <1>6

\* Threads that block each other for ever include one that serves a reversing
\* request, for any threads and whatever they serve.
THEOREM CirclesHold == Spec => []CirclesReverse
<1>1. TypeOK => CirclesReverse
  BY NoCircle DEF CirclesReverse
<1> QED BY <1>1, LockOrderTypes, PTL
=============================================================================
