----------------------------- MODULE Feed_proofs -----------------------------
(***************************************************************************)
(* Proofs about Feed.                                                      *)
(***************************************************************************)
EXTENDS Feed, FiniteSetTheorems, TLAPS

-----------------------------------------------------------------------------
(* Sums over finite sets.  MapThenSumSet adds up a set in an order that it  *)
(* chooses; these lemmas say that it adds up all of it, in whatever order.  *)
(* Each is an induction, in the form that a set of counterexamples would    *)
(* have a smallest member.                                                  *)

\* The induction of the library, for a set of numbers.
LEMMA LeastNumber ==
    ASSUME NEW T \in SUBSET Nat, T # {}
    PROVE  \E n \in T : \A m \in T : n <= m
<1> DEFINE Less == OpToRel(<, Nat)
<1>1. IsWellFoundedOn(Less, Nat)
  BY NatLessThanWellFounded
<1>2. \A m, n \in Nat : <<m, n>> \in Less <=> m < n
  BY DEF OpToRel
<1> HIDE DEF Less
<1>3. PICK n \in T : \A m \in T : <<m, n>> \notin Less
  BY <1>1, WFMin
<1>4. \A m \in T : ~(m < n)
  BY <1>2, <1>3
<1>5. \A m \in T : n <= m
  BY <1>4
<1> QED
  BY <1>5

\* MapThenSumSet over a function: the element it takes first, the function that it
\* recurs on (Total of Feed is the sum).
Pick(s) == CHOOSE x \in s : TRUE
OneMore(g, ch, s) == IF s = {} THEN 0 ELSE ch[Pick(s)] + g[s \ {Pick(s)}]
Adds(g, ch, S) == g = [s \in SUBSET S |-> OneMore(g, ch, s)]

\* The same induction, for a set of subsets.
LEMMA SmallestSet ==
    ASSUME NEW S, IsFiniteSet(S), NEW D \in SUBSET (SUBSET S), D # {}
    PROVE  \E s \in D : \A t \in D : Cardinality(s) <= Cardinality(t)
<1> DEFINE T == {Cardinality(s) : s \in D}
<1>1. T \in SUBSET Nat
  BY FS_Subset, FS_CardinalityType
<1>2. T # {}
  OBVIOUS
<1>3. \E n \in T : \A m \in T : n <= m
  <2> HIDE DEF T
  <2> QED
    BY <1>1, <1>2, LeastNumber
<1> QED
  BY <1>3

LEMMA Shrinks ==
    ASSUME NEW S, IsFiniteSet(S), NEW s \in SUBSET S
    PROVE  /\ IsFiniteSet(s) /\ Cardinality(s) \in Nat
           /\ \A x \in s : /\ s \ {x} \in SUBSET S
                           /\ Cardinality(s \ {x}) = Cardinality(s) - 1
BY FS_Subset, FS_CardinalityType, FS_RemoveElement

LEMMA PickIn == ASSUME NEW s, s # {} PROVE Pick(s) \in s
BY DEF Pick

\* The recursion of the fold is well defined: a function that satisfies it up to
\* size n - 1 is extended to size n.
LEMMA FoldExists ==
    ASSUME NEW S, IsFiniteSet(S), NEW ch
    PROVE  \E g : Adds(g, ch, S)
<1> DEFINE upTo(g, n) == \A s \in SUBSET S : Cardinality(s) <= n => g[s] = OneMore(g, ch, s)
           missing == {n \in Nat : ~ \E g : g = [s \in SUBSET S |-> g[s]] /\ upTo(g, n)}
<1>1. missing = {}
  <2> SUFFICES ASSUME missing # {} PROVE FALSE
    OBVIOUS
  <2>1. PICK n \in missing : \A m \in missing : n <= m
    BY LeastNumber
  <2>2. PICK g : /\ g = [s \in SUBSET S |-> g[s]]
                 /\ n > 0 => upTo(g, n - 1)
    <3>1. CASE n = 0
      <4> DEFINE z == [s \in SUBSET S |-> 0]
      <4>1. z = [s \in SUBSET S |-> z[s]]
        OBVIOUS
      <4> HIDE DEF z, upTo
      <4> QED
        BY <3>1, <4>1
    <3>2. CASE n > 0
      <4>1. n - 1 \in Nat /\ n - 1 \notin missing
        <5> n \in Nat
          OBVIOUS
        <5> HIDE DEF missing
        <5> QED
          BY <2>1, <3>2
      <4>2. PICK g : g = [s \in SUBSET S |-> g[s]] /\ upTo(g, n - 1)
        BY <4>1
      <4> HIDE DEF upTo
      <4> QED
        BY <4>2
    <3> QED
      BY <3>1, <3>2
  <2> DEFINE h == [s \in SUBSET S |-> IF Cardinality(s) = n THEN OneMore(g, ch, s) ELSE g[s]]
  <2>3. upTo(h, n)
    <3> SUFFICES ASSUME NEW s \in SUBSET S, Cardinality(s) <= n
                 PROVE  h[s] = OneMore(h, ch, s)
      OBVIOUS
    <3>1. s # {} => h[s \ {Pick(s)}] = g[s \ {Pick(s)}]
      BY PickIn, Shrinks
    <3>2. OneMore(h, ch, s) = OneMore(g, ch, s)
      BY <3>1 DEF OneMore
    <3>3. CASE Cardinality(s) = n
      BY <3>2, <3>3
    <3>4. CASE Cardinality(s) # n
      <4>1. Cardinality(s) <= n - 1 /\ n > 0
        BY <3>4, Shrinks
      <4> QED
        BY <2>2, <3>2, <3>4, <4>1
    <3> QED
      BY <3>3, <3>4
  <2>4. h = [s \in SUBSET S |-> h[s]]
    OBVIOUS
  <2> HIDE DEF h
  <2> QED
    BY <2>1, <2>3, <2>4
<1>2. Cardinality(S) \in Nat
  BY Shrinks
<1>3. PICK g : g = [s \in SUBSET S |-> g[s]] /\ upTo(g, Cardinality(S))
  BY <1>1, <1>2
<1>4. \A s \in SUBSET S : g[s] = OneMore(g, ch, s)
  BY <1>3, FS_Subset
<1> QED
  BY <1>3, <1>4 DEF Adds

\* What the recursion gives for a set does not depend on the set it began with.
LEMMA FoldUnique ==
    ASSUME NEW S, IsFiniteSet(S), NEW T \in SUBSET S, NEW ch, NEW g, NEW h,
           Adds(g, ch, S), Adds(h, ch, T)
    PROVE  \A s \in SUBSET T : g[s] = h[s]
<1> DEFINE D == {s \in SUBSET T : g[s] # h[s]}
<1> SUFFICES ASSUME D # {} PROVE FALSE
  OBVIOUS
<1>1. IsFiniteSet(T)
  BY FS_Subset
<1>2. PICK s \in D : \A t \in D : Cardinality(s) <= Cardinality(t)
  BY <1>1, SmallestSet
<1>3. g[s] = OneMore(g, ch, s) /\ h[s] = OneMore(h, ch, s)
  BY DEF Adds
<1>4. s # {} => g[s \ {Pick(s)}] = h[s \ {Pick(s)}]
  BY <1>1, <1>2, PickIn, Shrinks
<1> QED
  BY <1>3, <1>4 DEF OneMore

LEMMA TotalFold ==
    ASSUME NEW S, IsFiniteSet(S), NEW ch
    PROVE  \E g : Adds(g, ch, S) /\ Total(ch, S) = g[S]
<1>1. Total(ch, S) = (CHOOSE g : g = [s \in SUBSET S |->
          IF s = {} THEN 0 ELSE ch[CHOOSE x \in s : TRUE] + g[s \ {CHOOSE x \in s : TRUE}]])[S]
  BY DEF Total, MapThenSumSet, MapThenFoldSet
<1>2. Total(ch, S) = (CHOOSE g : Adds(g, ch, S))[S]
  BY <1>1 DEF Adds, OneMore, Pick
<1>3. Adds((CHOOSE g : Adds(g, ch, S)), ch, S)
  BY FoldExists
<1> QED
  BY <1>2, <1>3

LEMMA TotalStep ==
    ASSUME NEW S, IsFiniteSet(S), NEW ch
    PROVE  Total(ch, S) = IF S = {} THEN 0 ELSE ch[Pick(S)] + Total(ch, S \ {Pick(S)})
<1>1. PICK g : Adds(g, ch, S) /\ Total(ch, S) = g[S]
  BY TotalFold
<1>2. g[S] = OneMore(g, ch, S)
  BY <1>1 DEF Adds
<1>3. S # {} => Total(ch, S \ {Pick(S)}) = g[S \ {Pick(S)}]
  <2>1. IsFiniteSet(S \ {Pick(S)})
    BY FS_RemoveElement
  <2>2. PICK h : Adds(h, ch, S \ {Pick(S)}) /\ Total(ch, S \ {Pick(S)}) = h[S \ {Pick(S)}]
    BY <2>1, TotalFold
  <2> QED
    BY <1>1, <2>2, FoldUnique
<1> QED
  BY <1>1, <1>2, <1>3 DEF OneMore

LEMMA TotalNat ==
    ASSUME NEW S, IsFiniteSet(S), NEW ch, \A w \in S : ch[w] \in Nat
    PROVE  Total(ch, S) \in Nat
<1> DEFINE D == {s \in SUBSET S : Total(ch, s) \notin Nat}
<1> SUFFICES ASSUME D # {} PROVE FALSE
  BY FS_Subset
<1>1. PICK s \in D : \A t \in D : Cardinality(s) <= Cardinality(t)
  BY SmallestSet
<1>2. s # {} /\ Pick(s) \in s
  <2>1. IsFiniteSet(s)
    BY Shrinks
  <2>2. s = {} => Total(ch, s) = 0
    BY <2>1, TotalStep
  <2> QED
    BY <2>2, PickIn
<1>3. s \ {Pick(s)} \notin D
  BY <1>1, <1>2, Shrinks
<1>4. Total(ch, s) = ch[Pick(s)] + Total(ch, s \ {Pick(s)})
  BY <1>2, Shrinks, TotalStep
<1> QED
  BY <1>2, <1>3, <1>4

\* Which element is taken first does not matter.
LEMMA TotalRemove ==
    ASSUME NEW S, IsFiniteSet(S), NEW ch, \A w \in S : ch[w] \in Nat, NEW x \in S
    PROVE  Total(ch, S) = ch[x] + Total(ch, S \ {x})
<1> DEFINE D == {s \in SUBSET S : \E y \in s : Total(ch, s) # ch[y] + Total(ch, s \ {y})}
<1> SUFFICES ASSUME D # {} PROVE FALSE
  BY FS_Subset
<1>1. PICK s \in D : \A t \in D : Cardinality(s) <= Cardinality(t)
  BY SmallestSet
<1>2. PICK y \in s : Total(ch, s) # ch[y] + Total(ch, s \ {y})
  OBVIOUS
<1> DEFINE x1 == Pick(s)
           r == s \ {x1, y}
<1>3. x1 \in s
  BY PickIn
<1>4. Total(ch, s) = ch[x1] + Total(ch, s \ {x1})
  BY Shrinks, TotalStep
<1>5. x1 # y
  BY <1>2, <1>4
<1>6. s \ {x1} \notin D /\ s \ {y} \notin D
  <2>1. /\ Cardinality(s \ {x1}) = Cardinality(s) - 1
        /\ Cardinality(s \ {y}) = Cardinality(s) - 1
        /\ Cardinality(s) \in Nat
    BY <1>3, Shrinks
  <2> HIDE DEF D, x1
  <2> QED
    BY <1>1, <2>1
<1>7. y \in s \ {x1} /\ x1 \in s \ {y} /\ (s \ {x1}) \ {y} = r /\ (s \ {y}) \ {x1} = r
  BY <1>3, <1>5
<1>8. Total(ch, s \ {x1}) = ch[y] + Total(ch, r)
  BY <1>6, <1>7
<1>9. Total(ch, s \ {y}) = ch[x1] + Total(ch, r)
  BY <1>6, <1>7
<1>10. ch[x1] \in Nat /\ ch[y] \in Nat
  BY <1>3
<1>11. Total(ch, r) \in Nat
  <2>1. IsFiniteSet(r) /\ \A w \in r : ch[w] \in Nat
    BY FS_Subset
  <2> HIDE DEF r
  <2> QED
    BY <2>1, TotalNat
<1> HIDE DEF r, x1
<1> QED
  BY <1>2, <1>4, <1>8, <1>9, <1>10, <1>11

\* The sum depends on the summands only.
LEMMA TotalSame ==
    ASSUME NEW S, IsFiniteSet(S), NEW c, NEW d, \A w \in S : c[w] = d[w]
    PROVE  Total(c, S) = Total(d, S)
<1> DEFINE D == {s \in SUBSET S : Total(c, s) # Total(d, s)}
<1> SUFFICES ASSUME D # {} PROVE FALSE
  BY FS_Subset
<1>1. PICK s \in D : \A t \in D : Cardinality(s) <= Cardinality(t)
  BY SmallestSet
<1>2. s # {} => s \ {Pick(s)} \notin D
  BY <1>1, PickIn, Shrinks
<1>3. IsFiniteSet(s)
  BY Shrinks
<1>4. /\ Total(c, s) = IF s = {} THEN 0 ELSE c[Pick(s)] + Total(c, s \ {Pick(s)})
      /\ Total(d, s) = IF s = {} THEN 0 ELSE d[Pick(s)] + Total(d, s \ {Pick(s)})
  BY <1>3, TotalStep
<1>5. s # {} => c[Pick(s)] = d[Pick(s)] /\ s \ {Pick(s)} \in SUBSET S
  BY PickIn
<1>6. s # {} => Total(c, s \ {Pick(s)}) = Total(d, s \ {Pick(s)})
  BY <1>2, <1>5
<1> QED
  BY <1>4, <1>5, <1>6

\* A part does not cost more than the whole.
LEMMA TotalGrows ==
    ASSUME NEW S, IsFiniteSet(S), NEW ch, \A w \in S : ch[w] \in Nat,
           NEW R \in SUBSET S
    PROVE  Total(ch, R) <= Total(ch, S)
<1> DEFINE D == {s \in SUBSET S : R \subseteq s /\ ~(Total(ch, R) <= Total(ch, s))}
<1> SUFFICES ASSUME D # {} PROVE FALSE
  OBVIOUS
<1>1. PICK s \in D : \A t \in D : Cardinality(s) <= Cardinality(t)
  BY SmallestSet
<1>2. /\ Total(ch, R) \in Nat
      /\ \A t \in SUBSET S : Total(ch, t) \in Nat
  BY FS_Subset, TotalNat
<1>3. PICK x \in s : x \notin R
  <2>1. R # s
    BY <1>2
  <2> QED
    BY <2>1
<1>4. s \ {x} \notin D
  BY <1>1, <1>3, Shrinks
<1>5. Total(ch, s) = ch[x] + Total(ch, s \ {x}) /\ ch[x] \in Nat
  BY Shrinks, TotalRemove
<1>6. s \ {x} \in SUBSET S /\ R \subseteq s \ {x}
  BY <1>3
<1> QED
  BY <1>2, <1>4, <1>5, <1>6

-----------------------------------------------------------------------------
(* Types.                                                                   *)

Receipts == [window : {0} \cup Windows, owed : Amounts, telemetry : {0} \cup Windows]

\* What a task knows at its start.
LEMMA StartTypes ==
    /\ [w \in Windows |-> 0] \in [Windows -> Amounts]
    /\ NewReceipt \in Receipts
    /\ 0 \in Amounts /\ 0 \in 0..(SamplesPerWindow - 1) /\ 0 \in 0..(2 * Sla)
BY MeterAssumption DEF Windows, Amounts, NewReceipt, Receipts

LEMMA StatusType ==
    ASSUME NEW s \in Statuses, NEW all, NEW ticks
    PROVE  Stalled(Budgeted(s, all), ticks) \in Statuses
BY DEF Stalled, Budgeted, Statuses

LEMMA AnswerType ==
    ASSUME TypeOK, pc = "apply"
    PROVE  /\ answer \in Answers
           /\ answer.window \in {0} \cup Windows /\ answer.owed \in Amounts
BY DEF TypeOK, Answers

LEMMA ReceiptType ==
    ASSUME TypeOK, pc = "apply", NEW w \in {0} \cup Windows, NEW o \in Amounts
    PROVE  Receipt(w, o) \in Receipts
BY AnswerType DEF Receipt, Receipts

\* The part of a step that every new window has in common.
LEMMA ChargeTypes ==
    ASSUME TypeOK, Charge
    PROVE  /\ last' = answer.window /\ answer.window \in Windows
           /\ lastOwed' \in Amounts /\ charge' \in [Windows -> Amounts]
           /\ spent' \in Nat /\ idle' = 0 /\ status' \in Statuses
           /\ receipt' \in Receipts
           /\ UNCHANGED <<window, owed, count, active, lag, forced>>
           /\ pc' = "auto" /\ answer' = None
<1>1. pc = "apply" /\ New
  BY DEF Charge
<1>2. answer.window \in Windows /\ answer.owed \in Amounts /\ answer.owed \in Nat
  BY <1>1, AnswerType, MeterAssumption DEF New, TypeOK, Windows, Amounts
<1>3. charge' \in [Windows -> Amounts] /\ spent' \in Nat /\ lastOwed' \in Amounts
  BY <1>2 DEF Charge, TypeOK
<1>4. status' \in Statuses
  BY StatusType DEF Charge, TypeOK
<1>5. receipt' \in Receipts
  BY <1>1, <1>2, ReceiptType DEF Charge
<1> QED
  BY <1>1, <1>2, <1>3, <1>4, <1>5 DEF Charge, Applied, jobVars

LEMMA OldestPart == ASSUME NEW ws PROVE Oldest(ws) \subseteq ws
BY DEF Oldest

\* Every variable keeps its type, so that no window is closed with more active
\* samples than it has, and an answer is there exactly while it is applied.
THEOREM FeedTypes == Spec => []TypeOK
<1> USE MeterAssumption, EnvironmentAssumption
<1>1. Init => TypeOK
  <2> SUFFICES ASSUME Init PROVE TypeOK
    OBVIOUS
  <2>1. charge \in [Windows -> Amounts] /\ receipt \in Receipts
    BY StartTypes DEF Init
  <2>2. /\ owed \in Amounts /\ lastOwed \in Amounts /\ count \in 0..(SamplesPerWindow - 1)
        /\ active \in 0..count /\ lag \in 0..MaxLag /\ idle \in 0..(2 * Sla) /\ spent \in Nat
    BY StartTypes DEF Init
  <2> QED
    BY <2>1, <2>2 DEF Init, TypeOK, Receipts, Places, Statuses
<1>2. TypeOK /\ [Next]_vars => TypeOK'
  <2> SUFFICES ASSUME TypeOK, [Next]_vars PROVE TypeOK'
    OBVIOUS
  <2> USE DEF TypeOK
  <2>1. ASSUME NEW a \in {0, 1}, Sample(a) PROVE TypeOK'
    <3>1. seen' \in SUBSET FaultKinds /\ lag' \in 0..MaxLag
      <4>1. CASE lag < MaxLag /\ lag' = lag + 1 /\ UNCHANGED seen
        BY <4>1
      <4>2. CASE Fault("slow") /\ UNCHANGED lag
        BY <4>2 DEF Fault, FaultKinds
      <4> QED
        BY <2>1, <4>1, <4>2 DEF Sample
    <3>2. UNCHANGED <<pc, answer, taskVars, bound, forced>>
      BY <2>1 DEF Sample
    <3>3. CASE count + 1 < SamplesPerWindow
      BY <2>1, <3>1, <3>2, <3>3 DEF Sample, taskVars
    <3>4. CASE count + 1 >= SamplesPerWindow
      <4>1. window' = window + 1 /\ owed' = active + a /\ count' = 0 /\ active' = 0
        BY <2>1, <3>4 DEF Sample, Closes
      <4>2. window' \in Windows
        BY <2>1, <4>1 DEF Sample, Windows
      <4>3. owed' \in Amounts
        BY <4>1 DEF Amounts
      <4> QED
        BY <3>1, <3>2, <4>1, <4>2, <4>3 DEF taskVars
    <3> QED
      BY <3>3, <3>4
  <2>2. CASE Tick
    BY <2>2 DEF Tick, jobVars, Places
  <2>3. CASE Reap
    BY <2>3 DEF Reap, jobVars, taskVars, Places
  <2>4. CASE Fetch
    BY <2>4, NoneAssumption DEF Fetch, jobVars, taskVars, Places, Answers
  <2>5. CASE FetchFails
    BY <2>5 DEF FetchFails, Fault, FaultKinds, jobVars, taskVars, Places
  <2>6. CASE ApplyKnown
    <3>1. status' \in Statuses
      BY <2>6, StatusType DEF ApplyKnown
    <3>2. receipt' \in Receipts
      BY <2>6, ReceiptType DEF ApplyKnown
    <3> QED
      BY <2>6, <3>1, <3>2 DEF ApplyKnown, Applied, jobVars, Places, Receipts
  <2>7. CASE ApplyWaits
    BY <2>7, ChargeTypes DEF ApplyWaits, Places, Receipts
  <2>8. CASE ApplyMerges
    <3>1. Oldest(pending \cup {answer.window}) \subseteq pending \cup {answer.window}
      BY OldestPart
    <3>2. bound' \in {"none", "settled"} /\ seen' \in SUBSET FaultKinds
      BY <2>8 DEF ApplyMerges, Fault, FaultKinds
    <3>3. Charge
      BY <2>8 DEF ApplyMerges
    <3>4. pending' \in SUBSET Windows /\ settled' \in SUBSET Windows
      BY <2>8, <3>1, <3>3, ChargeTypes DEF ApplyMerges, Settles
    <3> QED
      BY <2>8, <3>2, <3>3, <3>4, ChargeTypes DEF ApplyMerges, Places, Receipts
  <2>9. CASE ApplyFails
    BY <2>9, ChargeTypes DEF ApplyFails, Fault, FaultKinds, Places, Receipts
  <2>15. CASE ApplyLeaves
    <3> DEFINE queue == pending \cup {answer.window}
    <3>1. Oldest(queue) \subseteq queue
      BY OldestPart
    <3>2. Charge /\ bound' = "none" /\ seen' \in SUBSET FaultKinds /\ settled' = settled
      BY <2>15 DEF ApplyLeaves, Fault, FaultKinds
    <3>3. pending' = queue \ Oldest(queue) /\ left' = left \cup Oldest(queue)
      BY <2>15 DEF ApplyLeaves
    <3>4. pending' \in SUBSET Windows /\ left' \in SUBSET Windows
      BY <3>1, <3>2, <3>3, ChargeTypes
    <3> QED
      BY <3>2, <3>4, ChargeTypes DEF Places, Receipts
  <2>10. CASE AutoAccept
    BY <2>10 DEF AutoAccept, jobVars, taskVars, Places
  <2>11. CASE ProviderRestart
    BY <2>11 DEF ProviderRestart, Once, Fault, FaultKinds, taskVars, Windows, Amounts
  <2>12. CASE OpAccept \/ OpRelease
    BY <2>12 DEF OpAccept, OpRelease, jobVars, taskVars
  <2>13. CASE Crash
    <3>1. charge' \in [Windows -> Amounts] /\ receipt' \in Receipts
      BY <2>13, StartTypes DEF Crash
    <3>2. seen' \in SUBSET FaultKinds
      BY <2>13 DEF Crash, Once, Fault, FaultKinds
    <3>3. lastOwed' \in Amounts /\ idle' \in 0..(2 * Sla) /\ spent' \in Nat
      BY <2>13, StartTypes DEF Crash
    <3> QED
      BY <2>13, <3>1, <3>2, <3>3 DEF Crash, jobVars, Receipts, Places, Statuses
  <2>14. CASE UNCHANGED vars
    BY <2>14 DEF vars, jobVars, taskVars
  <2> QED
    BY <2>1, <2>2, <2>3, <2>4, <2>5, <2>6, <2>7, <2>8, <2>9, <2>10, <2>11, <2>12, <2>13,
       <2>14, <2>15 DEF Next, Loop, Apply
<1> QED
  BY <1>1, <1>2, PTL DEF Spec

-----------------------------------------------------------------------------
(* What is charged.                                                         *)

LEMMA WindowsFinite == ASSUME NEW ws \in SUBSET Windows PROVE IsFiniteSet(ws)
<1>1. IsFiniteSet(Windows)
  BY MeterAssumption, FS_Interval DEF Windows
<1> QED
  BY <1>1, FS_Subset

LEMMA CostTotal == ASSUME NEW ws PROVE Cost(ws) = Total(charge, ws)
BY DEF Cost

LEMMA CostsTotal ==
    /\ Cost(settled)' = Total(charge', settled')
    /\ Cost(Charged)' = Total(charge', Charged')
BY DEF Cost

\* The task has got to every window it was charged for, so a window that is charged is
\* none of them.
Reached == \A w \in Charged : w <= last

LEMMA ChargedOnce ==
    ASSUME TypeOK, Reached, Charge
    PROVE  /\ answer.window \in Windows /\ answer.window \notin Charged
           /\ \A w \in Charged : w < answer.window
<1>1. answer.window \in Windows /\ answer.window > last
  BY ChargeTypes DEF Charge, New
<1>2. last \in Int /\ answer.window \in Int /\ \A w \in Charged : w \in Int
  BY <1>1, MeterAssumption DEF TypeOK, Windows, Charged
<1> QED
  BY <1>1, <1>2 DEF Reached

\* What a new window adds to the sum.
LEMMA ChargeCosts ==
    ASSUME TypeOK, Reached, SpentAccounted, Charge
    PROVE  Total(charge', Charged \cup {answer.window}) = spent'
<1> DEFINE all == Charged \cup {answer.window}
<1>1. /\ answer.window \in Windows /\ answer.window \notin Charged
      /\ IsFiniteSet(Charged) /\ IsFiniteSet(all) /\ all \in SUBSET Windows
  BY ChargedOnce, WindowsFinite DEF TypeOK, Charged
<1>2. \A w \in all : charge'[w] \in Nat
  BY <1>1, ChargeTypes, MeterAssumption DEF Amounts
<1>3. Total(charge', all) = charge'[answer.window] + Total(charge', all \ {answer.window})
  <2>1. answer.window \in all
    OBVIOUS
  <2> HIDE DEF all
  <2> QED
    BY <1>1, <1>2, <2>1, TotalRemove
<1>4. Total(charge', all \ {answer.window}) = Total(charge', Charged)
  <2>1. all \ {answer.window} = Charged
    BY <1>1
  <2> HIDE DEF all
  <2> QED
    BY <2>1
<1>5. Total(charge', Charged) = Total(charge, Charged)
  <2>1. \A w \in Charged : charge'[w] = charge[w]
    BY <1>1 DEF Charge, TypeOK
  <2> QED
    BY <1>1, <2>1, TotalSame
<1>6. charge'[answer.window] = answer.owed
  BY <1>1 DEF Charge, TypeOK
<1>7. Total(charge, Charged) = spent
  BY CostTotal DEF SpentAccounted
<1>8. spent' = spent + answer.owed /\ spent \in Int /\ answer.owed \in Int
  BY AnswerType, MeterAssumption DEF Charge, TypeOK, Amounts
<1> HIDE DEF all
<1>9. Total(charge', all) = spent'
  BY <1>3, <1>4, <1>5, <1>6, <1>7, <1>8
<1> QED
  BY <1>9 DEF all

\* The windows that a step with a new window leaves: all that were there and it, in
\* three sets that share none.
Apart == pending \cap settled = {} /\ pending \cap left = {} /\ settled \cap left = {}

LEMMA ChargeAccounts ==
    ASSUME TypeOK, Reached, SpentAccounted, Charge,
           Charged' = Charged \cup {answer.window}, Apart'
    PROVE  Reached' /\ SpentAccounted'
<1>1. Reached'
  <2>1. last' = answer.window /\ answer.window \in Int
    BY ChargeTypes, MeterAssumption DEF Windows
  <2>2. \A w \in Charged : w \in Int /\ w < answer.window
    BY ChargedOnce, MeterAssumption DEF TypeOK, Windows, Charged
  <2> QED
    BY <2>1, <2>2 DEF Reached
<1>2. Cost(Charged)' = Total(charge', Charged')
  BY CostsTotal
<1>3. spent' = Cost(Charged)'
  BY <1>2, ChargeCosts
<1> QED
  BY <1>1, <1>3 DEF SpentAccounted, Apart

LEMMA ChargeKeeps ==
    ASSUME TypeOK, Reached, SpentAccounted,
           ApplyWaits \/ ApplyMerges \/ ApplyLeaves \/ ApplyFails
    PROVE  Charge /\ Charged' = Charged \cup {answer.window} /\ Apart'
<1>1. Charge
  BY DEF ApplyWaits, ApplyMerges, ApplyLeaves, ApplyFails
<1>2. answer.window \notin settled \cup left /\ Apart
  BY <1>1, ChargedOnce DEF SpentAccounted, Charged, Apart
<1>3. Oldest(pending \cup {answer.window}) \subseteq pending \cup {answer.window}
  BY OldestPart
<1>4. CASE ApplyMerges
  BY <1>1, <1>2, <1>3, <1>4 DEF ApplyMerges, Settles, Charged, Apart
<1>5. CASE ApplyLeaves
  BY <1>1, <1>2, <1>3, <1>5 DEF ApplyLeaves, Charged, Apart
<1>6. CASE ApplyWaits \/ ApplyFails
  BY <1>1, <1>2, <1>6 DEF ApplyWaits, ApplyFails, Charged, Apart
<1> QED
  BY <1>4, <1>5, <1>6

\* The steps that do not touch the account.
LEMMA AccountKept ==
    ASSUME UNCHANGED <<pending, settled, left, charge, spent, last>>, Reached, SpentAccounted
    PROVE  Reached' /\ SpentAccounted'
<1>1. Charged' = Charged
  BY DEF Charged
<1>2. Cost(Charged)' = Total(charge, Charged)
  BY <1>1, CostsTotal
<1> QED
  BY <1>1, <1>2, CostTotal DEF Reached, SpentAccounted

\* Those of the loop and of the others.
LEMMA AccountSteps ==
    ASSUME [Next]_vars
    PROVE  \/ ApplyWaits \/ ApplyMerges \/ ApplyLeaves \/ ApplyFails \/ Crash
           \/ UNCHANGED <<pending, settled, left, charge, spent, last>>
BY DEF Next, Loop, Apply, vars, taskVars, Sample, Tick, Reap, Fetch, FetchFails, ApplyKnown,
       AutoAccept, ProviderRestart, OpAccept, OpRelease

LEMMA AccountStep ==
    ASSUME TypeOK, Reached, SpentAccounted, [Next]_vars
    PROVE  Reached' /\ SpentAccounted'
<1>1. CASE ApplyWaits \/ ApplyMerges \/ ApplyLeaves \/ ApplyFails
  BY <1>1, ChargeKeeps, ChargeAccounts
<1>2. CASE Crash
  <2>1. pending' = {} /\ settled' = {} /\ left' = {} /\ spent' = 0 /\ Charged' = {}
    BY <1>2 DEF Crash, Charged
  <2>2. Total(charge', {}) = 0
    BY TotalStep, FS_EmptySet
  <2>3. Cost(Charged)' = Total(charge', Charged')
    BY CostsTotal
  <2> QED
    BY <2>1, <2>2, <2>3 DEF Reached, SpentAccounted
<1>3. CASE UNCHANGED <<pending, settled, left, charge, spent, last>>
  BY <1>3, AccountKept
<1> QED
  BY <1>1, <1>2, <1>3, AccountSteps

\* What is spent is the price of the windows that are queued, settled or left to recovery,
\* and no window is two of them: none is charged or settled twice between two starts of
\* the agent.
THEOREM FeedAccounted == Spec => []SpentAccounted
<1>1. Init => Reached /\ SpentAccounted
  <2> SUFFICES ASSUME Init PROVE Reached /\ SpentAccounted
    OBVIOUS
  <2>1. Cost({}) = 0
    BY CostTotal, TotalStep, FS_EmptySet
  <2> QED
    BY <2>1 DEF Init, Reached, SpentAccounted, Charged
<1>2. TypeOK /\ (Reached /\ SpentAccounted) /\ [Next]_vars => (Reached /\ SpentAccounted)'
  BY AccountStep
<1> QED
  BY <1>1, <1>2, FeedTypes, PTL DEF Spec

-----------------------------------------------------------------------------
(* What is paid.                                                            *)

\* The loop has got past its reaper, and will pay if it has a window.
Paying == bound = "accepted" /\ pc \in {"fetch", "apply"}

\* A task that runs has not spent its budget, and unless an operator accepted for it
\* the loop pays only for a task that runs.
Solvent == status = "running" => spent <= Budget
Covered == ~forced /\ Paying => status = "running"
PayInv  == TypeOK /\ Reached /\ SpentAccounted /\ Solvent /\ Covered /\ PaidWithinBudget

LEMMA StaysRunning ==
    ASSUME TypeOK, pc = "apply", NEW s, NEW all \in Nat, NEW ticks,
           Stalled(Budgeted(s, all), ticks) = "running"
    PROVE  s = "running" /\ all <= Budget
<1>1. Budgeted(s, all) = "running"
  BY DEF Stalled
<1>2. all + answer.owed <= Budget /\ s = "running"
  BY <1>1 DEF Budgeted
<1> QED
  BY <1>2, AnswerType, MeterAssumption DEF Amounts

LEMMA SolventStep ==
    ASSUME PayInv, [Next]_vars
    PROVE  Solvent'
<1> USE DEF PayInv, Solvent
<1>1. CASE ApplyKnown
  <2>1. pc = "apply" /\ status' = Stalled(Budgeted(status, spent), idle) /\ spent' = spent
    BY <1>1 DEF ApplyKnown
  <2>2. spent \in Nat
    BY DEF TypeOK
  <2> QED
    BY <2>1, <2>2, StaysRunning
<1>2. CASE ApplyWaits \/ ApplyMerges \/ ApplyLeaves \/ ApplyFails
  <2>1. Charge
    BY <1>2 DEF ApplyWaits, ApplyMerges, ApplyLeaves, ApplyFails
  <2>2. pc = "apply" /\ status' = Stalled(Budgeted(status, spent'), 0) /\ spent' \in Nat
    BY <2>1, ChargeTypes DEF Charge
  <2> QED
    BY <2>2, StaysRunning
<1>3. CASE Crash
  BY <1>3, MeterAssumption DEF Crash
<1>4. CASE UNCHANGED <<status, spent>>
  BY <1>4
<1> QED
  BY <1>1, <1>2, <1>3, <1>4 DEF Next, Loop, Apply, vars, taskVars, Sample, Tick, Reap, Fetch,
     FetchFails, AutoAccept, ProviderRestart, OpAccept, OpRelease

LEMMA CoveredStep ==
    ASSUME PayInv, [Next]_vars
    PROVE  Covered'
<1> USE DEF PayInv, Covered, Paying
<1>1. CASE Reap
  BY <1>1 DEF Reap, taskVars
<1>2. CASE OpAccept
  BY <1>2 DEF OpAccept, taskVars
<1>3. CASE Fetch \/ OpRelease
  BY <1>3 DEF Fetch, OpRelease, taskVars
<1>4. CASE pc' \notin {"fetch", "apply"}
  BY <1>4
<1>5. CASE UNCHANGED <<status, bound, pc, forced>>
  BY <1>5
<1>6. ASSUME Tick \/ FetchFails \/ Apply \/ AutoAccept \/ Crash
      PROVE  pc' \notin {"fetch", "apply"}
  BY <1>6 DEF Tick, FetchFails, Apply, ApplyKnown, ApplyWaits, ApplyMerges, ApplyLeaves, ApplyFails,
     Charge, Applied, AutoAccept, Crash
<1> QED
  BY <1>1, <1>2, <1>3, <1>4, <1>5, <1>6 DEF Next, Loop, vars, taskVars, Sample, ProviderRestart

\* Before a merge the loop is about to pay.
LEMMA MergePays == ASSUME ApplyMerges PROVE Paying
BY DEF ApplyMerges, Charge, Mergeable, Paying

LEMMA PaidKept ==
    ASSUME PaidWithinBudget, UNCHANGED <<settled, forced>>,
           \A w \in settled : charge'[w] = charge[w], IsFiniteSet(settled)
    PROVE  PaidWithinBudget'
<1>1. Cost(settled)' = Total(charge', settled)
  BY CostsTotal
<1>2. Total(charge', settled) = Total(charge, settled)
  BY TotalSame
<1>3. Cost(settled)' = Cost(settled)
  BY <1>1, <1>2, CostTotal
<1> QED
  BY <1>3 DEF PaidWithinBudget

LEMMA PaidStep ==
    ASSUME PayInv, [Next]_vars
    PROVE  PaidWithinBudget'
<1>0. /\ TypeOK /\ Reached /\ SpentAccounted /\ PaidWithinBudget
      /\ IsFiniteSet(settled) /\ settled \in SUBSET Windows
  BY WindowsFinite DEF PayInv, TypeOK
<1>1. CASE ApplyMerges
  <2> DEFINE all == Charged \cup {answer.window}
  <2>1. Charge /\ settled' \subseteq all
    BY <1>0, <1>1, ChargeKeeps DEF Charged
  <2>2. IsFiniteSet(all) /\ settled' \in SUBSET all /\ \A w \in all : charge'[w] \in Nat
    <3>1. all \in SUBSET Windows
      BY <1>0, <2>1, ChargedOnce DEF TypeOK, Charged
    <3>2. \A w \in Windows : charge'[w] \in Nat
      BY <1>0, <2>1, ChargeTypes, MeterAssumption DEF Amounts
    <3>3. settled' \in SUBSET all
      BY <2>1
    <3> HIDE DEF all
    <3> QED
      BY <3>1, <3>2, <3>3, WindowsFinite
  <2>3. Total(charge', settled') <= Total(charge', all)
    <3> HIDE DEF all
    <3> QED
      BY <2>2, TotalGrows
  <2>4. Total(charge', all) = spent'
    BY <1>0, <2>1, ChargeCosts
  <2>5. Cost(settled)' <= spent'
    <3> HIDE DEF all
    <3> QED
      BY <2>3, <2>4, CostsTotal
  <2>6. ASSUME ~forced' PROVE spent' <= Budget + SamplesPerWindow
    <3>1. forced' = forced
      BY <1>0, <2>1, ChargeTypes
    <3>2. status = "running"
      BY <1>1, <2>6, <3>1, MergePays DEF PayInv, Covered
    <3>3. spent <= Budget /\ spent' = spent + answer.owed
      BY <3>2, <2>1 DEF PayInv, Solvent, Charge
    <3>4. answer.owed <= SamplesPerWindow /\ answer.owed \in Nat /\ spent \in Nat
      BY <1>0, <2>1, AnswerType, MeterAssumption DEF Charge, Amounts, TypeOK
    <3> QED
      BY <3>3, <3>4, MeterAssumption
  <2>7. Cost(settled)' \in Nat /\ spent' \in Nat
    <3>1. IsFiniteSet(settled') /\ \A w \in settled' : charge'[w] \in Nat
      <4> HIDE DEF all
      <4> QED
        BY <2>2, FS_Subset
    <3> QED
      BY <1>0, <2>1, <3>1, TotalNat, CostsTotal, ChargeTypes
  <2> QED
    BY <2>5, <2>6, <2>7, MeterAssumption DEF PaidWithinBudget
<1>2. CASE ApplyWaits \/ ApplyLeaves \/ ApplyFails
  <2>1. Charge /\ UNCHANGED <<settled, forced>>
    BY <1>2 DEF ApplyWaits, ApplyLeaves, ApplyFails, Charge, Applied
  <2>2. \A w \in settled : charge'[w] = charge[w]
    BY <1>0, <2>1, ChargedOnce DEF Charge, TypeOK, Charged
  <2> QED
    BY <1>0, <2>1, <2>2, PaidKept
<1>3. CASE Crash
  <2>1. settled' = {} /\ Total(charge', {}) = 0
    BY <1>3, TotalStep, FS_EmptySet DEF Crash
  <2>2. Cost(settled)' = 0
    BY <2>1, CostsTotal
  <2> QED
    BY <2>2, MeterAssumption DEF PaidWithinBudget
<1>4. CASE OpAccept
  <2>1. UNCHANGED <<settled, charge>> /\ (~forced' => ~forced)
    BY <1>4 DEF OpAccept, taskVars
  <2>2. Cost(settled)' = Cost(settled)
    BY <2>1, CostTotal, CostsTotal
  <2> QED
    BY <1>0, <2>1, <2>2 DEF PaidWithinBudget
<1>5. CASE UNCHANGED <<settled, forced, charge>>
  BY <1>0, <1>5, PaidKept
<1> QED
  BY <1>1, <1>2, <1>3, <1>4, <1>5 DEF Next, Loop, Apply, vars, taskVars, Sample, Tick, Reap,
     Fetch, FetchFails, ApplyKnown, Applied, AutoAccept, ProviderRestart, OpRelease

LEMMA PayInvariant == Spec => []PayInv
<1>1. Init => Reached /\ SpentAccounted /\ Solvent /\ Covered /\ PaidWithinBudget
  <2> SUFFICES ASSUME Init
               PROVE  Reached /\ SpentAccounted /\ Solvent /\ Covered /\ PaidWithinBudget
    OBVIOUS
  <2>1. Cost({}) = 0
    BY CostTotal, TotalStep, FS_EmptySet
  <2> QED
    BY <2>1, MeterAssumption
    DEF Init, Reached, SpentAccounted, Charged, Solvent, Covered, Paying, PaidWithinBudget
<1>2. PayInv /\ TypeOK' /\ [Next]_vars => PayInv'
  <2> SUFFICES ASSUME PayInv, TypeOK', [Next]_vars PROVE PayInv'
    OBVIOUS
  <2>1. Reached' /\ SpentAccounted'
    BY AccountStep DEF PayInv
  <2> QED
    BY <2>1, SolventStep, CoveredStep, PaidStep DEF PayInv
<1>3. TypeOK /\ Reached /\ SpentAccounted /\ Solvent /\ Covered /\ PaidWithinBudget => PayInv
  BY DEF PayInv
<1> QED
  BY <1>1, <1>2, <1>3, FeedTypes, PTL DEF Spec

\* However often settlements fail, the merges of the loop never settle more than the budget
\* and the price of one window.
THEOREM FeedWithinBudget == Spec => []PaidWithinBudget
<1>1. PayInv => PaidWithinBudget
  BY DEF PayInv
<1> QED
  BY <1>1, PayInvariant, PTL

\* A task that is paused or stopped settles nothing more, unless an operator accepted a
\* match for it.
THEOREM FeedPausedPays == Spec => PausedPaysNothing
<1>1. PayInv /\ [Next]_vars
        => [settled' # settled /\ status # "running" => forced \/ settled' = {}]_vars
  <2> SUFFICES ASSUME PayInv, [Next]_vars, settled' # settled, status # "running"
               PROVE  forced \/ settled' = {}
    BY DEF vars
  <2>1. CASE ApplyMerges
    BY <2>1, MergePays DEF PayInv, Covered
  <2>2. CASE Crash
    BY <2>2 DEF Crash
  <2> QED
    BY <2>1, <2>2 DEF Next, Loop, Apply, vars, taskVars, Sample, Tick, Reap, Fetch, FetchFails,
       ApplyKnown, ApplyWaits, ApplyLeaves, ApplyFails, AutoAccept, ProviderRestart, OpAccept, OpRelease
<1> QED
  BY <1>1, PayInvariant, PTL DEF Spec, PausedPaysNothing

-----------------------------------------------------------------------------
(* What the receipt says, and what the loop gets to see.                    *)

LEMMA SeenGrows == ASSUME [Next]_vars PROVE seen \subseteq seen'
BY DEF Next, Loop, Apply, vars, taskVars, Sample, Tick, Reap, Fetch, FetchFails, ApplyKnown,
   ApplyWaits, ApplyMerges, ApplyLeaves, ApplyFails, AutoAccept, ProviderRestart, OpAccept, OpRelease, Crash,
   Once, Fault

\* Unless the provider begins to count again, the task is never ahead of it, nor is an
\* answer; and the receipt is about the last window, which cost what was last charged.
Agreed ==
    "provider_restart" \notin seen =>
        /\ last <= window
        /\ pc = "apply" => last <= answer.window /\ answer.window <= window
        /\ last # 0 => lastOwed = charge[last]
        /\ receipt.window = last /\ receipt.telemetry = last
        /\ last # 0 => receipt.owed = charge[last]

LEMMA WindowNumbers ==
    ASSUME TypeOK
    PROVE  /\ window \in Int /\ last \in Int
           /\ pc = "apply" => answer.window \in Int
BY AnswerType, MeterAssumption DEF TypeOK, Windows

LEMMA AgreedStep ==
    ASSUME TypeOK, TypeOK', Agreed, [Next]_vars
    PROVE  Agreed'
<1> SUFFICES ASSUME "provider_restart" \notin seen' PROVE Agreed'
  BY DEF Agreed
<1>0. "provider_restart" \notin seen /\ window \in Int /\ last \in Int /\ last >= 0
  BY SeenGrows, WindowNumbers, MeterAssumption DEF TypeOK, Windows
<1>1. ASSUME NEW a \in {0, 1}, Sample(a) PROVE Agreed'
  <2>1. window' = window \/ window' = window + 1
    BY <1>1 DEF Sample, Closes
  <2>2. UNCHANGED <<pc, answer, last, lastOwed, charge, receipt>>
    BY <1>1 DEF Sample, taskVars
  <2>3. pc = "apply" => answer.window \in Int
    BY WindowNumbers
  <2> QED
    BY <1>0, <2>1, <2>2, <2>3 DEF Agreed
<1>2. CASE Fetch
  <2>1. /\ answer'.window = window /\ window' = window
        /\ UNCHANGED <<last, lastOwed, charge, receipt>>
    BY <1>2 DEF Fetch, jobVars, taskVars
  <2> QED
    BY <1>0, <2>1 DEF Agreed
<1>3. CASE ApplyKnown
  <2>1. /\ pc = "apply" /\ ~New /\ pc' # "apply"
        /\ UNCHANGED <<window, last, lastOwed, charge>>
        /\ receipt' = Receipt(last, lastOwed)
    BY <1>3 DEF ApplyKnown, Applied, jobVars
  <2>2. answer.window = last
    BY <1>0, <2>1, WindowNumbers DEF Agreed, New
  <2>3. receipt'.window = last /\ receipt'.telemetry = last /\ receipt'.owed = lastOwed
    BY <2>1, <2>2 DEF Receipt
  <2> QED
    BY <1>0, <2>1, <2>3 DEF Agreed
<1>4. CASE ApplyWaits \/ ApplyMerges \/ ApplyLeaves \/ ApplyFails
  <2>1. Charge /\ pc = "apply"
    BY <1>4 DEF ApplyWaits, ApplyMerges, ApplyLeaves, ApplyFails, Charge
  <2>2. /\ last' = answer.window /\ answer.window \in Windows /\ pc' # "apply"
        /\ window' = window
    BY <2>1, ChargeTypes
  <2>3. /\ receipt'.window = last' /\ receipt'.telemetry = answer.window
        /\ receipt'.owed = lastOwed'
    BY <2>1 DEF Charge, Receipt
  <2>4. charge'[answer.window] = lastOwed'
    BY <2>1, <2>2 DEF Charge, TypeOK
  <2> QED
    BY <1>0, <2>1, <2>2, <2>3, <2>4 DEF Agreed
<1>5. CASE ProviderRestart
  BY <1>5 DEF ProviderRestart, Once, Fault
<1>6. CASE Crash
  <2>1. /\ last' = 0 /\ receipt' = NewReceipt /\ pc' = "tick" /\ window' = window
    BY <1>6 DEF Crash, jobVars
  <2> QED
    BY <1>0, <2>1, MeterAssumption DEF Agreed, NewReceipt, TypeOK, Windows
<1>7. ASSUME Tick \/ Reap \/ FetchFails \/ AutoAccept
      PROVE  pc' # "apply" /\ UNCHANGED <<window, last, lastOwed, charge, receipt>>
  BY <1>7 DEF Tick, Reap, FetchFails, AutoAccept, jobVars, taskVars
<1>8. ASSUME OpAccept \/ OpRelease \/ UNCHANGED vars
      PROVE  UNCHANGED <<pc, answer, window, last, lastOwed, charge, receipt>>
  BY <1>8 DEF OpAccept, OpRelease, vars, jobVars, taskVars
<1>9. CASE pc' # "apply" /\ UNCHANGED <<window, last, lastOwed, charge, receipt>>
  BY <1>0, <1>9 DEF Agreed
<1>10. CASE UNCHANGED <<pc, answer, window, last, lastOwed, charge, receipt>>
  BY <1>0, <1>10 DEF Agreed
<1> QED
  BY <1>1, <1>2, <1>3, <1>4, <1>5, <1>6, <1>7, <1>8, <1>9, <1>10 DEF Next, Loop, Apply

\* The receipt never shows the telemetry of one window beside the price of another,
\* unless the provider has begun to count again.
THEOREM FeedReceipt == Spec => []ReceiptAgrees
<1>1. Init => Agreed
  <2> SUFFICES ASSUME Init PROVE Agreed
    OBVIOUS
  <2>1. last = 0 /\ window = 0 /\ pc = "tick" /\ receipt.window = 0 /\ receipt.telemetry = 0
    BY DEF Init, NewReceipt
  <2> QED
    BY <2>1 DEF Agreed
<1>2. Agreed => ReceiptAgrees
  BY DEF Agreed, ReceiptAgrees
<1>3. TypeOK /\ TypeOK' /\ Agreed /\ [Next]_vars => Agreed'
  BY AgreedStep
<1> QED
  BY <1>1, <1>2, <1>3, FeedTypes, PTL DEF Spec

\* While nothing but a settlement goes wrong, the loop is at most one window behind the
\* provider; it is one behind only if the provider has taken more samples since the last
\* answer than it has of the window that is open.
Base == IF pc = "apply" THEN answer.window ELSE last
Follows ==
    seen \subseteq {"settle"} =>
        /\ Charged = 1..last
        /\ \/ window = Base /\ lag <= count
           \/ window = Base + 1 /\ lag > count
        /\ pc = "apply" => answer.window \in {last, last + 1}

LEMMA FollowsStep ==
    ASSUME MaxLag <= SamplesPerWindow, TypeOK, Reached, SpentAccounted, Follows, [Next]_vars
    PROVE  Follows'
<1> SUFFICES ASSUME seen' \subseteq {"settle"} PROVE Follows'
  BY DEF Follows
<1>0. /\ seen \subseteq {"settle"} /\ window \in Int /\ last \in Int /\ last >= 0
      /\ lag \in Int /\ count \in Int /\ count >= 0 /\ lag >= 0 /\ lag <= MaxLag
      /\ count < SamplesPerWindow /\ Base \in Int
  <2>1. seen \subseteq {"settle"}
    BY SeenGrows
  <2>2. window \in Int /\ last \in Int /\ last >= 0 /\ Base \in Int
    BY WindowNumbers, MeterAssumption DEF TypeOK, Windows, Base
  <2>3. lag \in Int /\ count \in Int /\ count >= 0 /\ lag >= 0 /\ lag <= MaxLag
    BY MeterAssumption DEF TypeOK
  <2>4. count < SamplesPerWindow
    BY MeterAssumption DEF TypeOK
  <2> QED
    BY <2>1, <2>2, <2>3, <2>4
<1>1. ASSUME NEW a \in {0, 1}, Sample(a) PROVE Follows'
  <2>1. lag < MaxLag /\ lag' = lag + 1
    BY <1>1 DEF Sample, Fault
  <2>2. UNCHANGED <<pc, answer, last, Charged, Base>>
    BY <1>1 DEF Sample, taskVars, Base, Charged
  <2>3. \/ window' = window /\ count' = count + 1
        \/ window' = window + 1 /\ count' = 0 /\ count = SamplesPerWindow - 1
    BY <1>0, <1>1, MeterAssumption DEF Sample, Closes
  <2>4. \/ window' = Base /\ lag' <= count'
        \/ window' = Base + 1 /\ lag' > count'
    BY <1>0, <2>1, <2>3, MeterAssumption DEF Follows
  <2> QED
    BY <1>0, <2>2, <2>4 DEF Follows
<1>2. CASE Fetch
  <2>1. /\ answer'.window = window /\ window' = window /\ lag' = 0 /\ pc' = "apply"
        /\ pc = "fetch" /\ UNCHANGED <<last, Charged, count>>
    BY <1>2 DEF Fetch, jobVars, taskVars, Charged
  <2>2. Base = last /\ Base' = window
    BY <2>1 DEF Base
  <2> QED
    BY <1>0, <2>1, <2>2 DEF Follows
<1>3. CASE ApplyKnown
  <2>1. /\ pc = "apply" /\ ~(answer.window > last) /\ pc' = "auto"
        /\ UNCHANGED <<window, last, Charged, count, lag>>
    BY <1>3 DEF ApplyKnown, Applied, jobVars, New, Charged
  <2>2. answer.window = last
    BY <1>0, <2>1 DEF Follows
  <2>3. Base = last /\ Base' = last
    BY <2>1, <2>2 DEF Base
  <2> QED
    BY <1>0, <2>1, <2>3 DEF Follows
<1>4. CASE ApplyWaits \/ ApplyMerges \/ ApplyLeaves \/ ApplyFails
  <2>1. /\ Charge /\ pc = "apply"
        /\ Charged' = Charged \cup {answer.window}
    BY <1>4, ChargeKeeps DEF Charge
  <2>2. /\ last' = answer.window /\ pc' = "auto" /\ UNCHANGED <<window, count, lag>>
    BY <2>1, ChargeTypes
  <2>3. answer.window = last + 1
    BY <1>0, <2>1 DEF Follows, Charge, New
  <2>4. Base' = Base
    BY <2>1, <2>2 DEF Base
  <2>5. Charged' = 1..last'
    BY <1>0, <2>1, <2>2, <2>3 DEF Follows
  <2> QED
    BY <1>0, <2>1, <2>2, <2>4, <2>5 DEF Follows
<1>5. ASSUME FetchFails \/ ProviderRestart \/ Crash PROVE FALSE
  BY <1>5 DEF FetchFails, ProviderRestart, Crash, Once, Fault
<1>6. ASSUME Tick \/ Reap \/ AutoAccept
      PROVE  /\ pc # "apply" /\ pc' # "apply"
             /\ UNCHANGED <<window, last, Charged, count, lag>>
  BY <1>6 DEF Tick, Reap, AutoAccept, jobVars, taskVars, Charged
<1>7. ASSUME OpAccept \/ OpRelease \/ UNCHANGED vars
      PROVE  UNCHANGED <<pc, answer, window, last, Charged, count, lag>>
  BY <1>7 DEF OpAccept, OpRelease, vars, jobVars, taskVars, Charged
<1>8. CASE /\ pc # "apply" /\ pc' # "apply"
           /\ UNCHANGED <<window, last, Charged, count, lag>>
  BY <1>0, <1>8 DEF Follows, Base
<1>9. CASE UNCHANGED <<pc, answer, window, last, Charged, count, lag>>
  BY <1>0, <1>9 DEF Follows, Base
<1> QED
  BY <1>1, <1>2, <1>3, <1>4, <1>5, <1>6, <1>7, <1>8, <1>9 DEF Next, Loop, Apply

\* A loop that gets an answer before the provider has taken the samples of a whole window
\* sees every window, although the provider only offers its latest.
THEOREM FeedMissesNothing ==
    ASSUME MaxLag <= SamplesPerWindow
    PROVE  Spec => []NothingMissed
<1>1. Init => Follows
  <2> SUFFICES ASSUME Init PROVE Follows
    OBVIOUS
  <2>1. last = 0 /\ window = 0 /\ pc = "tick" /\ lag = 0 /\ count = 0
        /\ Charged = {} /\ 1..0 = {}
    BY DEF Init, Charged
  <2> QED
    BY <2>1 DEF Follows, Base
<1>2. TypeOK /\ Follows => NothingMissed
  BY WindowNumbers DEF Follows, Base, NothingMissed
<1>3. TypeOK /\ PayInv /\ Follows /\ [Next]_vars => Follows'
  BY FollowsStep DEF PayInv
<1> QED
  BY <1>1, <1>2, <1>3, FeedTypes, PayInvariant, PTL DEF Spec

-----------------------------------------------------------------------------
(* The queue.                                                               *)

\* The two modules count with one definition.
LEMMA SameCardinality == ASSUME NEW S PROVE Queue!Cardinality(S) = Cardinality(S)
BY DEF Queue!Cardinality, Cardinality

\* A batch is older than the rest of its queue.
LEMMA BatchOlder ==
    ASSUME NEW queue \in SUBSET Windows
    PROVE  /\ Queue!Batch(queue) \subseteq queue
           /\ \A w \in Queue!Batch(queue), v \in queue \ Queue!Batch(queue) : w < v
<1> DEFINE Before(w) == {u \in queue : u < w}
<1>1. \A w \in queue : w \in Int
  BY MeterAssumption DEF Windows
<1>2. \A w \in queue : w \in Queue!Batch(queue) <=> Cardinality(Before(w)) < MergeCount
  BY SameCardinality DEF Queue!Batch
<1>3. ASSUME NEW w \in queue, NEW v \in queue, v < w
      PROVE  Cardinality(Before(v)) <= Cardinality(Before(w))
  <2>1. Before(v) \subseteq Before(w)
    BY <1>1, <1>3
  <2>2. IsFiniteSet(Before(w))
    BY WindowsFinite
  <2> HIDE DEF Before
  <2> QED
    BY <2>1, <2>2, FS_Subset
<1>4. \A w \in queue : Cardinality(Before(w)) \in Nat
  <2>1. \A w \in queue : IsFiniteSet(Before(w))
    BY WindowsFinite
  <2> HIDE DEF Before
  <2> QED
    BY <2>1, FS_CardinalityType
<1>5. Queue!Batch(queue) \subseteq queue
  BY DEF Queue!Batch
<1> HIDE DEF Before
<1>6. ASSUME NEW w \in Queue!Batch(queue), NEW v \in queue \ Queue!Batch(queue)
      PROVE  w < v
  <2>1. w \in queue /\ v \in queue /\ w # v /\ w \in Int /\ v \in Int
    BY <1>1, <1>5
  <2>2. CASE v < w
    <3>1. Cardinality(Before(v)) <= Cardinality(Before(w))
      BY <1>3, <2>1, <2>2
    <3>2. Cardinality(Before(w)) < MergeCount /\ ~(Cardinality(Before(v)) < MergeCount)
      BY <1>2, <2>1
    <3> QED
      BY <1>4, <2>1, <3>1, <3>2, MeterAssumption
  <2> QED
    BY <2>1, <2>2
<1> QED
  BY <1>5, <1>6

\* What has left the queue is older than what is in it: a consequence of the abstract
\* queue alone.
THEOREM QueueInOrder == Queue!Spec => []Queue!OldestFirst
<1> DEFINE Inv == Queue!Known \subseteq Windows /\ Queue!OldestFirst
<1>1. Queue!Init => Inv
  BY DEF Queue!Init, Queue!Known, Queue!OldestFirst
<1>2. Inv /\ [Queue!Next]_Queue!vars => Inv'
  <2> SUFFICES ASSUME Inv, [Queue!Next]_Queue!vars PROVE Inv'
    OBVIOUS
  <2> USE DEF Queue!Known, Queue!OldestFirst
  <2>1. ASSUME NEW queue \in Queue!Queues,
               Queue!Wait(queue) \/ Queue!Settle(queue) \/ Queue!Leave(queue)
        PROVE  Inv'
    <3>1. /\ queue \subseteq Windows /\ queue \cap settled = {} /\ queue \cap left = {}
          /\ \A w \in settled \cup left, v \in queue : w < v
      <4>1. CASE queue = pending
        BY <4>1
      <4>2. ASSUME NEW n \in Windows, \A k \in pending \cup settled \cup left : k < n,
                   queue = pending \cup {n}
            PROVE  /\ queue \subseteq Windows /\ queue \cap settled = {} /\ queue \cap left = {}
                   /\ \A w \in settled \cup left, v \in queue : w < v
        <5>1. n \in Int
          BY MeterAssumption DEF Windows
        <5> QED
          BY <4>2, <5>1
      <4> QED
        BY <4>1, <4>2 DEF Queue!Queues
    <3>2. CASE Queue!Wait(queue)
      BY <3>1, <3>2 DEF Queue!Wait
    <3>3. /\ Queue!Batch(queue) \subseteq queue
          /\ \A w \in Queue!Batch(queue), v \in queue \ Queue!Batch(queue) : w < v
      BY <3>1, BatchOlder
    <3>4. CASE Queue!Settle(queue)
      BY <3>1, <3>3, <3>4 DEF Queue!Settle
    <3>5. CASE Queue!Leave(queue)
      BY <3>1, <3>3, <3>5 DEF Queue!Leave
    <3> QED
      BY <2>1, <3>2, <3>4, <3>5
  <2>2. CASE Queue!Restart
    BY <2>2 DEF Queue!Restart
  <2>3. CASE UNCHANGED Queue!vars
    BY <2>3 DEF Queue!vars
  <2> QED
    BY <2>1, <2>2, <2>3 DEF Queue!Next
<1>3. Inv => Queue!OldestFirst
  OBVIOUS
<1> QED
  BY <1>1, <1>2, <1>3, PTL DEF Queue!Spec

LEMMA QueueStep ==
    ASSUME TypeOK, Reached, [Next]_vars
    PROVE  [Queue!Next]_Queue!vars
<1> DEFINE queue == pending \cup {answer.window}
<1>1. ASSUME Charge
      PROVE  queue \in Queue!Queues /\ (Mergeable => Cardinality(queue) >= MergeCount)
  BY <1>1, ChargedOnce DEF Queue!Queues, Queue!Known, Charged, Mergeable
<1>2. Oldest(queue) = Queue!Batch(queue)
  BY SameCardinality DEF Oldest, Queue!Batch
<1>3. CASE ApplyWaits \/ ApplyFails
  <2>1. Charge /\ pending' = queue /\ UNCHANGED <<settled, left>>
    BY <1>3 DEF ApplyWaits, ApplyFails
  <2> HIDE DEF queue
  <2> QED
    BY <1>1, <2>1 DEF Queue!Next, Queue!Wait
<1>4. CASE ApplyMerges
  <2>1. /\ Charge /\ Mergeable /\ UNCHANGED left
        /\ pending' = queue \ Oldest(queue) /\ settled' = settled \cup Oldest(queue)
    BY <1>4 DEF ApplyMerges, Settles
  <2> HIDE DEF queue
  <2> QED
    BY <1>1, <1>2, <2>1, SameCardinality DEF Queue!Next, Queue!Settle
<1>5. CASE ApplyLeaves
  <2>1. /\ Charge /\ Mergeable /\ UNCHANGED settled
        /\ pending' = queue \ Oldest(queue) /\ left' = left \cup Oldest(queue)
    BY <1>5 DEF ApplyLeaves
  <2> HIDE DEF queue
  <2> QED
    BY <1>1, <1>2, <2>1, SameCardinality DEF Queue!Next, Queue!Leave
<1>6. CASE Crash
  BY <1>6 DEF Crash, Queue!Next, Queue!Restart
<1>7. CASE UNCHANGED <<pending, settled, left>>
  BY <1>7 DEF Queue!vars
<1> QED
  BY <1>3, <1>4, <1>5, <1>6, <1>7, AccountSteps

\* The charges of a task go through the queue as the abstract queue has them, whatever the
\* provider counts, settlements do and operators accept.
THEOREM FeedKeepsCharges == Spec => KeepsCharges
<1>1. Init => Queue!Init
  BY DEF Init, Queue!Init
<1>2. TypeOK /\ Reached /\ [Next]_vars => [Queue!Next]_Queue!vars
  BY QueueStep
<1>3. PayInv => TypeOK /\ Reached
  BY DEF PayInv
<1> QED
  BY <1>1, <1>2, <1>3, PayInvariant, PTL DEF Spec, KeepsCharges, Queue!Spec

\* Hence a task settles its windows oldest first.
COROLLARY FeedOldestFirst == Spec => []Queue!OldestFirst
BY FeedKeepsCharges, QueueInOrder, PTL DEF KeepsCharges
=============================================================================
