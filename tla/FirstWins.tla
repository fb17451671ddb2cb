------------------------------ MODULE FirstWins -----------------------------
(***************************************************************************)
(* What an idempotent endpoint promises: the first item entered into a     *)
(* slot stands, its replays are answered like the first, other items for   *)
(* the same slot never are.  A restart may forget an item, but none that   *)
(* was answered.                                                           *)
(*                                                                         *)
(* The abstract specification of providerd's reconcile_payment (the slot   *)
(* is the pair of invoice and payment, the item the payload) and           *)
(* confirm_payment (the slot is the key, the item the payment id).         *)
(***************************************************************************)
EXTENDS TLAPS

CONSTANTS Items, Slots, SlotOf, None

VARIABLES
    held,      \* the item that stands in a slot, or None
    answered   \* the items answered 200

Init == held = [s \in Slots |-> None] /\ answered = {}

Enter(x) ==
    /\ held[SlotOf[x]] = None
    /\ held' = [held EXCEPT ![SlotOf[x]] = x]
    /\ UNCHANGED answered

Answer(x) ==
    /\ held[SlotOf[x]] = x
    /\ answered' = answered \cup {x}
    /\ UNCHANGED held

Restart ==
    /\ \E forgotten \in SUBSET (Slots \ {SlotOf[x] : x \in answered}) :
           held' = [s \in Slots |-> IF s \in forgotten THEN None ELSE held[s]]
    /\ UNCHANGED answered

Next == (\E x \in Items : Enter(x) \/ Answer(x)) \/ Restart

Spec == Init /\ [][Next]_<<held, answered>>

-----------------------------------------------------------------------------
\* The inductive invariant: an answered item still stands.
Stands ==
    /\ answered \subseteq Items
    /\ held \in [Slots -> Items \cup {None}]
    /\ \A x \in answered : held[SlotOf[x]] = x

\* Two items answered for one slot are one item.
OneAnswerPerSlot == \A x, y \in answered : SlotOf[x] = SlotOf[y] => x = y

\* The promise keeps a slot from being answered for two items: the abstract
\* content of the duplicate check in reconcile_payment and confirm_payment.
THEOREM FirstStands ==
    ASSUME SlotOf \in [Items -> Slots], None \notin Items
    PROVE  Spec => []OneAnswerPerSlot
<1>1. Init => Stands
  BY DEF Init, Stands
<1>2. Stands /\ [Next]_<<held, answered>> => Stands'
  <2> SUFFICES ASSUME Stands, [Next]_<<held, answered>> PROVE Stands'
    OBVIOUS
  <2>1. CASE \E x \in Items : Enter(x)
    BY <2>1 DEF Enter, Stands
  <2>2. CASE \E x \in Items : Answer(x)
    BY <2>2 DEF Answer, Stands
  <2>3. CASE Restart
    BY <2>3 DEF Restart, Stands
  <2>4. CASE UNCHANGED <<held, answered>>
    BY <2>4 DEF Stands
  <2> QED
    BY <2>1, <2>2, <2>3, <2>4 DEF Next
<1>3. Stands => OneAnswerPerSlot
  BY DEF Stands, OneAnswerPerSlot
<1> QED
  BY <1>1, <1>2, <1>3, PTL DEF Spec
=============================================================================
