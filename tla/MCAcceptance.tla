---------------------------- MODULE MCAcceptance ----------------------------
(* One request with a key beside the loop and the operators.               *)
EXTENDS Acceptance, TLC
CONSTANTS q1, k1
SomeRequests == {q1}
SomeKeys == {k1}
SomeKeyOf == q1 :> k1
AllFaults == FaultKinds
AllRequests == OperatorKinds
=============================================================================
