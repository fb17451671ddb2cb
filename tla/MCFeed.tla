------------------------------- MODULE MCFeed -------------------------------
(* Windows of two samples, merged in pairs.                                *)
EXTENDS Feed
AllFaults    == FaultKinds
AllOperators == {"accept", "release"}
=============================================================================
