----------------------------- MODULE MCProvider -----------------------------
(***************************************************************************)
(* Instances of Provider for TLC: three windows, reconcile requests that   *)
(* replay a pair with another payload, share a window, or name no window,  *)
(* and confirm requests that replay a key with another payment id.         *)
(***************************************************************************)
EXTENDS Provider, TLC

CONSTANTS r1, r2, r3, r4, p1, p2, p3, c1, c2, c3, k1, k2, h1, h2

SomeRequests == {r1, r2, r3, r4}
SomePairs    == {p1, p2, p3}
SomeWindows  == 1..3
SomePairOf   == r1 :> p1 @@ r2 :> p1 @@ r3 :> p2 @@ r4 :> p3
SomeWindowsOf == r1 :> {1, 2} @@ r2 :> {1, 3} @@ r3 :> {2, 3} @@ r4 :> {}
SomeConfirms == {c1, c2, c3}
SomeKeys     == {k1, k2}
SomeKeyOf    == c1 :> k1 @@ c2 :> k1 @@ c3 :> k2

CrashOnly    == {"crash"}
IoErrors     == {"io_error"}
=============================================================================
