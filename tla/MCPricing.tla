----------------------------- MODULE MCPricing -----------------------------
(* Two bands, and one or two handlers, on one worker thread or on more.    *)
EXTENDS Pricing
CONSTANTS b1, b2, h1, h2
NoSide    == {}
BothSides == Sides
=============================================================================
