------------------------- MODULE MCSessionBoundary -------------------------
(***************************************************************************)
(* Instances of SessionBoundary for TLC: one call of a kind is one model   *)
(* value, and each configuration chooses which kinds are under way.        *)
(***************************************************************************)
EXTENDS SessionBoundary

CONSTANTS p1, r1, m1, c1, l1
=============================================================================
