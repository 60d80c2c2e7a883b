----------------------------- MODULE MCHandOver ------------------------------
(* Two tabs that differ in nothing but what they do, for TLC.              *)
EXTENDS HandOver, TLC

CONSTANTS t1, t2

TabSymmetry == Permutations(Tabs)
=============================================================================
