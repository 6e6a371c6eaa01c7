---------------------------- MODULE MCInternode -----------------------------
(* Instances of Internode for TLC: one node, asked by two concurrent runs.   *)
EXTENDS Internode, TLC

CONSTANTS p1, p2, r1, r2
=============================================================================
