----------------------------- MODULE MCStartup -----------------------------
(* Instances of Startup for TLC.  n1 creates a genesis block when it starts, *)
(* and n2 may be told to.                                                    *)
EXTENDS Startup

CONSTANTS n1, n2
=============================================================================
