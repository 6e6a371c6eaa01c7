------------------------------ MODULE MCSystem ------------------------------
(* An instance of SystemLoop for TLC. *)
EXTENDS SystemLoop, TLC
=============================================================================
