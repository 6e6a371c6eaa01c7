------------------------------ MODULE MCRepair ------------------------------
(* Instances of ChainRepair for TLC: some node is named by its address, or,  *)
(* as in the configuration files of the repository, none is.                 *)
EXTENDS ChainRepair, TLC

CONSTANTS n1, n2, n3, t1, t2

Named == [n \in Nodes |-> <<"name", n>>]
Addressed == [n \in Nodes |-> <<"address", n>>]
Mixed == [Named EXCEPT ![n2] = Addressed[n2]]
=============================================================================
