------------------------------- MODULE MCPool -------------------------------
(* Instances of PoolDelivery for TLC: every transaction is posted on the     *)
(* first node.                                                               *)
EXTENDS PoolDelivery, TLC

CONSTANTS n1, n2, n3, t1

OneUser == [t \in Txs |-> n1]
=============================================================================
