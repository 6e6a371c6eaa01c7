------------------------------ MODULE MCStore ------------------------------
(* An instance of Store for TLC: two transactions of one tenant and one of   *)
(* another, of sizes that reach the limit, or not, with what stands before.  *)
EXTENDS Store

TenantOfTx == [t \in Txs |-> IF t = 2 THEN "tenant1" ELSE "default"]

Sizes == [t \in Txs |-> IF t = 3 THEN 1 ELSE 2]
=============================================================================
