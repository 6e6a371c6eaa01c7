------------------------------ MODULE Blocking ------------------------------
(***************************************************************************)
(* What the nodes promise together, without how: everything that can be    *)
(* put in a block, a transaction or the opening or closing of a parcel, is *)
(* claimed by at most one call of createBlock; only what is claimed is     *)
(* recorded; and no node records anything twice.                           *)
(***************************************************************************)
CONSTANTS Nodes, Items, Calls, BlockIds

VARIABLES
  claimed,   \* pairs <<item, call>>
  ledger     \* ledger[n]: pairs <<item, block>> recorded at n

Claim(c, items) ==
  /\ \A i \in items, d \in Calls : <<i, d>> \notin claimed
  /\ claimed' = claimed \union (items \X {c})
  /\ UNCHANGED ledger

\* Node n records, in block b, all that call c has claimed.
Record(n, c, b) ==
  LET items == {i \in Items : <<i, c>> \in claimed} IN
  /\ items # {}
  /\ \A i \in items, a \in BlockIds : <<i, a>> \notin ledger[n]
  /\ ledger' = [ledger EXCEPT ![n] = @ \union (items \X {b})]
  /\ UNCHANGED claimed

Init ==
  /\ claimed = {}
  /\ ledger = [n \in Nodes |-> {}]

Next ==
  \/ \E c \in Calls, items \in SUBSET Items : Claim(c, items)
  \/ \E n \in Nodes, c \in Calls, b \in BlockIds : Record(n, c, b)

Spec == Init /\ [][Next]_<<claimed, ledger>>
=============================================================================
