---------------------------- MODULE Ca3Blocking ----------------------------
(***************************************************************************)
(* Ca3 implements Blocking, as long as no deadline passes and every two    *)
(* nodes have a third one that answers both.                               *)
(***************************************************************************)
EXTENDS Ca3

Items == {<<data, t>> : t \in Txs} \union Parcels

BlockIds == 1 .. Cardinality(Calls) * MaxAttempts

ItemsOf(type, keys) == {type} \X keys

\* A call has claimed its items once it has packed a block of them.
claimedBar ==
  UNION {ItemsOf(job[c].type, job[c].keys) \X {c} : c \in {d \in Calls : Won(d)}}

ledgerBar ==
  [n \in Nodes |->
     UNION {ItemsOf(b.type, b.keys) \X {b.id} : b \in chain[n]}]

B == INSTANCE Blocking WITH claimed <- claimedBar, ledger <- ledgerBar

\* Every behaviour of CA3 is one of the abstract specification: declarations
\* claim exclusively, and blocks record exactly what was claimed, once.
ImplementsBlocking == B!Spec
=============================================================================
