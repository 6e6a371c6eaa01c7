---------------------------- MODULE PoolDelivery ----------------------------
(***************************************************************************)
(* The life of a transaction from its posting to a block, on every node:   *)
(* the pool on disk (queue_ondisk), its delivery to the other nodes        *)
(* (postDeliveryPool), the blocks made of what is delivered                *)
(* (postAppendBlocks, requestToAddBlock) and the repair of the pool        *)
(* (postScanAndFixPool), all in system/core.ts.                            *)
(*                                                                         *)
(* What a node does between two awaits of the network is one action.  Of   *)
(* createBlock there is what module Ca3 shows of it when its RPCs succeed: *)
(* concurrent calls never claim a transaction twice, a claim lasts until   *)
(* the deadline of the call has passed on all nodes, and every node stores *)
(* the block of a call before the call returns.                            *)
(*                                                                         *)
(* Failing RPCs concern the delivery and the scan only: as in Ca3, runRpcs *)
(* repeats the request and throws in the end.  The event loop catches the  *)
(* exception; the lock of the function stays taken.  The database does not *)
(* fail, and all transactions belong to one tenant.                        *)
(***************************************************************************)
EXTENDS Naturals, FiniteSets

CONSTANTS
  Nodes,      \* the nodes of the network
  Txs,        \* the transactions users will post
  Origin,     \* Origin[t]: the node on which t is posted
  Blocks,     \* the blocks that can be made (a bound)
  MaxLosses,  \* bound: how many RPCs may fail
  MaxScans    \* bound: how many scans may be started

ASSUME ConstantsOK ==
  /\ Origin \in [Txs -> Nodes]
  /\ Blocks \subseteq Nat
  /\ MaxLosses \in Nat
  /\ MaxScans \in Nat

VARIABLES
  posted,    \* the transactions users have posted
  pool,      \* pool[n][t]: absent, or by deliveryF "new" (false), "sent" (true)
  chain,     \* chain[n]: the blocks stored at n
  body,      \* body[b]: the transactions in block b; none before it is made
  claims,    \* blocks whose tracking IDs may still be in some travelingIds
  delivery,  \* delivery[n]: n's run of postDeliveryPool
  append,    \* append[n]: n's run of postAppendBlocks
  scan,      \* scan[n]: n's run of postScanAndFixPool
  losses,    \* RPCs failed so far
  scans      \* scans started so far

vars == <<posted, pool, chain, body, claims, delivery, append, scan, losses,
          scans>>

Others(n) == Nodes \ {n}

\* Each function has a lock in serializationLocks.  It is free in stage "idle";
\* in stage "threw" it is taken although nothing runs.
\* "left" are the nodes whose answer is awaited; "torn": some RPC has failed;
\* "ok": some node has answered with success.
DeliveryRun == [stage : {"idle", "run", "threw"}, txs : SUBSET Txs,
                left : SUBSET Nodes, ok : BOOLEAN, torn : BOOLEAN]
AppendRun == [stage : {"idle", "packed", "travel"}, txs : SUBSET Txs]
\* "have": the ids sent to the other nodes; "got": what these have and n lacks,
\* each with its flag.
ScanRun == [stage : {"idle", "run", "threw"}, have : SUBSET Txs,
            left : SUBSET Nodes, got : SUBSET (Txs \X {"new", "sent"}),
            torn : BOOLEAN]

NoDelivery == [stage |-> "idle", txs |-> {}, left |-> {}, ok |-> FALSE,
               torn |-> FALSE]
NoAppend == [stage |-> "idle", txs |-> {}]
NoScan == [stage |-> "idle", have |-> {}, left |-> {}, got |-> {},
           torn |-> FALSE]

TypeOK ==
  /\ posted \subseteq Txs
  /\ pool \in [Nodes -> [Txs -> {"none", "new", "sent"}]]
  /\ chain \in [Nodes -> SUBSET Blocks]
  /\ body \in [Blocks -> SUBSET Txs]
  /\ claims \subseteq Blocks
  /\ delivery \in [Nodes -> DeliveryRun]
  /\ append \in [Nodes -> AppendRun]
  /\ scan \in [Nodes -> ScanRun]
  /\ losses \in 0 .. MaxLosses
  /\ scans \in 0 .. MaxScans

InPool(n, flag) == {t \in Txs : pool[n][t] = flag}

\* The transactions in the blocks of n's chain
Recorded(n) == UNION {body[b] : b \in chain[n]}

Knows(n, t) == pool[n][t] # "none" \/ t \in Recorded(n)

\* The pool p of a node after operations of the database.  An insertion fails if
\* the _id is there; deletion and update pass over what is not.
PoolAppendToDb(p, txs, flag) ==
  [t \in Txs |-> IF t \in txs /\ p[t] = "none" THEN flag ELSE p[t]]
PoolUpdateFlagsByOid(p, txs) ==
  [t \in Txs |-> IF t \in txs /\ p[t] # "none" THEN "sent" ELSE p[t]]
PoolDeleteByOid(p, txs) == [t \in Txs |-> IF t \in txs THEN "none" ELSE p[t]]

Lose == losses < MaxLosses /\ losses' = losses + 1

\* A request of which only the answer is lost is sent, and served, again.
Answered(yes) == IF yes THEN UNCHANGED losses ELSE Lose

Init ==
  /\ posted = {}
  /\ pool = [n \in Nodes |-> [t \in Txs |-> "none"]]
  /\ chain = [n \in Nodes |-> {}]
  /\ body = [b \in Blocks |-> {}]
  /\ claims = {}
  /\ delivery = [n \in Nodes |-> NoDelivery]
  /\ append = [n \in Nodes |-> NoAppend]
  /\ scan = [n \in Nodes |-> NoScan]
  /\ losses = 0
  /\ scans = 0

\* postByJson: a new transaction gets a fresh oid and waits to be delivered.
Post(t) ==
  /\ t \notin posted
  /\ posted' = posted \union {t}
  /\ pool' = [pool EXCEPT ![Origin[t]] = PoolAppendToDb(@, {t}, "new")]
  /\ UNCHANGED <<chain, body, claims, delivery, append, scan, losses, scans>>

-----------------------------------------------------------------------------
(* Delivery *)

\* Mutant: the snapshot is the one of postAppendBlocks.
StartDeliverySwapped(n) ==
  /\ delivery[n].stage = "idle"
  /\ InPool(n, "new") # {}
  /\ delivery' = [delivery EXCEPT ![n] =
       [NoDelivery EXCEPT !.stage = "run", !.txs = InPool(n, "sent"),
                          !.left = Others(n)]]
  /\ UNCHANGED <<posted, pool, chain, body, claims, append, scan, losses,
                 scans>>

\* postDeliveryPool takes its lock and a snapshot of what is undelivered, and
\* sends AddPool to all other nodes.
StartDelivery(n) ==
  /\ delivery[n].stage = "idle"
  /\ InPool(n, "new") # {}
  /\ delivery' = [delivery EXCEPT ![n] =
       [NoDelivery EXCEPT !.stage = "run", !.txs = InPool(n, "new"),
                          !.left = Others(n)]]
  /\ UNCHANGED <<posted, pool, chain, body, claims, append, scan, losses,
                 scans>>

\* AddPool is also sent when there is nothing to deliver.  Then the run changes
\* nothing, and is not modelled, unless some RPC fails.
DeliverNothing(n) ==
  /\ delivery[n].stage = "idle"
  /\ InPool(n, "new") = {}
  /\ Lose
  /\ delivery' = [delivery EXCEPT ![n].stage = "threw"]
  /\ UNCHANGED <<posted, pool, chain, body, claims, append, scan, scans>>

\* requestToAddPool at m: each transaction is inserted as delivered.  The
\* insertion of one whose _id is in the pool fails, and with it the request,
\* but not the insertion of the others.  The chain is not looked at.
AddPool(n, m, answered) ==
  LET d == delivery[n] IN
  /\ d.stage = "run"
  /\ m \in d.left
  /\ Answered(answered)
  /\ pool' = [pool EXCEPT ![m] = PoolAppendToDb(@, d.txs, "sent")]
  /\ delivery' = [delivery EXCEPT ![n] =
       IF answered THEN [d EXCEPT !.left = @ \ {m},
                                  !.ok = @ \/ \A t \in d.txs : pool[m][t] = "none"]
                   ELSE [d EXCEPT !.torn = TRUE]]
  /\ UNCHANGED <<posted, chain, body, claims, append, scan, scans>>

\* AddPool does not reach m, nor does its repetition.
DeliveryLost(n, m) ==
  /\ delivery[n].stage = "run"
  /\ m \in delivery[n].left
  /\ Lose
  /\ delivery' = [delivery EXCEPT ![n].left = @ \ {m}, ![n].torn = TRUE]
  /\ UNCHANGED <<posted, pool, chain, body, claims, append, scan, scans>>

\* Mutant: nodes that have not answered are passed over.
FinishDeliveryAnyway(n) ==
  LET d == delivery[n] IN
  /\ d.stage = "run"
  /\ d.left = {}
  /\ delivery' = [delivery EXCEPT ![n] = NoDelivery]
  /\ pool' = [pool EXCEPT ![n] =
       IF d.ok THEN PoolUpdateFlagsByOid(@, d.txs) ELSE @]
  /\ UNCHANGED <<posted, chain, body, claims, append, scan, losses, scans>>

\* All nodes have answered.  One success is enough to set the flags of the
\* snapshot; a transaction that has left the pool meanwhile is passed over.
FinishDelivery(n) ==
  LET d == delivery[n] IN
  /\ d.stage = "run"
  /\ d.left = {}
  /\ \/ /\ d.torn
        /\ delivery' = [delivery EXCEPT ![n].stage = "threw"]
        /\ UNCHANGED pool
     \/ /\ ~d.torn
        /\ delivery' = [delivery EXCEPT ![n] = NoDelivery]
        /\ pool' = [pool EXCEPT ![n] =
             IF d.ok THEN PoolUpdateFlagsByOid(@, d.txs) ELSE @]
  /\ UNCHANGED <<posted, chain, body, claims, append, scan, losses, scans>>

-----------------------------------------------------------------------------
(* Blocks *)

\* Mutant: the call is taken for a delivery.
StartAppendRun(n) ==
  /\ append[n].stage = "idle"
  /\ InPool(n, "sent") # {}
  /\ append' = [append EXCEPT ![n] = [stage |-> "run",
                                      txs |-> InPool(n, "sent")]]
  /\ UNCHANGED <<posted, pool, chain, body, claims, delivery, scan, losses,
                 scans>>

\* postAppendBlocks takes its lock and a snapshot of what is delivered; with
\* nothing delivered it returns at once.
StartAppend(n) ==
  /\ append[n].stage = "idle"
  /\ InPool(n, "sent") # {}
  /\ append' = [append EXCEPT ![n] = [stage |-> "packed",
                                      txs |-> InPool(n, "sent")]]
  /\ UNCHANGED <<posted, pool, chain, body, claims, delivery, scan, losses,
                 scans>>

Free(txs) == \A b \in claims : body[b] \intersect txs = {}

\* createBlock gets the consent of all nodes and packs the block; ids of blocks
\* grow with time.
Claim(n, b) ==
  /\ append[n].stage = "packed"
  /\ body[b] = {} /\ \A a \in Blocks : a < b => body[a] # {}
  /\ Free(append[n].txs)
  /\ body' = [body EXCEPT ![b] = append[n].txs]
  /\ claims' = claims \union {b}
  /\ append' = [append EXCEPT ![n].stage = "travel"]
  /\ UNCHANGED <<posted, pool, chain, delivery, scan, losses, scans>>

\* createBlock gives up, as another call has some of the transactions.
Skip(n) ==
  /\ append[n].stage = "packed"
  /\ ~Free(append[n].txs)
  /\ append' = [append EXCEPT ![n] = NoAppend]
  /\ UNCHANGED <<posted, pool, chain, body, claims, delivery, scan, losses,
                 scans>>

\* Mutant: only delivered transactions are deleted from the pool.
StoreBlockDelivered(m, b) ==
  /\ body[b] # {}
  /\ b \notin chain[m]
  /\ chain' = [chain EXCEPT ![m] = @ \union {b}]
  /\ pool' = [pool EXCEPT ![m] =
       PoolDeleteByOid(@, body[b] \intersect InPool(m, "sent"))]
  /\ UNCHANGED <<posted, body, claims, delivery, append, scan, losses, scans>>

\* requestToAddBlock at m, asked by the last signer of b or at that node: the
\* block is inserted, then its transactions are deleted from the pool,
\* delivered or not.
StoreBlock(m, b) ==
  /\ body[b] # {}
  /\ b \notin chain[m]
  /\ chain' = [chain EXCEPT ![m] = @ \union {b}]
  /\ pool' = [pool EXCEPT ![m] = PoolDeleteByOid(@, body[b])]
  /\ UNCHANGED <<posted, body, claims, delivery, append, scan, losses, scans>>

StoredAt(b, nodes) == \A n \in nodes : b \in chain[n]

\* The block is stored everywhere and createBlock returns it.
FinishAppend(n) ==
  /\ append[n].stage = "travel"
  /\ \A b \in claims : body[b] = append[n].txs => StoredAt(b, Nodes)
  /\ append' = [append EXCEPT ![n] = NoAppend]
  /\ UNCHANGED <<posted, pool, chain, body, claims, delivery, scan, losses,
                 scans>>

\* The deadline of a call that has returned passes: its entries are ignored
\* from now on.  A snapshot of the pool is not older than that: only a read of
\* the database lies between it and the declaration.
Expire(b) ==
  /\ b \in claims
  /\ StoredAt(b, Nodes)
  /\ \A n \in Nodes : append[n].txs \intersect body[b] = {}
  /\ claims' = claims \ {b}
  /\ UNCHANGED <<posted, pool, chain, body, delivery, append, scan, losses,
                 scans>>

-----------------------------------------------------------------------------
(* Scan and fix *)

\* Mutant: blocks that are still on their way to n count.
StartScanEarly(n) ==
  /\ scan[n].stage = "idle"
  /\ scans < MaxScans
  /\ scans' = scans + 1
  /\ pool' = [pool EXCEPT ![n] = PoolDeleteByOid(@, UNION {body[b] : b \in Blocks})]
  /\ scan' = [scan EXCEPT ![n] =
       [NoScan EXCEPT !.stage = "run", !.left = Others(n),
                      !.have = {t \in Txs : pool'[n][t] # "none"}]]
  /\ UNCHANGED <<posted, chain, body, claims, delivery, append, losses>>

\* postScanAndFixPool takes its lock, deletes from the pool what is in its own
\* chain, and sends the ids that remain to all other nodes.
StartScan(n) ==
  /\ scan[n].stage = "idle"
  /\ scans < MaxScans
  /\ scans' = scans + 1
  /\ pool' = [pool EXCEPT ![n] = PoolDeleteByOid(@, Recorded(n))]
  /\ scan' = [scan EXCEPT ![n] =
       [NoScan EXCEPT !.stage = "run", !.left = Others(n),
                      !.have = {t \in Txs : pool'[n][t] # "none"}]]
  /\ UNCHANGED <<posted, chain, body, claims, delivery, append, losses>>

\* examinePoolDifference at m: all transactions in its pool, delivered or not,
\* that are not in the list.
ExaminePool(n, m, answered) ==
  LET s == scan[n] IN
  /\ s.stage = "run"
  /\ m \in s.left
  /\ Answered(answered)
  /\ scan' = [scan EXCEPT ![n] =
       IF answered
       THEN [s EXCEPT !.left = @ \ {m},
                      !.got = @ \union {<<t, pool[m][t]>> :
                        t \in {u \in Txs \ s.have : pool[m][u] # "none"}}]
       ELSE [s EXCEPT !.torn = TRUE]]
  /\ UNCHANGED <<posted, pool, chain, body, claims, delivery, append, scans>>

ScanLost(n, m) ==
  /\ scan[n].stage = "run"
  /\ m \in scan[n].left
  /\ Lose
  /\ scan' = [scan EXCEPT ![n].left = @ \ {m}, ![n].torn = TRUE]
  /\ UNCHANGED <<posted, pool, chain, body, claims, delivery, append, scans>>

\* The pool of n with what it got: the first copy of a transaction is inserted
\* with the flag it has; a second copy, or one that has arrived otherwise,
\* fails, and the function then reports an error.
Repaired(n, new) ==
  \A t \in Txs :
    IF pool[n][t] = "none" /\ \E f \in {"new", "sent"} : <<t, f>> \in scan[n].got
    THEN <<t, new[t]>> \in scan[n].got
    ELSE new[t] = pool[n][t]

FinishScan(n) ==
  /\ scan[n].stage = "run"
  /\ scan[n].left = {}
  /\ \/ /\ scan[n].torn
        /\ scan' = [scan EXCEPT ![n].stage = "threw"]
        /\ UNCHANGED pool
     \/ /\ ~scan[n].torn
        /\ scan' = [scan EXCEPT ![n] = NoScan]
        /\ \E new \in [Txs -> {"none", "new", "sent"}] :
             /\ Repaired(n, new)
             /\ pool' = [pool EXCEPT ![n] = new]
  /\ UNCHANGED <<posted, chain, body, claims, delivery, append, losses, scans>>

-----------------------------------------------------------------------------
Next ==
  \/ \E t \in Txs : Post(t)
  \/ \E n \in Nodes :
       \/ StartDelivery(n) \/ DeliverNothing(n) \/ FinishDelivery(n)
       \/ StartAppend(n) \/ Skip(n) \/ FinishAppend(n)
       \/ StartScan(n) \/ FinishScan(n)
       \/ \E m \in Nodes :
            \/ \E answered \in BOOLEAN : \/ AddPool(n, m, answered)
                                         \/ ExaminePool(n, m, answered)
            \/ DeliveryLost(n, m) \/ ScanLost(n, m)
       \/ \E b \in Blocks : Claim(n, b) \/ StoreBlock(n, b)
  \/ \E b \in Blocks : Expire(b)

Spec == Init /\ [][Next]_vars

\* The event loop runs every function again and again, and what has begun goes
\* on: requests are served, blocks stored, deadlines pass.  Users, failures and
\* scans promise nothing; a scan that has begun goes on.
Fairness ==
  /\ \A n \in Nodes :
       /\ WF_vars(StartDelivery(n))
       /\ WF_vars(FinishDelivery(n))
       /\ WF_vars(StartAppend(n))
       /\ WF_vars(Skip(n))
       /\ WF_vars(FinishAppend(n))
       /\ WF_vars(FinishScan(n))
       /\ WF_vars(\E b \in Blocks : Claim(n, b))
       /\ \A m \in Nodes : /\ WF_vars(AddPool(n, m, TRUE))
                           /\ WF_vars(ExaminePool(n, m, TRUE))
       /\ \A b \in Blocks : WF_vars(StoreBlock(n, b))
  /\ \A b \in Blocks : WF_vars(Expire(b))

FairSpec == Spec /\ Fairness

-----------------------------------------------------------------------------
(* Properties *)

\* A posted transaction is never lost: the node of its user has it, in the
\* pool until it is in the chain.
NeverLost == \A t \in posted : Knows(Origin[t], t)

\* The flag deliveryF, which one successful node out of all is enough to set,
\* can be relied on: if the node of the user has set it, and until the block
\* comes, every node has the transaction.
FlagMeansKnown ==
  \A t \in Txs :
    (pool[Origin[t]][t] = "sent" /\ t \notin Recorded(Origin[t]))
      => \A m \in Nodes : Knows(m, t)

\* No chain has a transaction in two blocks.
BlockedOnce ==
  \A n \in Nodes : \A a, b \in chain[n] : a # b => body[a] \intersect body[b] = {}

\* Every node has what is in a block, as "the group of data common to each node
\* refers only to data already propagated" promises.
BlocksPropagated ==
  \A b \in Blocks : \A t \in body[b], n \in Nodes : Knows(n, t)

Undisturbed == losses = 0 /\ scans = 0

\* If the promise is kept, and neither failures nor scans interfere, then no
\* transaction comes into two blocks: nothing puts it back in a pool.
BlockedOnceIfPropagated == [](Undisturbed /\ BlocksPropagated) => []BlockedOnce

\* Every posted transaction is blocked on all nodes in the end.
EventuallyBlocked ==
  \A t \in Txs : t \in posted ~> \A n \in Nodes : t \in Recorded(n)

\* It is if neither failures nor scans interfere.
EventuallyBlockedUndisturbed == []Undisturbed => EventuallyBlocked
=============================================================================
