------------------------------ MODULE Queries ------------------------------
(***************************************************************************)
(* One node as its users and its administrator see it: what is posted, the *)
(* reads over the pool and the chain (main/core.ts), between whose halves  *)
(* transactions go from the pool into blocks, and the opening and closing  *)
(* of parcels, the spaces of tenants, with the list of active parcels      *)
(* (system/core.ts), which is refreshed by calls that nobody waits for.    *)
(*                                                                         *)
(* The pool is on disk.  A cursor holds what the database had when it was  *)
(* asked.  Transactions are numbered by their _id, in the order in which   *)
(* they are posted: the clocks of the nodes agree.  A transaction may name *)
(* an earlier one as its prev_id, of any tenant.  Which node posts it, and *)
(* which one makes a block, does not matter here.  The options that limit  *)
(* the size of an answer or leave out a half of it are not modelled.       *)
(***************************************************************************)
EXTENDS Naturals, FiniteSets, Sequences, SequencesExt

CONSTANTS
  Default,   \* default_tenant_id
  Parcels,   \* the ids that new parcels get
  Scopes,    \* whose transactions are read: those of one tenant, or of all
  MaxTxs,    \* bound: transactions
  MaxOps,    \* bound: calls that open or close a parcel at this node
  MaxFaults  \* bound: failing calls and restarts

Tenants == Parcels \union {Default}

ASSUME ConstantsOK ==
  /\ Default \notin Parcels
  /\ Scopes \subseteq {{tenant} : tenant \in Tenants} \union {Tenants}
  /\ MaxTxs \in Nat /\ MaxOps \in Nat /\ MaxFaults \in Nat

VARIABLES
  txs,     \* txs[t]: the transaction t
  pool,    \* the transactions in the pool
  chain,   \* the blocks
  read,    \* a read over both
  op,      \* op[k]: the k-th call of postOpenParcel or postCloseParcel
  active,  \* activeTenants
  faults   \* faults so far

vars == <<txs, pool, chain, read, op, active, faults>>

Ids == 1 .. Len(txs)

\* prev 0: there is no prev_id.
Tx == [tenant : Tenants, prev : 0 .. MaxTxs]
Block == [type : {"data", "parcel_open", "parcel_close"}, tenant : Tenants,
          data : SUBSET Ids]

Opened == {b.tenant : b \in {c \in chain : c.type = "parcel_open"}}
Closed == {b.tenant : b \in {c \in chain : c.type = "parcel_close"}}
Blocked == UNION {b.data : b \in chain}

\* "tenants": the tenant who asks, or all of them for the administration_id;
\* "owed": what the node had when the read began.
Read == [stage : {"idle", "pool", "blocks"}, tenants : SUBSET Tenants,
         pool : SUBSET Ids, blocks : SUBSET Block, owed : SUBSET Ids]
NoRead == [stage |-> "idle", tenants |-> {}, pool |-> {}, blocks |-> {}, owed |-> {}]

\* "stored": createBlock has not returned yet; "closes", "opens", "assign":
\* refreshParcelList runs; "failed": nothing more comes of the call.
Op == [stage : {"unused", "stored", "closes", "opens", "assign", "done", "failed"},
       type : {"parcel_open", "parcel_close"}, tenant : Tenants, list : SUBSET Parcels]
NoOp == [stage |-> "unused", type |-> "parcel_open", tenant |-> Default, list |-> {}]

Refreshing == {k \in 1 .. MaxOps : op[k].stage \in {"closes", "opens", "assign"}}

TypeOK ==
  /\ txs \in Seq(Tx) /\ Len(txs) <= MaxTxs
  /\ \A t \in Ids : txs[t].prev < t
  /\ pool \subseteq Ids
  /\ chain \subseteq Block
  /\ \A b \in chain : \A t \in b.data : txs[t].tenant = b.tenant
  /\ \A b, c \in chain : b # c => b.data \intersect c.data = {}
  /\ read \in Read
  /\ op \in [1 .. MaxOps -> Op]
  /\ active \subseteq Opened
  /\ faults \in 0 .. MaxFaults

Init ==
  /\ txs = <<>> /\ pool = {} /\ chain = {}
  /\ read = NoRead
  /\ op = [k \in 1 .. MaxOps |-> NoOp]
  /\ active = {}
  /\ faults = 0

Fault == faults < MaxFaults /\ faults' = faults + 1

-----------------------------------------------------------------------------
(* Transactions *)

\* postByJson, or requestToAddPool of what was posted at another node.  That a parcel
\* is not active is found out, and changes nothing.
Post(tenant, prev) ==
  /\ Len(txs) < MaxTxs
  /\ txs' = Append(txs, [tenant |-> tenant, prev |-> prev])
  /\ pool' = pool \union {Len(txs) + 1}
  /\ UNCHANGED <<chain, read, op, active, faults>>

\* Mutant: transactions of several tenants go into one block.
OfAnyone(tenant) == pool \ Blocked
OfTenant(tenant) == {t \in pool \ Blocked : txs[t].tenant = tenant}

\* requestToAddBlock inserts a block,
AddBlock(tenant, data) ==
  /\ data # {} /\ data \subseteq OfTenant(tenant)
  /\ chain' = chain \union {[type |-> "data", tenant |-> tenant, data |-> data]}
  /\ UNCHANGED <<txs, pool, read, op, active, faults>>

\* and then removes its transactions from the pool.
RemoveFromPool(b) ==
  /\ b.data \intersect pool # {}
  /\ pool' = pool \ b.data
  /\ UNCHANGED <<txs, chain, read, op, active, faults>>

-----------------------------------------------------------------------------
(* Reads *)

PoolCursor(tenants) == {t \in pool : txs[t].tenant \in tenants}
BlockCursor(tenants) == {b \in chain : b.tenant \in tenants}

\* Mutant: the chain is read first.
BlocksFirst(tenants) ==
  [stage |-> "pool", tenants |-> tenants, pool |-> {}, blocks |-> BlockCursor(tenants),
   owed |-> PoolCursor(tenants) \union UNION {b.data : b \in BlockCursor(tenants)}]
PoolFirst(tenants) ==
  [stage |-> "pool", tenants |-> tenants, pool |-> PoolCursor(tenants), blocks |-> {},
   owed |-> PoolCursor(tenants) \union UNION {b.data : b \in BlockCursor(tenants)}]

\* Every read over both asks for the pool first,
StartRead(tenants) ==
  /\ read.stage = "idle"
  /\ read' = PoolFirst(tenants)
  /\ UNCHANGED <<txs, pool, chain, op, active, faults>>

\* and then for the blocks.
ReadBlocks ==
  /\ read.stage = "pool"
  /\ read' = [read EXCEPT !.stage = "blocks", !.blocks = BlockCursor(read.tenants)]
  /\ UNCHANGED <<txs, pool, chain, op, active, faults>>

EndRead ==
  /\ read.stage = "blocks"
  /\ read' = NoRead
  /\ UNCHANGED <<txs, pool, chain, op, active, faults>>

\* The answers when both halves are there.  getAll: the transactions of both; one that
\* has gone from the pool into a block between the halves, or is not yet removed from
\* the pool, is there twice.
InBlocks == UNION {b.data : b \in read.blocks}

\* A cursor gives everything it holds, one after the other.
Entries(cursor) == SetToSeq(cursor)
All == Entries(read.pool) \o Entries(InBlocks)

\* getSearchByJson for prev_id (with "whole"), first over the one cursor and then over
\* the other
Matches(t, id) == txs[t].prev = id
ByJson(id) == Entries({t \in read.pool : Matches(t, id)})
                \o Entries({t \in InBlocks : Matches(t, id)})

\* getSearchByOid, 0 for undefined: it passes over the transactions of the blocks,
\* as it looks for them at a wrong place.
ByOid(id) == IF id \in read.pool THEN id ELSE 0

\* getTransactionHeight: those in the pool, and the entries of every block
Height == Cardinality(read.pool)
            + Cardinality({e \in read.blocks \X Ids : e[2] \in e[1].data})

\* Mutant: the walk ends at a transaction it does not look for.
FollowFound(walk, t) ==
  IF ~walk.on THEN walk
  ELSE [on |-> t = walk.target /\ txs[t].prev # 0,
        target |-> IF txs[t].prev # 0 THEN txs[t].prev ELSE walk.target,
        found |-> IF t = walk.target THEN Append(walk.found, t) ELSE walk.found]

\* findEntryRecursive at one transaction: whether it was looked for or not, the next
\* one to look for is the one it names.
Follow(walk, t) ==
  IF ~walk.on THEN walk
  ELSE [on |-> txs[t].prev # 0,
        target |-> IF txs[t].prev # 0 THEN txs[t].prev ELSE walk.target,
        found |-> IF t = walk.target THEN Append(walk.found, t) ELSE walk.found]

\* One that both halves hold is there twice.
Passed(walk, t) ==
  LET once == IF t \in read.pool THEN Follow(walk, t) ELSE walk
  IN  IF t \in InBlocks THEN Follow(once, t) ELSE once

\* getHistoryByOid: a walk over all transactions, sorted with the newest first
History(id) ==
  LET walk[k \in 0 .. Len(txs)] ==
        IF k = 0 THEN [on |-> TRUE, target |-> id, found |-> <<>>]
                 ELSE Passed(walk[k - 1], Len(txs) + 1 - k)
  IN  walk[Len(txs)].found

-----------------------------------------------------------------------------
(* Parcels *)

Unused(k) == op[k].stage = "unused" /\ \A j \in 1 .. k - 1 : op[j].stage # "unused"

\* The block of a parcel is inserted: its opening holds a transaction of its own.
Insert(type, p) ==
  IF type = "parcel_open"
  THEN /\ p \notin Opened /\ Len(txs) < MaxTxs
       /\ txs' = Append(txs, [tenant |-> p, prev |-> 0])
       /\ chain' = chain \union {[type |-> type, tenant |-> p, data |-> {Len(txs) + 1}]}
  ELSE /\ p \in Opened
       /\ chain' = chain \union {[type |-> type, tenant |-> p, data |-> {}]}
       /\ UNCHANGED txs

\* postOpenParcel, with a new id, or postCloseParcel, which only looks whether the
\* parcel has been opened, comes to the insertion of its block.  A second closing at
\* the same time is refused by createBlock, a later one is not.
StoreParcel(k, type, p) ==
  /\ Unused(k)
  /\ \A j \in 1 .. MaxOps : op[j].stage = "stored" => op[j].tenant # p
  /\ Insert(type, p)
  /\ op' = [op EXCEPT ![k] = [stage |-> "stored", type |-> type, tenant |-> p, list |-> {}]]
  /\ UNCHANGED <<pool, read, active, faults>>

\* The same at another node, whose block comes here
StoreOthers(type, p) ==
  /\ Insert(type, p)
  /\ UNCHANGED <<pool, read, op, active, faults>>

\* createBlock returns the block: the call answers, and does not wait for the refresh.
EndParcel(k) ==
  /\ op[k].stage = "stored"
  /\ op' = [op EXCEPT ![k].stage = "closes"]
  /\ UNCHANGED <<txs, pool, chain, read, active, faults>>

\* It fails all the same, after the deadline.
FailParcel(k) ==
  /\ op[k].stage = "stored"
  /\ Fault
  /\ op' = [op EXCEPT ![k].stage = "failed"]
  /\ UNCHANGED <<txs, pool, chain, read, active>>

\* refreshParcelList asks for the closed parcels,
ReadCloses(k) ==
  /\ op[k].stage = "closes"
  /\ op' = [op EXCEPT ![k].stage = "opens", ![k].list = Closed]
  /\ UNCHANGED <<txs, pool, chain, read, active, faults>>

\* Mutant: those that have been closed are not left out.
ListedAll(closed) == Opened
Listed(closed) == Opened \ closed

\* then for the opened ones,
ReadOpens(k) ==
  /\ op[k].stage = "opens"
  /\ op' = [op EXCEPT ![k].stage = "assign", ![k].list = Listed(op[k].list)]
  /\ UNCHANGED <<txs, pool, chain, read, active, faults>>

\* and replaces the list.
Assign(k) ==
  /\ op[k].stage = "assign"
  /\ active' = op[k].list
  /\ op' = [op EXCEPT ![k].stage = "done", ![k].list = {}]
  /\ UNCHANGED <<txs, pool, chain, read, faults>>

\* The calls under way have to do with an instance of the system module that is gone.
Forsaken ==
  [k \in 1 .. MaxOps |-> IF op[k].stage \in {"unused", "done"} THEN op[k]
                         ELSE [op[k] EXCEPT !.stage = "failed", !.list = {}]]

\* The watchdog restarts the system module.
RestartSystem ==
  /\ Fault
  /\ active' = {}
  /\ op' = Forsaken
  /\ UNCHANGED <<txs, pool, chain, read>>

\* The node starts again, and waits for a refresh.
RestartNode ==
  /\ Fault
  /\ active' = Listed(Closed)
  /\ op' = Forsaken
  /\ read' = NoRead
  /\ UNCHANGED <<txs, pool, chain>>

-----------------------------------------------------------------------------
Next ==
  \/ \E tenant \in Opened \union {Default}, prev \in {0} \union Ids : Post(tenant, prev)
  \/ \E tenant \in Tenants : \E data \in SUBSET pool : AddBlock(tenant, data)
  \/ \E b \in chain : RemoveFromPool(b)
  \/ \E tenants \in Scopes : StartRead(tenants)
  \/ ReadBlocks \/ EndRead
  \/ \E type \in {"parcel_open", "parcel_close"}, p \in Parcels :
       \/ \E k \in 1 .. MaxOps : StoreParcel(k, type, p)
       \/ StoreOthers(type, p)
  \/ \E k \in 1 .. MaxOps :
       EndParcel(k) \/ FailParcel(k) \/ ReadCloses(k) \/ ReadOpens(k) \/ Assign(k)
  \/ RestartSystem \/ RestartNode

\* What createBlock and the database are asked for, they answer.
Fairness ==
  \A k \in 1 .. MaxOps :
    WF_vars(EndParcel(k) \/ ReadCloses(k) \/ ReadOpens(k) \/ Assign(k))

Spec == Init /\ [][Next]_vars /\ Fairness

(***************************************************************************)
(* Properties                                                              *)
(***************************************************************************)
Answered == read.stage = "blocks"

\* No read misses anything that the node had when it began, although transactions go
\* from the pool into the chain between its halves: not getAll, not the search by
\* JSON, not the number of transactions.  The search by oid misses what is blocked,
\* and nothing else.
ReadsMissNothing ==
  Answered =>
    /\ read.owed \subseteq ToSet(All)
    /\ \A id \in Ids : {t \in read.owed : Matches(t, id)} \subseteq ToSet(ByJson(id))
    /\ Cardinality(read.owed) <= Height
    /\ \A t \in read.owed \ InBlocks : ByOid(t) = t

\* The transactions a history should have: the one asked for and, by prev_id, all
\* before it
Lineage(id) ==
  LET line[t \in {0} \union Ids] == IF t = 0 THEN <<>> ELSE <<t>> \o line[txs[t].prev]
  IN  line[id]

\* The history of the newest transaction is right, each one once, when nothing else
\* was posted since the first one of its line, whether the transactions are in the
\* pool, in the chain or, while they move, in both.  (For others it is not: the walk
\* follows the prev_id of whatever it comes to.)
HistoryFollows ==
  Answered =>
    LET there == read.pool \union InBlocks
    IN  \A t \in there :
          ToSet(Lineage(t)) = {u \in there : Last(Lineage(t)) <= u} => History(t) = Lineage(t)

\* What the administrator does to a parcel reaches the list of active parcels and is
\* not undone, although nobody waits for the refresh, unless two refreshes run at the
\* same time, which may replace the list in a wrong order, or something fails.
Calm == Cardinality(Refreshing) <= 1 /\ faults = 0
InEffect(k) ==
  IF op[k].type = "parcel_close" THEN op[k].tenant \notin active
                                 ELSE op[k].tenant \in active \union Closed
ListFollows ==
  []Calm => \A k \in 1 .. MaxOps : op[k].stage = "stored" ~> []InEffect(k)
=============================================================================
