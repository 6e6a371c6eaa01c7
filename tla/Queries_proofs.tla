-------------------------- MODULE Queries_proofs --------------------------
(***************************************************************************)
(* Theorems about Queries, for any parcels, scopes and bounds: what the    *)
(* blocks and the list of active parcels hold, what the reads over pool    *)
(* and chain answer, and what a walk along the prev_ids finds.             *)
(***************************************************************************)
EXTENDS Queries, FiniteSetTheorems, NaturalsInduction, SequenceTheorems, TLAPS

-----------------------------------------------------------------------------
(* Types *)

\* TypeOK is not inductive alone: the list of active parcels is replaced by a list
\* made before, of parcels that have been opened.
ParcelsOK ==
  /\ \A b \in chain : b.type # "data" => b.tenant \in Parcels
  /\ \A k \in 1 .. MaxOps : op[k].stage = "assign" => op[k].list \subseteq Opened

TypeInv == TypeOK /\ ParcelsOK

LEMMA TypeInit == Init => TypeInv
<1> SUFFICES ASSUME Init PROVE TypeInv
  OBVIOUS
<1>1. txs \in Seq(Tx) /\ Len(txs) = 0 /\ Ids = {}
  BY DEF Init, Ids
<1>2. NoOp \in Op /\ NoOp.stage # "assign"
  BY DEF NoOp, Op, Tenants
<1>3. NoRead \in Read
  BY DEF NoRead, Read
<1> QED
  BY <1>1, <1>2, <1>3, ConstantsOK DEF Init, TypeInv, TypeOK, ParcelsOK

\* A transaction gets the next number.
LEMMA TxAppended ==
  ASSUME TypeOK, Len(txs) < MaxTxs, NEW tenant \in Tenants, NEW p \in {0} \union Ids,
         txs' = Append(txs, [tenant |-> tenant, prev |-> p])
  PROVE  /\ txs' \in Seq(Tx) /\ Len(txs') <= MaxTxs
         /\ Ids' = Ids \union {Len(txs) + 1} /\ Len(txs) + 1 \notin Ids
         /\ \A t \in Ids : txs'[t] = txs[t]
         /\ \A t \in Ids' : txs'[t].prev < t
         /\ txs'[Len(txs) + 1].tenant = tenant
<1> DEFINE x == [tenant |-> tenant, prev |-> p]
           n == Len(txs)
<1>1. txs \in Seq(Tx) /\ n \in Nat /\ MaxTxs \in Nat
  BY ConstantsOK, LenProperties DEF TypeOK
<1>2. p \in 0 .. n /\ x \in Tx
  BY <1>1 DEF Ids, Tx
<1> HIDE DEF x
<1>3. /\ txs' \in Seq(Tx) /\ Len(txs') = n + 1 /\ txs'[n + 1] = x
      /\ \A t \in 1 .. n : txs'[t] = txs[t]
  BY <1>1, <1>2, AppendProperties DEF x
<1>4. x.tenant = tenant /\ x.prev = p
  BY DEF x
<1>5. Ids' = Ids \union {n + 1} /\ n + 1 \notin Ids
  BY <1>1, <1>3 DEF Ids
<1>6. \A t \in Ids : txs[t].prev < t
  BY DEF TypeOK
<1>7. \A t \in Ids' : txs'[t].prev < t
  BY <1>1, <1>2, <1>3, <1>4, <1>5, <1>6 DEF Ids
<1> QED
  BY <1>1, <1>3, <1>4, <1>5, <1>7 DEF Ids

\* What is of the type of a block, or of a read, stays so when there are more
\* transactions.
LEMMA IdsGrow ==
  ASSUME Ids \subseteq Ids'
  PROVE  Block \subseteq Block' /\ Read \subseteq Read'
BY DEF Block, Read

\* The types of the chain when a block is added.
LEMMA ChainGrows ==
  ASSUME TypeOK, Ids \subseteq Ids', \A t \in Ids : txs'[t] = txs[t],
         NEW new \in Block', chain' = chain \union {new},
         \A t \in new.data : txs'[t].tenant = new.tenant,
         new.data \intersect Blocked = {}
  PROVE  /\ chain' \subseteq Block'
         /\ \A b \in chain' : \A t \in b.data : txs'[t].tenant = b.tenant
         /\ \A b, c \in chain' : b # c => b.data \intersect c.data = {}
<1>1. chain' \subseteq Block'
  BY IdsGrow DEF TypeOK
<1>2. \A b \in chain : b.data \subseteq Ids /\ \A t \in b.data : txs'[t].tenant = b.tenant
  BY DEF TypeOK, Block
<1>3. \A b \in chain : b.data \intersect new.data = {}
  BY DEF Blocked
<1> QED
  BY <1>1, <1>2, <1>3 DEF TypeOK

LEMMA OpenedGrows ==
  ASSUME chain \subseteq chain'
  PROVE  Opened \subseteq Opened'
BY DEF Opened

LEMMA OpenedAreParcels ==
  ASSUME TypeInv
  PROVE  Opened \subseteq Parcels /\ Closed \subseteq Parcels
BY DEF TypeInv, ParcelsOK, Opened, Closed

LEMMA TypeInsert ==
  ASSUME TypeInv, NEW type \in {"parcel_open", "parcel_close"}, NEW p \in Parcels,
         Insert(type, p)
  PROVE  /\ txs' \in Seq(Tx) /\ Len(txs') <= MaxTxs
         /\ \A t \in Ids' : txs'[t].prev < t
         /\ Ids \subseteq Ids' /\ chain \subseteq chain'
         /\ chain' \subseteq Block'
         /\ \A b \in chain' : \A t \in b.data : txs'[t].tenant = b.tenant
         /\ \A b, c \in chain' : b # c => b.data \intersect c.data = {}
         /\ \A b \in chain' : b.type # "data" => b.tenant \in Parcels
<1>0. p \in Tenants /\ TypeOK /\ Blocked \subseteq Ids
  BY DEF Tenants, TypeInv, TypeOK, Blocked, Block
<1>1. CASE type = "parcel_open"
  <2> DEFINE new == [type |-> type, tenant |-> p, data |-> {Len(txs) + 1}]
  <2>1. /\ Len(txs) < MaxTxs
        /\ txs' = Append(txs, [tenant |-> p, prev |-> 0])
        /\ chain' = chain \union {new}
    BY <1>1 DEF Insert
  <2>2. /\ txs' \in Seq(Tx) /\ Len(txs') <= MaxTxs
        /\ Ids' = Ids \union {Len(txs) + 1} /\ Len(txs) + 1 \notin Ids
        /\ \A t \in Ids : txs'[t] = txs[t]
        /\ \A t \in Ids' : txs'[t].prev < t
        /\ txs'[Len(txs) + 1].tenant = p
    BY <1>0, <2>1, TxAppended
  <2>3. /\ new \in Block' /\ new.tenant = p /\ new.data = {Len(txs) + 1}
    BY <1>0, <2>2 DEF Block
  <2> HIDE DEF new
  <2>4. new.data \intersect Blocked = {}
    BY <1>0, <2>2, <2>3
  <2> QED
    BY <1>0, <2>1, <2>2, <2>3, <2>4, ChainGrows DEF TypeInv, ParcelsOK
<1>2. CASE type = "parcel_close"
  <2> DEFINE new == [type |-> type, tenant |-> p, data |-> {}]
  <2>1. txs' = txs /\ chain' = chain \union {new}
    BY <1>2 DEF Insert
  <2>2. Ids' = Ids /\ new \in Block' /\ new.tenant = p /\ new.data = {}
    BY <1>0, <2>1 DEF Block, Ids
  <2> HIDE DEF new
  <2> QED
    BY <1>0, <2>1, <2>2, ChainGrows DEF TypeInv, TypeOK, ParcelsOK
<1> QED
  BY <1>1, <1>2

\* Steps of a call that opens or closes a parcel, and of what follows it.
LEMMA TypeOp ==
  ASSUME TypeInv, NEW k \in 1 .. MaxOps,
         EndParcel(k) \/ FailParcel(k) \/ ReadCloses(k) \/ ReadOpens(k) \/ Assign(k)
  PROVE  TypeInv'
<1>0. /\ op \in [1 .. MaxOps -> Op] /\ op[k] \in Op
      /\ Opened \subseteq Parcels /\ Closed \subseteq Parcels
      /\ MaxFaults \in Nat /\ faults \in 0 .. MaxFaults
  BY OpenedAreParcels, ConstantsOK DEF TypeInv, TypeOK
<1>1. UNCHANGED <<txs, pool, chain, read>>
  BY DEF EndParcel, FailParcel, ReadCloses, ReadOpens, Assign
<1>2. Opened' = Opened /\ Ids' = Ids
  BY <1>1 DEF Opened, Ids
<1>3. faults' \in 0 .. MaxFaults
  BY <1>0 DEF EndParcel, FailParcel, ReadCloses, ReadOpens, Assign, Fault
<1> DEFINE Good == /\ op' \in [1 .. MaxOps -> Op]
                   /\ \A j \in 1 .. MaxOps :
                        op'[j].stage = "assign" => op'[j].list \subseteq Opened
<1>4. Good
  <2>1. ASSUME NEW st \in {"closes", "failed"}, op' = [op EXCEPT ![k].stage = st]
        PROVE  Good
    <3>1. [op[k] EXCEPT !.stage = st] \in Op
      BY <1>0 DEF Op
    <3>2. op'[k].stage = st /\ op'[k] \in Op
      BY <1>0, <2>1, <3>1 DEF Op
    <3> QED
      BY <1>0, <2>1, <3>2 DEF TypeInv, ParcelsOK
  <2>2. ASSUME NEW st \in {"opens", "assign", "done"}, NEW list \in SUBSET Parcels,
               st = "assign" => list \subseteq Opened,
               op' = [op EXCEPT ![k].stage = st, ![k].list = list]
        PROVE  Good
    <3> DEFINE o == [op[k] EXCEPT !.stage = st, !.list = list]
    <3>1. o \in Op /\ o.stage = st /\ o.list = list
      BY <1>0 DEF Op
    <3>2. op' = [op EXCEPT ![k] = o]
      BY <2>2
    <3> HIDE DEF o
    <3> QED
      BY <1>0, <2>2, <3>1, <3>2 DEF TypeInv, ParcelsOK
  <2>3. CASE EndParcel(k) \/ FailParcel(k)
    BY <2>1, <2>3 DEF EndParcel, FailParcel
  <2> HIDE DEF Good
  <2>4. CASE ReadCloses(k)
    BY <1>0, <2>2, <2>4 DEF ReadCloses
  <2>5. CASE ReadOpens(k)
    <3>1. Listed(op[k].list) \subseteq Opened /\ Listed(op[k].list) \in SUBSET Parcels
      BY <1>0 DEF Listed
    <3> QED
      BY <2>2, <2>5, <3>1 DEF ReadOpens
  <2>6. CASE Assign(k)
    <3> DEFINE none == {}
    <3>1. none \in SUBSET Parcels /\ op' = [op EXCEPT ![k].stage = "done", ![k].list = none]
      BY <2>6 DEF Assign
    <3> HIDE DEF none
    <3> QED
      BY <2>2, <3>1
  <2> QED
    BY <2>3, <2>4, <2>5, <2>6
<1>5. active' \subseteq Opened
  BY DEF EndParcel, FailParcel, ReadCloses, ReadOpens, Assign, TypeInv, TypeOK, ParcelsOK
<1> QED
  BY <1>1, <1>2, <1>3, <1>4, <1>5 DEF TypeInv, TypeOK, ParcelsOK, Block, Read

LEMMA TypeParcel ==
  ASSUME TypeInv, NEW type \in {"parcel_open", "parcel_close"}, NEW p \in Parcels,
         StoreOthers(type, p) \/ \E k \in 1 .. MaxOps : StoreParcel(k, type, p)
  PROVE  TypeInv'
<1>0. Insert(type, p) /\ UNCHANGED <<pool, read, active, faults>>
  BY DEF StoreOthers, StoreParcel
<1>1. /\ txs' \in Seq(Tx) /\ Len(txs') <= MaxTxs
      /\ \A t \in Ids' : txs'[t].prev < t
      /\ Ids \subseteq Ids' /\ chain \subseteq chain'
      /\ chain' \subseteq Block'
      /\ \A b \in chain' : \A t \in b.data : txs'[t].tenant = b.tenant
      /\ \A b, c \in chain' : b # c => b.data \intersect c.data = {}
      /\ \A b \in chain' : b.type # "data" => b.tenant \in Parcels
  BY <1>0, TypeInsert
<1>2. Opened \subseteq Opened' /\ Read \subseteq Read'
  BY <1>1, OpenedGrows, IdsGrow
<1>3. /\ op' \in [1 .. MaxOps -> Op]
      /\ \A k \in 1 .. MaxOps : op'[k].stage = "assign" => op'[k].list \subseteq Opened
  <2>1. [stage |-> "stored", type |-> type, tenant |-> p, list |-> {}] \in Op
    BY DEF Op, Tenants
  <2>2. CASE op' = op
    BY <2>2 DEF TypeInv, TypeOK, ParcelsOK
  <2>3. ASSUME NEW k \in 1 .. MaxOps, StoreParcel(k, type, p)
        PROVE  /\ op' \in [1 .. MaxOps -> Op]
               /\ \A j \in 1 .. MaxOps : op'[j].stage = "assign" => op'[j].list \subseteq Opened
    <3> DEFINE o == [stage |-> "stored", type |-> type, tenant |-> p, list |-> {}]
    <3>1. o \in Op /\ o.stage = "stored"
      BY <2>1
    <3>2. op' = [op EXCEPT ![k] = o]
      BY <2>3 DEF StoreParcel
    <3> HIDE DEF o
    <3> QED
      BY <3>1, <3>2 DEF TypeInv, TypeOK, ParcelsOK
  <2> QED
    BY <2>2, <2>3 DEF StoreOthers
<1> QED
  BY <1>0, <1>1, <1>2, <1>3 DEF TypeInv, TypeOK, ParcelsOK

LEMMA TypePost ==
  ASSUME TypeInv, NEW tenant \in Opened \union {Default}, NEW p \in {0} \union Ids,
         Post(tenant, p)
  PROVE  TypeInv'
<1>1. tenant \in Tenants
  BY OpenedAreParcels DEF Tenants
<1>2. /\ Len(txs) < MaxTxs
      /\ txs' = Append(txs, [tenant |-> tenant, prev |-> p])
      /\ pool' = pool \union {Len(txs) + 1}
      /\ UNCHANGED <<chain, read, op, active, faults>>
  BY DEF Post
<1>3. /\ txs' \in Seq(Tx) /\ Len(txs') <= MaxTxs
      /\ Ids' = Ids \union {Len(txs) + 1}
      /\ \A t \in Ids : txs'[t] = txs[t]
      /\ \A t \in Ids' : txs'[t].prev < t
  BY <1>1, <1>2, TxAppended DEF TypeInv
<1>4. chain' \subseteq Block' /\ read' \in Read'
  BY <1>2, <1>3, IdsGrow DEF TypeInv, TypeOK
<1>5. \A b \in chain : b.data \subseteq Ids
  BY DEF TypeInv, TypeOK, Block
<1>6. Opened' = Opened
  BY <1>2 DEF Opened
<1>7. \A b \in chain' : \A t \in b.data : txs'[t].tenant = b.tenant
  BY <1>2, <1>3, <1>5, ZenonT(60) DEF TypeInv, TypeOK
<1>8. pool' \subseteq Ids'
  BY <1>2, <1>3 DEF TypeInv, TypeOK
<1>9. /\ \A b, c \in chain' : b # c => b.data \intersect c.data = {}
      /\ op' \in [1 .. MaxOps -> Op] /\ active' \subseteq Opened'
      /\ faults' \in 0 .. MaxFaults
  BY <1>2, <1>6 DEF TypeInv, TypeOK
<1>10. ParcelsOK'
  BY <1>2, <1>6 DEF TypeInv, ParcelsOK
<1> QED
  BY <1>3, <1>4, <1>7, <1>8, <1>9, <1>10 DEF TypeInv, TypeOK

LEMMA TypeAddBlock ==
  ASSUME TypeInv, NEW tenant \in Tenants, NEW ts \in SUBSET pool, AddBlock(tenant, ts)
  PROVE  TypeInv'
<1> DEFINE new == [type |-> "data", tenant |-> tenant, data |-> ts]
<1>1. /\ ts \subseteq OfTenant(tenant)
      /\ chain' = chain \union {new}
      /\ UNCHANGED <<txs, pool, read, op, active, faults>>
  BY DEF AddBlock
<1>2. Ids' = Ids /\ ts \subseteq Ids
  BY <1>1 DEF Ids, TypeInv, TypeOK
<1>3. /\ new \in Block' /\ new.tenant = tenant /\ new.data = ts /\ new.type = "data"
  BY <1>2 DEF Block
<1> HIDE DEF new
<1>4. /\ \A t \in new.data : txs'[t].tenant = new.tenant
      /\ new.data \intersect Blocked = {}
  BY <1>1, <1>3 DEF OfTenant
<1>5. /\ chain' \subseteq Block'
      /\ \A b \in chain' : \A t \in b.data : txs'[t].tenant = b.tenant
      /\ \A b, c \in chain' : b # c => b.data \intersect c.data = {}
  BY <1>1, <1>2, <1>3, <1>4, ChainGrows DEF TypeInv
<1>6. Opened' = Opened
  BY <1>1, <1>3 DEF Opened
<1>7. read' \in Read'
  BY <1>1, <1>2, IdsGrow DEF TypeInv, TypeOK
<1> QED
  BY <1>1, <1>2, <1>3, <1>5, <1>6, <1>7 DEF TypeInv, TypeOK, ParcelsOK

LEMMA TypeRead ==
  ASSUME TypeInv,
         (\E tenants \in Scopes : StartRead(tenants)) \/ ReadBlocks \/ EndRead
  PROVE  TypeInv'
<1>1. UNCHANGED <<txs, pool, chain, op, active, faults>>
  BY DEF StartRead, ReadBlocks, EndRead
<1>2. Ids' = Ids /\ Opened' = Opened
  BY <1>1 DEF Ids, Opened
<1>3. read' \in Read
  <2>1. ASSUME NEW tenants \in Scopes PROVE PoolFirst(tenants) \in Read
    <3>1. tenants \subseteq Tenants
      BY ConstantsOK
    <3>2. PoolCursor(tenants) \subseteq Ids /\ BlockCursor(tenants) \subseteq Block
      BY DEF PoolCursor, BlockCursor, TypeInv, TypeOK
    <3>3. UNION {b.data : b \in BlockCursor(tenants)} \subseteq Ids
      BY <3>2 DEF Block
    <3> QED
      BY <3>1, <3>2, <3>3 DEF PoolFirst, Read
  <2>2. CASE ReadBlocks
    BY <2>2 DEF ReadBlocks, BlockCursor, Read, TypeInv, TypeOK
  <2> QED
    BY <2>1, <2>2 DEF StartRead, EndRead, NoRead, Read
<1> QED
  BY <1>1, <1>2, <1>3, IdsGrow DEF TypeInv, TypeOK, ParcelsOK

LEMMA TypeRestart == ASSUME TypeInv, RestartSystem \/ RestartNode PROVE TypeInv'
<1>1. UNCHANGED <<txs, pool, chain>> /\ Ids' = Ids /\ Opened' = Opened /\ Block' = Block
  BY DEF RestartSystem, RestartNode, Ids, Opened, Block
<1>2. /\ op' \in [1 .. MaxOps -> Op]
      /\ \A k \in 1 .. MaxOps : op'[k].stage # "assign"
  <2>1. op' = Forsaken
    BY DEF RestartSystem, RestartNode
  <2>2. ASSUME NEW k \in 1 .. MaxOps
        PROVE  Forsaken[k] \in Op /\ Forsaken[k].stage # "assign"
    <3>1. op[k] \in Op
      BY DEF TypeInv, TypeOK
    <3>2. CASE op[k].stage \in {"unused", "done"}
      BY <3>1, <3>2 DEF Forsaken
    <3>3. CASE op[k].stage \notin {"unused", "done"}
      <4>1. Forsaken[k] = [op[k] EXCEPT !.stage = "failed", !.list = {}]
        BY <3>3 DEF Forsaken
      <4> QED
        BY <3>1, <4>1 DEF Op
    <3> QED
      BY <3>2, <3>3
  <2>3. Forsaken \in [1 .. MaxOps -> Op]
    BY <2>2 DEF Forsaken
  <2> QED
    BY <2>1, <2>2, <2>3
<1>3. active' \subseteq Opened
  BY DEF RestartSystem, RestartNode, Listed
<1>4. read' \in Read /\ faults' \in 0 .. MaxFaults
  BY ConstantsOK DEF RestartSystem, RestartNode, Fault, NoRead, Read, TypeInv, TypeOK
<1> QED
  BY <1>1, <1>2, <1>3, <1>4, IdsGrow DEF TypeInv, TypeOK, ParcelsOK

LEMMA TypeRemove ==
  ASSUME TypeInv, NEW b \in chain, RemoveFromPool(b)
  PROVE  TypeInv'
<1>1. UNCHANGED <<txs, chain, read, op, active, faults>> /\ pool' \subseteq pool
  BY DEF RemoveFromPool
<1>2. Ids' = Ids /\ Opened' = Opened
  BY <1>1 DEF Ids, Opened
<1> QED
  BY <1>1, <1>2, IdsGrow DEF TypeInv, TypeOK, ParcelsOK

LEMMA TypeStep == TypeInv /\ [Next]_vars => TypeInv'
<1> SUFFICES ASSUME TypeInv, [Next]_vars PROVE TypeInv'
  OBVIOUS
<1>1. CASE UNCHANGED vars
  <2>1. Ids' = Ids /\ Opened' = Opened
    BY <1>1 DEF vars, Ids, Opened
  <2> QED
    BY <1>1, <2>1, IdsGrow DEF vars, TypeInv, TypeOK, ParcelsOK
<1> QED
  BY <1>1, TypePost, TypeAddBlock, TypeRemove, TypeRead, TypeParcel, TypeOp, TypeRestart
  DEF Next

\* Every variable has its type in every reachable state: among others no two blocks
\* hold the same transaction, blocks hold the transactions of their tenant only, and
\* an active parcel is one that has been opened.
THEOREM TypeCorrect == Spec => []TypeOK
<1>1. Init => TypeInv
  BY TypeInit
<1>2. TypeInv /\ [Next]_vars => TypeInv'
  BY TypeStep
<1>3. TypeInv => TypeOK
  BY DEF TypeInv
<1> QED
  BY <1>1, <1>2, <1>3, PTL DEF Spec

-----------------------------------------------------------------------------
(* Reads over the pool and the chain *)

\* The transactions in the blocks of some tenants now
Held(tenants) == UNION {b.data : b \in BlockCursor(tenants)}

\* What a read owes is in the half that it has read, or in the blocks that it is going
\* to read: what leaves the pool in between is in a block before.
ReadInv ==
  /\ read.blocks \subseteq chain
  /\ read.stage = "pool" => read.owed \subseteq read.pool \union Held(read.tenants)
  /\ read.stage = "blocks" => read.owed \subseteq read.pool \union InBlocks

LEMMA ReadInit == Init => ReadInv
BY DEF Init, NoRead, ReadInv

LEMMA ReadStep == TypeInv /\ ReadInv /\ [Next]_vars => ReadInv'
<1> SUFFICES ASSUME TypeInv, ReadInv, [Next]_vars PROVE ReadInv'
  OBVIOUS
<1>1. ASSUME UNCHANGED read, chain \subseteq chain' PROVE ReadInv'
  <2>1. Held(read.tenants) \subseteq Held(read.tenants)'
    BY <1>1 DEF Held, BlockCursor
  <2>2. InBlocks' = InBlocks
    BY <1>1 DEF InBlocks
  <2> QED
    BY <1>1, <2>1, <2>2 DEF ReadInv
<1>2. ASSUME NEW tenants \in Scopes, StartRead(tenants) PROVE ReadInv'
  <2>1. chain' = chain /\ Held(tenants)' = Held(tenants)
    BY <1>2 DEF StartRead, Held, BlockCursor
  <2>2. /\ read'.stage = "pool" /\ read'.tenants = tenants /\ read'.blocks = {}
        /\ read'.owed = read'.pool \union Held(tenants)
    BY <1>2 DEF StartRead, PoolFirst, Held
  <2> QED
    BY <2>1, <2>2 DEF ReadInv, Held, BlockCursor
<1>3. CASE ReadBlocks
  <2>1. /\ chain' = chain
        /\ read'.stage = "blocks" /\ read'.blocks = BlockCursor(read.tenants)
        /\ read'.pool = read.pool /\ read'.owed = read.owed /\ read.stage = "pool"
    BY <1>3 DEF ReadBlocks, TypeInv, TypeOK, Read
  <2>2. InBlocks' = Held(read.tenants) /\ BlockCursor(read.tenants) \subseteq chain
    BY <2>1 DEF InBlocks, Held, BlockCursor
  <2> QED
    BY <2>1, <2>2 DEF ReadInv
<1>4. CASE EndRead \/ RestartNode
  BY <1>4 DEF EndRead, RestartNode, NoRead, ReadInv
<1>5. ASSUME NEW type, NEW p, Insert(type, p) PROVE chain \subseteq chain'
  BY <1>5 DEF Insert
<1>6. CASE UNCHANGED vars
  BY <1>1, <1>6 DEF vars
<1> QED
  BY <1>1, <1>2, <1>3, <1>4, <1>5, <1>6
  DEF Next, Post, AddBlock, RemoveFromPool, StoreParcel, StoreOthers, EndParcel,
      FailParcel, ReadCloses, ReadOpens, Assign, RestartSystem

\* What a cursor gives is what it holds.
LEMMA EntriesOf ==
  ASSUME NEW S, IsFiniteSet(S)
  PROVE  Entries(S) \in Seq(S) /\ ToSet(Entries(S)) = S
<1> DEFINE n == Cardinality(S)
           s == SetToSeq(S)
<1>1. /\ n \in Nat /\ IsFiniteSet(1 .. n) /\ Cardinality(1 .. n) = n
      /\ ExistsBijection(1 .. n, S)
  BY FS_CardinalityType, FS_Interval
<1>2. \E f \in [1 .. n -> S] : IsInjective(f)
  BY <1>1 DEF ExistsBijection, Bijection, Injection, IsInjective
<1>3. s \in [1 .. n -> S] /\ IsInjective(s)
  BY <1>2 DEF SetToSeq
<1> HIDE DEF s, n
<1>4. s \in Surjection(1 .. n, S)
  <2>1. s \in Injection(1 .. n, S)
    BY <1>3 DEF Injection, IsInjective
  <2> QED
    BY <1>1, <2>1, FS_Injection DEF n
<1>5. s \in Seq(S) /\ ToSet(s) = S
  BY <1>1, <1>3, <1>4 DEF Surjection, ToSet
<1> QED
  BY <1>5 DEF Entries, s

LEMMA Joined ==
  ASSUME NEW T, NEW s \in Seq(T), NEW u \in Seq(T)
  PROVE  ToSet(s \o u) = ToSet(s) \union ToSet(u)
<1> DEFINE w == s \o u
<1>1. /\ Len(s) \in Nat /\ Len(u) \in Nat /\ DOMAIN w = 1 .. Len(s) + Len(u)
      /\ DOMAIN s = 1 .. Len(s) /\ DOMAIN u = 1 .. Len(u)
  OBVIOUS
<1>2. /\ \A i \in 1 .. Len(s) : w[i] = s[i]
      /\ \A i \in 1 .. Len(u) : w[i + Len(s)] = u[i]
  OBVIOUS
<1> HIDE DEF w
<1>3. ASSUME NEW i \in DOMAIN w
      PROVE  i \in 1 .. Len(s) \/ \E j \in 1 .. Len(u) : i = j + Len(s)
  <2>1. i \in 1 .. Len(s) \/ (i - Len(s) \in 1 .. Len(u) /\ i = (i - Len(s)) + Len(s))
    BY <1>1
  <2> QED
    BY <2>1
<1>4. \A i \in 1 .. Len(s) : i \in DOMAIN w
  BY <1>1
<1>5. \A i \in 1 .. Len(u) : i + Len(s) \in DOMAIN w
  BY <1>1
<1>6. ToSet(w) \subseteq ToSet(s) \union ToSet(u)
  <2> SUFFICES ASSUME NEW i \in DOMAIN w
               PROVE  w[i] \in ToSet(s) \/ w[i] \in ToSet(u)
    BY DEF ToSet
  <2>1. CASE i \in 1 .. Len(s)
    BY <1>1, <1>2, <2>1 DEF ToSet
  <2>2. CASE \E j \in 1 .. Len(u) : i = j + Len(s)
    BY <1>1, <1>2, <2>2 DEF ToSet
  <2> QED
    BY <1>3, <2>1, <2>2
<1>7. ToSet(s) \subseteq ToSet(w) /\ ToSet(u) \subseteq ToSet(w)
  BY <1>1, <1>2, <1>4, <1>5 DEF ToSet
<1> QED
  BY <1>6, <1>7 DEF w

\* The two halves one after the other
LEMMA Halves ==
  ASSUME NEW S, NEW T, IsFiniteSet(S), IsFiniteSet(T)
  PROVE  ToSet(Entries(S) \o Entries(T)) = S \union T
<1>1. /\ Entries(S) \in Seq(S) /\ ToSet(Entries(S)) = S
      /\ Entries(T) \in Seq(T) /\ ToSet(Entries(T)) = T
  BY EntriesOf
<1>2. Entries(S) \in Seq(S \union T) /\ Entries(T) \in Seq(S \union T)
  BY <1>1
<1> QED
  BY <1>1, <1>2, Joined

LEMMA IdsFinite == ASSUME TypeInv PROVE IsFiniteSet(Ids)
<1>1. Len(txs) \in Nat
  BY LenProperties DEF TypeInv, TypeOK
<1> QED
  BY <1>1, FS_Interval DEF Ids

\* Every transaction in the blocks is an entry of exactly one of them: what is counted
\* block by block is the number of the transactions.
LEMMA EntriesCounted ==
  ASSUME TypeInv, read.blocks \subseteq chain
  PROVE  /\ IsFiniteSet(InBlocks) /\ InBlocks \subseteq Ids
         /\ Cardinality({e \in read.blocks \X Ids : e[2] \in e[1].data}) = Cardinality(InBlocks)
<1> DEFINE entries == {e \in read.blocks \X Ids : e[2] \in e[1].data}
           holder == [t \in InBlocks |-> CHOOSE b \in read.blocks : t \in b.data]
           entry == [t \in InBlocks |-> <<holder[t], t>>]
<1>1. /\ \A b \in read.blocks : b.data \subseteq Ids
      /\ \A b, c \in read.blocks : b # c => b.data \intersect c.data = {}
  BY DEF TypeInv, TypeOK, Block
<1>2. InBlocks \subseteq Ids
  BY <1>1 DEF InBlocks
<1>3. IsFiniteSet(InBlocks)
  BY <1>2, IdsFinite, FS_Subset
<1>4. \A t \in InBlocks : holder[t] \in read.blocks /\ t \in holder[t].data
  BY DEF InBlocks
<1> HIDE DEF holder
<1>5. entry \in [InBlocks -> entries]
  <2>1. \A t \in InBlocks : <<holder[t], t>> \in entries
    BY <1>2, <1>4
  <2> HIDE DEF entries
  <2> QED
    BY <2>1
<1>6. \A t, u \in InBlocks : t # u => entry[t] # entry[u]
  OBVIOUS
<1>7. \A e \in entries : \E t \in InBlocks : entry[t] = e
  <2> TAKE e \in entries
  <2>1. e[1] \in read.blocks /\ e[2] \in e[1].data /\ e = <<e[1], e[2]>>
    OBVIOUS
  <2>2. e[2] \in InBlocks
    BY <2>1 DEF InBlocks
  <2>3. holder[e[2]] = e[1]
    BY <1>1, <1>4, <2>1, <2>2
  <2>4. entry[e[2]] = e
    BY <2>1, <2>2, <2>3
  <2> HIDE DEF entry
  <2> QED
    BY <2>2, <2>4
<1> HIDE DEF entry, entries
<1>8. ExistsBijection(InBlocks, entries)
  BY <1>5, <1>6, <1>7 DEF ExistsBijection, Bijection, Injection, Surjection, IsInjective
<1>9. Cardinality(entries) = Cardinality(InBlocks)
  BY <1>3, <1>8, FS_Bijection
<1> QED
  BY <1>2, <1>3, <1>9 DEF entries

LEMMA NothingMissed == TypeInv /\ ReadInv => ReadsMissNothing
<1> SUFFICES ASSUME TypeInv, ReadInv, Answered PROVE ReadsMissNothing
  BY DEF ReadsMissNothing
<1>1. read.blocks \subseteq chain /\ read.owed \subseteq read.pool \union InBlocks
  BY DEF ReadInv, Answered
<1>2. read.pool \subseteq Ids
  BY DEF TypeInv, TypeOK, Read
<1>3. IsFiniteSet(Ids)
  BY IdsFinite
<1>4. /\ IsFiniteSet(InBlocks) /\ InBlocks \subseteq Ids
      /\ Cardinality({e \in read.blocks \X Ids : e[2] \in e[1].data}) = Cardinality(InBlocks)
  BY <1>1, EntriesCounted
<1>5. IsFiniteSet(read.pool)
  BY <1>2, <1>3, FS_Subset
<1>6. read.owed \subseteq ToSet(All)
  BY <1>1, <1>4, <1>5, Halves DEF All
<1>7. ASSUME NEW id \in Ids
      PROVE  {t \in read.owed : Matches(t, id)} \subseteq ToSet(ByJson(id))
  <2> DEFINE S == {t \in read.pool : Matches(t, id)}
             T == {t \in InBlocks : Matches(t, id)}
  <2>1. IsFiniteSet(S) /\ IsFiniteSet(T)
    BY <1>4, <1>5, FS_Subset
  <2>2. {t \in read.owed : Matches(t, id)} \subseteq S \union T
    BY <1>1
  <2>3. ByJson(id) = Entries(S) \o Entries(T)
    BY DEF ByJson
  <2> HIDE DEF S, T
  <2>4. ToSet(ByJson(id)) = S \union T
    BY <2>1, <2>3, Halves
  <2> QED
    BY <2>2, <2>4
<1>8. Cardinality(read.owed) <= Height
  <2>1. /\ IsFiniteSet(read.pool \union InBlocks)
        /\ Cardinality(read.pool \union InBlocks)
             = Cardinality(read.pool) + Cardinality(InBlocks)
                 - Cardinality(read.pool \intersect InBlocks)
    BY <1>4, <1>5, FS_Union
  <2>2. IsFiniteSet(read.pool \intersect InBlocks) /\ IsFiniteSet(read.owed)
    BY <1>1, <1>5, <2>1, FS_Subset
  <2>3. Cardinality(read.owed) <= Cardinality(read.pool \union InBlocks)
    BY <1>1, <2>1, FS_Subset
  <2>4. /\ Cardinality(read.pool) \in Nat /\ Cardinality(InBlocks) \in Nat
        /\ Cardinality(read.pool \intersect InBlocks) \in Nat
        /\ Cardinality(read.owed) \in Nat
    BY <1>4, <1>5, <2>2, FS_CardinalityType
  <2>5. Height = Cardinality(read.pool) + Cardinality(InBlocks)
    BY <1>4 DEF Height
  <2> QED
    BY <2>1, <2>3, <2>4, <2>5
<1>9. \A t \in read.owed \ InBlocks : ByOid(t) = t
  BY <1>1 DEF ByOid
<1> QED
  BY <1>6, <1>7, <1>8, <1>9 DEF ReadsMissNothing

\* getAll, getSearchByJson and getTransactionHeight miss nothing that was there when they
\* began, however many transactions move from the pool into blocks between their two
\* halves, and getSearchByOid nothing but what is in blocks.
THEOREM NothingIsMissed == Spec => []ReadsMissNothing
<1>1. Init => TypeInv /\ ReadInv
  BY TypeInit, ReadInit
<1>2. TypeInv /\ ReadInv /\ [Next]_vars => (TypeInv /\ ReadInv)'
  BY TypeStep, ReadStep
<1>3. TypeInv /\ ReadInv => ReadsMissNothing
  BY NothingMissed
<1> QED
  BY <1>1, <1>2, <1>3, PTL DEF Spec

-----------------------------------------------------------------------------
(* Histories *)

\* Numbers have a least one.
LEMMA Least ==
  ASSUME NEW S \in SUBSET Nat, S # {}
  PROVE  \E n \in S : \A m \in S : n <= m
<1> DEFINE R == {ss \in Nat \X Nat : ss[1] < ss[2]}
<1>1. IsWellFoundedOn(R, Nat)
  BY NatLessThanWellFounded DEF OpToRel
<1>2. \A y, x \in Nat : <<y, x>> \in R <=> y < x
  OBVIOUS
<1> HIDE DEF R
<1>3. PICK n \in S : \A m \in S : <<m, n>> \notin R
  BY <1>1, WFMin
<1>4. ASSUME NEW m \in S PROVE n <= m
  <2>1. n \in Nat /\ m \in Nat
    OBVIOUS
  <2>2. ~(m < n)
    BY <1>2, <1>3, <2>1
  <2> QED
    BY <2>1, <2>2
<1> QED
  BY <1>4

\* What holds at 0 and passes from each number to the next
LEMMA UpTo ==
  ASSUME NEW n \in Nat, NEW good \in SUBSET (0 .. n), 0 \in good,
         \A k \in 1 .. n : k - 1 \in good => k \in good
  PROVE  good = 0 .. n
<1> DEFINE bad == (0 .. n) \ good
<1>1. ASSUME bad # {} PROVE FALSE
  <2>1. bad \in SUBSET Nat
    OBVIOUS
  <2> HIDE DEF bad
  <2>2. PICK k \in bad : \A m \in bad : k <= m
    BY <1>1, <2>1, Least
  <2>3. k \in 0 .. n /\ k # 0
    BY DEF bad
  <2>4. k \in 1 .. n /\ k - 1 \in 0 .. n /\ ~(k <= k - 1)
    BY <2>3
  <2>5. k - 1 \notin bad
    BY <2>2, <2>4
  <2> QED
    BY <2>4, <2>5 DEF bad
<1> QED
  BY <1>1

\* A prev_id names an earlier transaction.
LEMMA TxFacts ==
  ASSUME TypeInv
  PROVE  /\ Len(txs) \in Nat /\ Ids = 1 .. Len(txs) /\ {0} \union Ids = 0 .. Len(txs)
         /\ \A t \in Ids : txs[t].prev \in 0 .. t - 1
<1>1. txs \in Seq(Tx) /\ \A t \in Ids : txs[t].prev < t
  BY DEF TypeInv, TypeOK
<1>2. Len(txs) \in Nat /\ Ids = 1 .. Len(txs)
  BY <1>1, LenProperties DEF Ids
<1>3. {0} \union Ids = 0 .. Len(txs)
  BY <1>2
<1>4. ASSUME NEW t \in Ids PROVE txs[t].prev \in 0 .. t - 1
  <2>1. txs[t] \in Tx
    BY <1>1, <1>2
  <2>2. txs[t].prev \in Nat
    BY <2>1, ConstantsOK DEF Tx
  <2> QED
    BY <1>1, <1>2, <2>2
<1> QED
  BY <1>2, <1>3, <1>4

\* The prev_id of a transaction is an earlier one: the line of each is defined by those
\* of the earlier ones.
LEMMA LineDefined ==
  ASSUME TypeInv
  PROVE  \E line : /\ line = [t \in {0} \union Ids |->
                                IF t = 0 THEN <<>> ELSE <<t>> \o line[txs[t].prev]]
<1> DEFINE n == Len(txs)
           Up(line, m) == line = [t \in 0 .. m |->
                                    IF t = 0 THEN <<>> ELSE <<t>> \o line[txs[t].prev]]
           good == {m \in 0 .. n : \E line : Up(line, m)}
<1>0. /\ n \in Nat /\ Ids = 1 .. n /\ {0} \union Ids = 0 .. n
      /\ \A t \in Ids : txs[t].prev \in 0 .. t - 1
  BY TxFacts
<1>1. 0 \in good
  <2>1. \A t \in 0 .. 0 : t = 0
    OBVIOUS
  <2>2. Up([t \in 0 .. 0 |-> <<>>], 0)
    BY <2>1
  <2> HIDE DEF Up
  <2> QED
    BY <1>0, <2>2
<1>2. ASSUME NEW m \in 1 .. n, m - 1 \in good PROVE m \in good
  <2>0. PICK h : Up(h, m - 1)
    <3> HIDE DEF Up
    <3> QED
      BY <1>2
  <2>1. \A t \in 0 .. m - 1 : h[t] = IF t = 0 THEN <<>> ELSE <<t>> \o h[txs[t].prev]
    BY <2>0
  <2> DEFINE g == [t \in 0 .. m |-> IF t = m THEN <<m>> \o h[txs[m].prev] ELSE h[t]]
  <2>2. \A t \in 0 .. m - 1 : t \in 0 .. m /\ t # m /\ g[t] = h[t]
    BY <1>0
  <2>3. ASSUME NEW t \in 0 .. m
        PROVE  g[t] = IF t = 0 THEN <<>> ELSE <<t>> \o g[txs[t].prev]
    <3>1. t # 0 => txs[t].prev \in 0 .. m - 1
      <4>1. t # 0 => t \in Ids
        BY <1>0
      <4> QED
        BY <1>0, <4>1
    <3>2. t # 0 => g[txs[t].prev] = h[txs[t].prev]
      BY <2>2, <3>1, SMTT(30)
    <3>3. CASE t = m
      <4>1. t # 0 /\ g[t] = <<t>> \o h[txs[t].prev]
        BY <1>0, <3>3
      <4> QED
        BY <3>2, <4>1
    <3>4. CASE t # m
      <4>1. t \in 0 .. m - 1
        BY <1>0, <3>4
      <4> QED
        BY <2>1, <2>2, <3>2, <4>1
    <3> QED
      BY <3>3, <3>4
  <2>4. g = [t \in 0 .. m |-> g[t]]
    OBVIOUS
  <2> HIDE DEF g
  <2>5. Up(g, m)
    BY <2>3, <2>4
  <2> HIDE DEF Up
  <2>6. m \in 0 .. n
    BY <1>0
  <2> QED
    BY <2>5, <2>6
<1> HIDE DEF good
<1>3. good \in SUBSET (0 .. n)
  BY DEF good
<1>4. good = 0 .. n
  BY <1>0, <1>1, <1>2, <1>3, UpTo
<1>5. PICK line : Up(line, n)
  <2> HIDE DEF Up
  <2> QED
    BY <1>0, <1>4 DEF good
<1> QED
  BY <1>0, <1>5

\* What the recursive function gives
LEMMA LineageIs ==
  ASSUME TypeInv
  PROVE  /\ Lineage(0) = <<>>
         /\ \A t \in Ids : Lineage(t) = <<t>> \o Lineage(txs[t].prev)
<1> DEFINE D(line) == line = [t \in {0} \union Ids |->
                                IF t = 0 THEN <<>> ELSE <<t>> \o line[txs[t].prev]]
           l == CHOOSE line : D(line)
<1>1. \A id : Lineage(id) = l[id]
  BY DEF Lineage
<1>2. D(l)
  <2>1. \E line : D(line)
    BY LineDefined, SMTT(30)
  <2> HIDE DEF D
  <2> QED
    BY <2>1
<1>3. \A t \in {0} \union Ids : l[t] = IF t = 0 THEN <<>> ELSE <<t>> \o l[txs[t].prev]
  BY <1>2, ZenonT(30)
<1> HIDE DEF l
<1>4. \A t \in Ids : t # 0
  BY TxFacts
<1> QED
  BY <1>1, <1>3, <1>4

LEMMA Prefixed ==
  ASSUME NEW T, NEW x \in T, NEW s \in Seq(T)
  PROVE  ToSet(<<x>> \o s) = {x} \union ToSet(s)
<1> DEFINE w == <<x>>
<1>1. w \in Seq(T) /\ ToSet(w) = {x}
  BY DEF ToSet
<1> HIDE DEF w
<1>2. ToSet(w \o s) = ToSet(w) \union ToSet(s)
  BY <1>1, Joined
<1> QED
  BY <1>1, <1>2 DEF w

\* A line goes down from its first one.
LEMMA LineageTypes ==
  ASSUME TypeInv, NEW t \in Ids
  PROVE  /\ Lineage(t) \in Seq(Ids) /\ t \in ToSet(Lineage(t))
         /\ \A u \in ToSet(Lineage(t)) : u <= t
<1> DEFINE n == Len(txs)
           OK(k) == Lineage(k) \in Seq(Ids) /\ \A u \in ToSet(Lineage(k)) : u <= k
           bad == {k \in 0 .. n : ~OK(k)}
<1>0. /\ n \in Nat /\ Ids = 1 .. n /\ {0} \union Ids = 0 .. n
      /\ \A k \in Ids : txs[k].prev \in 0 .. k - 1
  BY TxFacts
<1>1. OK(0)
  <2>1. Lineage(0) = <<>> /\ <<>> \in Seq(Ids) /\ ToSet(<<>>) = {}
    BY LineageIs DEF ToSet
  <2> QED
    BY <2>1
<1>2. ASSUME NEW k \in Ids, OK(txs[k].prev)
      PROVE  OK(k) /\ k \in ToSet(Lineage(k))
  <2> DEFINE p == txs[k].prev
  <2>1. Lineage(k) = <<k>> \o Lineage(p) /\ p \in 0 .. k - 1
    BY <1>0, LineageIs
  <2>2. <<k>> \in Seq(Ids) /\ Lineage(p) \in Seq(Ids) /\ ToSet(<<k>>) = {k}
    BY <1>2 DEF ToSet
  <2>3. Lineage(k) \in Seq(Ids) /\ ToSet(Lineage(k)) = {k} \union ToSet(Lineage(p))
    <3>1. <<k>> \o Lineage(p) \in Seq(Ids)
      BY <2>2
    <3>2. ToSet(<<k>> \o Lineage(p)) = {k} \union ToSet(Lineage(p))
      <4> HIDE DEF p, OK
      <4> QED
        BY <2>2, Prefixed
    <3> HIDE DEF p, OK
    <3> QED
      BY <2>1, <3>1, <3>2
  <2>4. ToSet(Lineage(p)) \subseteq Ids
    BY <2>2 DEF ToSet
  <2>5. \A u \in ToSet(Lineage(p)) : u \in Nat /\ u <= p
    BY <1>0, <1>2, <2>4
  <2>6. \A u \in ToSet(Lineage(k)) : u <= k
    <3>1. k \in Nat /\ p \in Nat /\ p < k
      BY <1>0, <2>1
    <3> HIDE DEF p, OK
    <3>2. ASSUME NEW u \in ToSet(Lineage(p)) PROVE u <= k
      BY <2>5, <3>1
    <3>3. k <= k
      BY <3>1
    <3> QED
      BY <2>3, <3>2, <3>3
  <2> QED
    BY <2>3, <2>6
<1>3. ASSUME bad # {} PROVE FALSE
  <2>1. bad \in SUBSET Nat
    BY <1>0
  <2>2. PICK k \in bad : \A m \in bad : k <= m
    <3> HIDE DEF bad
    <3> QED
      BY <1>3, <2>1, Least
  <2> HIDE DEF OK
  <2>3. k \in 0 .. n /\ ~OK(k)
    OBVIOUS
  <2>4. k \in Ids /\ txs[k].prev \in 0 .. k - 1
    BY <1>0, <1>1, <2>3
  <2>5. txs[k].prev \in 0 .. n /\ ~(k <= txs[k].prev)
    BY <1>0, <2>4
  <2>6. OK(txs[k].prev)
    BY <2>2, <2>5
  <2> QED
    BY <1>2, <2>3, <2>4, <2>6
<1>4. OK(txs[t].prev)
  <2>1. txs[t].prev \in 0 .. n
    BY <1>0
  <2> HIDE DEF OK
  <2> QED
    BY <1>3, <2>1
<1> QED
  BY <1>2, <1>4

\* What is held of the walk when the transactions above c are passed: it looks for the
\* newest one of the line that is left, which is all that is there from the first one of
\* the line on; or it has ended with the whole line.
OnTheWay(walk, c, low, line) ==
  /\ walk.on = TRUE /\ walk.target \in Ids /\ walk.target <= c
  /\ walk.target \in read.pool \union InBlocks
  /\ walk.found \in Seq(Ids) /\ walk.found \o Lineage(walk.target) = line
  /\ ToSet(Lineage(walk.target)) = {u \in read.pool \union InBlocks : low <= u /\ u <= c}
Ended(walk, line) == walk.on = FALSE /\ walk.found = line

\* A walk that has ended passes over the rest.
LEMMA PassEnded ==
  ASSUME NEW walk, NEW c, NEW line, Ended(walk, line)
  PROVE  Ended(Passed(walk, c), line)
BY DEF Ended, Passed, Follow

\* Passing the one it looks for twice is passing it once.
LEMMA PassTarget ==
  ASSUME TypeInv, NEW walk, NEW c \in read.pool \union InBlocks, c \in Ids,
         walk.on = TRUE, walk.target = c
  PROVE  /\ Passed(walk, c).on = (txs[c].prev # 0)
         /\ Passed(walk, c).found = Append(walk.found, c)
         /\ txs[c].prev # 0 => Passed(walk, c).target = txs[c].prev
<1> DEFINE once == Follow(walk, c)
<1>1. txs[c].prev # c
  BY TxFacts
<1>2. /\ once.on = (txs[c].prev # 0) /\ once.found = Append(walk.found, c)
      /\ txs[c].prev # 0 => once.target = txs[c].prev
  BY DEF Follow
<1>3. /\ Follow(once, c).on = once.on /\ Follow(once, c).found = once.found
      /\ txs[c].prev # 0 => Follow(once, c).target = once.target
  <2> HIDE DEF once
  <2> QED
    BY <1>1, <1>2 DEF Follow
<1>4. Passed(walk, c) \in {once, Follow(once, c)}
  BY DEF Passed
<1> HIDE DEF once
<1> QED
  BY <1>2, <1>3, <1>4

LEMMA PassOther ==
  ASSUME NEW walk, NEW c, c \notin read.pool \union InBlocks
  PROVE  Passed(walk, c) = walk
BY DEF Passed

\* At what is there the walk takes the next one of the line, and nothing else is there.
LEMMA PassOn ==
  ASSUME TypeInv, read.pool \union InBlocks \subseteq Ids,
         NEW walk, NEW c \in Ids, NEW low \in Nat, NEW line, OnTheWay(walk, c, low, line)
  PROVE  \/ OnTheWay(Passed(walk, c), c - 1, low, line)
         \/ Ended(Passed(walk, c), line)
<1> DEFINE there == read.pool \union InBlocks
           v == walk.target
<1>0. /\ Len(txs) \in Nat /\ Ids = 1 .. Len(txs) /\ c \in Nat /\ c - 1 \in Int
      /\ \A k \in Ids : txs[k].prev \in 0 .. k - 1
  BY TxFacts
<1>1. /\ walk.on = TRUE /\ v \in Ids /\ v <= c /\ v \in there
      /\ walk.found \in Seq(Ids) /\ walk.found \o Lineage(v) = line
      /\ ToSet(Lineage(v)) = {u \in there : low <= u /\ u <= c}
  BY DEF OnTheWay
<1>2. /\ Lineage(v) \in Seq(Ids) /\ v \in ToSet(Lineage(v))
      /\ \A u \in ToSet(Lineage(v)) : u <= v
  BY <1>1, LineageTypes
<1> HIDE DEF v, there
<1>3. CASE c \notin there
  <2>1. Passed(walk, c) = walk
    BY <1>3, PassOther DEF there
  <2>2. v \in Nat /\ v # c /\ v <= c - 1
    BY <1>0, <1>1, <1>3
  <2>3. \A u \in there : u \in Nat /\ u # c /\ (u <= c <=> u <= c - 1)
    BY <1>0, <1>3 DEF there
  <2>4. ToSet(Lineage(v)) = {u \in there : low <= u /\ u <= c - 1}
    BY <1>1, <2>3
  <2>5. OnTheWay(walk, c - 1, low, line)
    BY <1>1, <2>2, <2>4 DEF OnTheWay, there, v
  <2> QED
    BY <2>1, <2>5
<1>4. CASE c \in there
  <2> DEFINE p == txs[c].prev
             w == Passed(walk, c)
  <2>1. c = v
    <3>1. low <= v /\ v \in Nat
      BY <1>0, <1>1, <1>2
    <3>2. low <= c
      BY <1>0, <1>1, <3>1
    <3>3. c \in ToSet(Lineage(v)) /\ c <= c
      BY <1>0, <1>1, <1>4, <3>2
    <3> QED
      BY <1>0, <1>1, <1>2, <3>1, <3>3
  <2>2. /\ w.on = (p # 0) /\ w.found = Append(walk.found, c)
        /\ p # 0 => w.target = p
    BY <1>1, <1>4, <2>1, PassTarget DEF there, v
  <2>3. Lineage(c) = <<c>> \o Lineage(p) /\ p \in 0 .. c - 1 /\ Lineage(0) = <<>>
    BY <1>0, LineageIs
  <2>4. w.found = walk.found \o <<c>> /\ w.found \in Seq(Ids) /\ <<c>> \in Seq(Ids)
    BY <1>1, <2>2
  <2> HIDE DEF p, w
  <2>5. CASE p = 0
    <3>0. \A s \in Seq(Ids) : s \o <<>> = s
      BY ConcatEmptySeq
    <3>1. Lineage(c) = <<c>>
      BY <2>3, <2>4, <2>5, <3>0
    <3>2. w.found = line /\ w.on = FALSE
      BY <1>1, <2>1, <2>2, <2>4, <2>5, <3>1
    <3> QED
      BY <3>2 DEF Ended, w
  <2>6. CASE p # 0
    <3>1. p \in Ids /\ p <= c - 1 /\ p \in Nat
      BY <1>0, <2>3, <2>6
    <3>2. /\ Lineage(p) \in Seq(Ids) /\ p \in ToSet(Lineage(p))
          /\ \A u \in ToSet(Lineage(p)) : u <= p
      BY <3>1, LineageTypes
    <3>3. ToSet(Lineage(c)) = {c} \union ToSet(Lineage(p))
      BY <2>3, <3>2, Prefixed
    <3>4. \A u \in ToSet(Lineage(p)) : u \in Nat /\ u # c /\ u <= c - 1
      <4>1. ToSet(Lineage(p)) \subseteq Ids
        BY <3>2 DEF ToSet
      <4> QED
        BY <1>0, <3>1, <3>2, <4>1
    <3>5. \A u \in there : u \in Nat /\ (u <= c - 1 <=> u <= c /\ u # c)
      BY <1>0 DEF there
    <3>6. ToSet(Lineage(p)) = {u \in there : low <= u /\ u <= c - 1}
      BY <1>1, <2>1, <3>3, <3>4, <3>5
    <3>7. p \in there
      BY <3>2, <3>6
    <3>8. w.found \o Lineage(p) = line
      <4>0. \A r, s, u \in Seq(Ids) : (r \o s) \o u = r \o (s \o u)
        BY ConcatAssociative, SMTT(30)
      <4>1. walk.found \o (<<c>> \o Lineage(p)) = (walk.found \o <<c>>) \o Lineage(p)
        BY <1>1, <2>4, <3>2, <4>0
      <4> QED
        BY <1>1, <2>1, <2>3, <2>4, <4>1
    <3>9. w.on = TRUE /\ w.target = p
      BY <2>2, <2>6
    <3>10. OnTheWay(w, c - 1, low, line)
      BY <2>4, <3>1, <3>6, <3>7, <3>8, <3>9 DEF OnTheWay, there
    <3> QED
      BY <3>10 DEF w
  <2> QED
    BY <2>5, <2>6
<1> QED
  BY <1>3, <1>4

\* The walk is defined from one transaction to the next.
LEMMA WalkDefined ==
  ASSUME TypeInv, NEW start
  PROVE  \E walk : walk = [k \in 0 .. Len(txs) |->
                             IF k = 0 THEN start ELSE Passed(walk[k - 1], Len(txs) + 1 - k)]
<1> DEFINE n == Len(txs)
           Up(walk, m) == walk = [k \in 0 .. m |->
                                    IF k = 0 THEN start ELSE Passed(walk[k - 1], n + 1 - k)]
           good == {m \in 0 .. n : \E walk : Up(walk, m)}
<1>0. n \in Nat
  BY TxFacts
<1> HIDE DEF n
<1>1. 0 \in good
  <2>1. \A k \in 0 .. 0 : k = 0
    OBVIOUS
  <2>2. Up([k \in 0 .. 0 |-> start], 0)
    BY <2>1
  <2> HIDE DEF Up
  <2> QED
    BY <1>0, <2>2
<1>2. ASSUME NEW m \in 1 .. n, m - 1 \in good PROVE m \in good
  <2>0. PICK h : Up(h, m - 1)
    <3> HIDE DEF Up
    <3> QED
      BY <1>2
  <2>1. \A k \in 0 .. m - 1 : h[k] = IF k = 0 THEN start ELSE Passed(h[k - 1], n + 1 - k)
    BY <2>0
  <2> DEFINE g == [k \in 0 .. m |-> IF k = m THEN Passed(h[m - 1], n + 1 - m) ELSE h[k]]
  <2>2. \A k \in 0 .. m - 1 : k \in 0 .. m /\ k # m /\ g[k] = h[k]
    BY <1>0
  <2>3. ASSUME NEW k \in 0 .. m
        PROVE  g[k] = IF k = 0 THEN start ELSE Passed(g[k - 1], n + 1 - k)
    <3>1. k # 0 => k - 1 \in 0 .. m - 1
      BY <1>0
    <3>2. k # 0 => g[k - 1] = h[k - 1]
      BY <2>2, <3>1
    <3>3. CASE k = m
      <4>1. k # 0 /\ g[k] = Passed(h[k - 1], n + 1 - k)
        BY <1>0, <3>3
      <4> QED
        BY <3>2, <4>1
    <3>4. CASE k # m
      <4>1. k \in 0 .. m - 1
        BY <1>0, <3>4
      <4> QED
        BY <2>1, <2>2, <3>2, <4>1
    <3> QED
      BY <3>3, <3>4
  <2>4. g = [k \in 0 .. m |-> g[k]]
    OBVIOUS
  <2> HIDE DEF g
  <2>5. Up(g, m)
    BY <2>3, <2>4
  <2> HIDE DEF Up
  <2>6. m \in 0 .. n
    BY <1>0
  <2> QED
    BY <2>5, <2>6
<1> HIDE DEF good
<1>3. good \in SUBSET (0 .. n)
  BY DEF good
<1>4. good = 0 .. n
  BY <1>0, <1>1, <1>2, <1>3, UpTo
<1>5. PICK walk : Up(walk, n)
  <2> HIDE DEF Up
  <2> QED
    BY <1>0, <1>4 DEF good
<1> QED
  BY <1>5 DEF n

\* What holds of the walk at every step gives the history at its end: there is nothing
\* left that it could look for.
LEMMA HistoryRight ==
  ASSUME TypeInv, read.pool \union InBlocks \subseteq Ids, NEW t \in read.pool \union InBlocks,
         ToSet(Lineage(t)) = {u \in read.pool \union InBlocks : Last(Lineage(t)) <= u}
  PROVE  History(t) = Lineage(t)
<1> DEFINE n == Len(txs)
           there == read.pool \union InBlocks
           low == Last(Lineage(t))
           line == Lineage(t)
           start == [on |-> TRUE, target |-> t, found |-> <<>>]
           D(walk) == walk = [k \in 0 .. Len(txs) |->
                                IF k = 0 THEN start ELSE Passed(walk[k - 1], Len(txs) + 1 - k)]
           w == CHOOSE walk : D(walk)
           good == {k \in 0 .. n : OnTheWay(w[k], n - k, low, line) \/ Ended(w[k], line)}
<1>0. n \in Nat /\ Ids = 1 .. n /\ t \in Ids
  BY TxFacts
<1>1. History(t) = w[n].found
  BY DEF History
<1>2. D(w)
  <2>1. \E walk : D(walk)
    <3> HIDE DEF start
    <3> QED
      BY WalkDefined
  <2> HIDE DEF D
  <2> QED
    BY <2>1
<1>3. \A k \in 0 .. n : w[k] = IF k = 0 THEN start ELSE Passed(w[k - 1], n + 1 - k)
  BY <1>2
<1> HIDE DEF w
<1>4. low \in Nat
  <2>1. line \in Seq(Ids) /\ t \in ToSet(line)
    BY <1>0, LineageTypes
  <2> HIDE DEF line
  <2>2. Len(line) \in Nat /\ DOMAIN line = 1 .. Len(line)
    BY <2>1
  <2>3. Len(line) \in DOMAIN line
    BY <2>1, <2>2 DEF ToSet
  <2>4. line[Len(line)] \in Ids
    BY <2>1, <2>3
  <2> QED
    BY <1>0, <2>4 DEF Last, line
<1>5. 0 \in good
  <2>1. w[0] = start /\ 0 \in 0 .. n /\ n - 0 = n
    <3> HIDE DEF start, n
    <3>1. 0 \in 0 .. n /\ n - 0 = n
      BY <1>0
    <3> QED
      BY <1>3, <3>1
  <2>2. t <= n /\ \A u \in there : u <= n
    BY <1>0
  <2>3. <<>> \in Seq(Ids) /\ <<>> \o line = line
    BY <1>0, LineageTypes, ConcatEmptySeq
  <2> HIDE DEF low
  <2>4. ToSet(line) = {u \in there : low <= u /\ u <= n}
    BY <2>2 DEF low
  <2>5. OnTheWay(start, n, low, line)
    BY <1>0, <2>2, <2>3, <2>4 DEF OnTheWay
  <2> QED
    BY <2>1, <2>5
<1> HIDE DEF low, line, start, n, there
<1>6. ASSUME NEW k \in 1 .. n, k - 1 \in good PROVE k \in good
  <2> DEFINE c == n + 1 - k
  <2>1. /\ c \in Ids /\ c - 1 = n - k /\ n - (k - 1) = c /\ k \in 0 .. n /\ k # 0
    BY <1>0
  <2>2. w[k] = Passed(w[k - 1], c)
    BY <1>3, <2>1
  <2>3. OnTheWay(w[k - 1], c, low, line) \/ Ended(w[k - 1], line)
    BY <1>6, <2>1
  <2> HIDE DEF c
  <2>4. OnTheWay(w[k], c - 1, low, line) \/ Ended(w[k], line)
    BY <1>4, <2>1, <2>2, <2>3, PassOn, PassEnded
  <2> QED
    BY <2>1, <2>4
<1>7. good \in SUBSET (0 .. n)
  OBVIOUS
<1>8. n \in good
  <2> HIDE DEF good
  <2>1. good = 0 .. n
    BY <1>0, <1>5, <1>6, <1>7, UpTo
  <2> QED
    BY <1>0, <2>1
<1>9. ~OnTheWay(w[n], n - n, low, line)
  <2>1. ~(\E v \in Ids : v <= n - n)
    BY <1>0
  <2> QED
    BY <2>1 DEF OnTheWay
<1>10. Ended(w[n], line)
  BY <1>8, <1>9
<1> QED
  BY <1>1, <1>10 DEF Ended, line

LEMMA HistoryOfRead == TypeInv /\ ReadInv => HistoryFollows
<1> SUFFICES ASSUME TypeInv, ReadInv, Answered,
                    NEW t \in read.pool \union InBlocks,
                    ToSet(Lineage(t)) = {u \in read.pool \union InBlocks : Last(Lineage(t)) <= u}
             PROVE  History(t) = Lineage(t)
  BY DEF HistoryFollows
<1>1. read.blocks \subseteq chain /\ read.pool \subseteq Ids
  BY DEF ReadInv, Held, Answered, TypeInv, TypeOK, Read
<1>2. read.pool \union InBlocks \subseteq Ids
  BY <1>1, EntriesCounted
<1> QED
  BY <1>2, HistoryRight

\* The history of the newest transaction is its whole line, each one once, when nothing
\* else was posted since the first one of the line, even where the walk meets one twice,
\* in the pool and in a block.
THEOREM HistoriesFollow == Spec => []HistoryFollows
<1>1. Init => TypeInv /\ ReadInv
  BY TypeInit, ReadInit
<1>2. TypeInv /\ ReadInv /\ [Next]_vars => (TypeInv /\ ReadInv)'
  BY TypeStep, ReadStep
<1>3. TypeInv /\ ReadInv => HistoryFollows
  BY HistoryOfRead
<1> QED
  BY <1>1, <1>2, <1>3, PTL DEF Spec
=============================================================================
