------------------------ MODULE PoolDelivery_proofs ------------------------
(***************************************************************************)
(* Proofs about PoolDelivery: types, that no posted transaction is lost,   *)
(* that the flag deliveryF can be relied on, and that what every node has  *)
(* is blocked once, for any nodes, losses and scans.                       *)
(***************************************************************************)
EXTENDS PoolDelivery, TLAPS

-----------------------------------------------------------------------------
(* Types *)

LEMMA TypeInit == ASSUME ConstantsOK, Init PROVE TypeOK
  BY DEF Init, TypeOK, ConstantsOK, DeliveryRun, AppendRun, ScanRun,
         NoDelivery, NoAppend, NoScan

LEMMA Update ==
  ASSUME NEW S, NEW T, NEW f \in [S -> T], NEW x \in S, NEW v \in T
  PROVE  [f EXCEPT ![x] = v] \in [S -> T]
  OBVIOUS

\* The bookkeeping of the delivery and of the scan.
LEMMA TypeDelivery ==
  ASSUME TypeOK, NEW n \in Nodes, NEW m \in Nodes, NEW answered \in BOOLEAN,
         \/ StartDelivery(n) \/ DeliverNothing(n) \/ FinishDelivery(n)
         \/ AddPool(n, m, answered) \/ DeliveryLost(n, m)
  PROVE  delivery' \in [Nodes -> DeliveryRun]
<1> DEFINE d == delivery[n]
<1>1. delivery \in [Nodes -> DeliveryRun] /\ d \in DeliveryRun
  BY DEF TypeOK
<1>2. NoDelivery \in DeliveryRun
  BY DEF NoDelivery, DeliveryRun
<1>3. CASE StartDelivery(n)
  <2>1. [NoDelivery EXCEPT !.stage = "run", !.txs = InPool(n, "new"),
                           !.left = Others(n)] \in DeliveryRun
    BY DEF NoDelivery, DeliveryRun, InPool, Others
  <2> QED BY <1>1, <1>3, <2>1, Update DEF StartDelivery
<1>4. [d EXCEPT !.stage = "threw"] \in DeliveryRun
  BY <1>1 DEF DeliveryRun
<1>5. CASE DeliverNothing(n)
  <2>1. delivery' = [delivery EXCEPT ![n] = [d EXCEPT !.stage = "threw"]]
    BY <1>1, <1>5 DEF DeliverNothing
  <2> QED BY <1>1, <1>4, <2>1, Update
<1>6. CASE FinishDelivery(n)
  <2>1. \/ delivery' = [delivery EXCEPT ![n] = [d EXCEPT !.stage = "threw"]]
        \/ delivery' = [delivery EXCEPT ![n] = NoDelivery]
    BY <1>1, <1>6 DEF FinishDelivery
  <2> QED BY <1>1, <1>2, <1>4, <2>1, Update
<1>7. CASE AddPool(n, m, answered)
  <2> DEFINE all == \A t \in d.txs : pool[m][t] = "none"
             v == IF answered THEN [d EXCEPT !.left = @ \ {m}, !.ok = @ \/ all]
                              ELSE [d EXCEPT !.torn = TRUE]
  <2>1. delivery' = [delivery EXCEPT ![n] = v]
    BY <1>7 DEF AddPool
  <2>2. all \in BOOLEAN
    OBVIOUS
  <2> HIDE DEF all
  <2>3. v \in DeliveryRun
    BY <1>1, <2>2 DEF DeliveryRun
  <2> HIDE DEF v
  <2> QED BY <1>1, <2>1, <2>3, Update
<1>8. CASE DeliveryLost(n, m)
  <2>1. delivery' =
          [delivery EXCEPT ![n] = [d EXCEPT !.left = @ \ {m}, !.torn = TRUE]]
    BY <1>1, <1>8 DEF DeliveryLost, DeliveryRun
  <2>2. [d EXCEPT !.left = @ \ {m}, !.torn = TRUE] \in DeliveryRun
    BY <1>1 DEF DeliveryRun
  <2> QED BY <1>1, <2>1, <2>2, Update
<1> QED BY <1>3, <1>5, <1>6, <1>7, <1>8

LEMMA TypeScan ==
  ASSUME TypeOK, NEW n \in Nodes, NEW m \in Nodes, NEW answered \in BOOLEAN,
         \/ StartScan(n) \/ FinishScan(n)
         \/ ExaminePool(n, m, answered) \/ ScanLost(n, m)
  PROVE  scan' \in [Nodes -> ScanRun]
<1> DEFINE s == scan[n]
<1>1. scan \in [Nodes -> ScanRun] /\ s \in ScanRun
  BY DEF TypeOK
<1>2. NoScan \in ScanRun
  BY DEF NoScan, ScanRun
<1>3. CASE StartScan(n)
  <2> DEFINE have == {t \in Txs : pool'[n][t] # "none"}
  <2>1. [NoScan EXCEPT !.stage = "run", !.left = Others(n), !.have = have]
          \in ScanRun
    BY DEF NoScan, ScanRun, Others
  <2> QED BY <1>1, <1>3, <2>1, Update DEF StartScan
<1>4. CASE FinishScan(n)
  <2>1. [s EXCEPT !.stage = "threw"] \in ScanRun
    BY <1>1 DEF ScanRun
  <2>2. \/ scan' = [scan EXCEPT ![n] = [s EXCEPT !.stage = "threw"]]
        \/ scan' = [scan EXCEPT ![n] = NoScan]
    BY <1>1, <1>4 DEF FinishScan
  <2> QED BY <1>1, <1>2, <2>1, <2>2, Update
<1>5. CASE ExaminePool(n, m, answered)
  <2> DEFINE more == {<<t, pool[m][t]>> :
                        t \in {u \in Txs \ s.have : pool[m][u] # "none"}}
             v == IF answered THEN [s EXCEPT !.left = @ \ {m}, !.got = @ \union more]
                              ELSE [s EXCEPT !.torn = TRUE]
  <2>1. scan' = [scan EXCEPT ![n] = v]
    BY <1>5 DEF ExaminePool
  <2>2. more \subseteq Txs \X {"new", "sent"}
    BY DEF TypeOK
  <2> HIDE DEF more
  <2>3. v \in ScanRun
    BY <1>1, <2>2 DEF ScanRun
  <2> HIDE DEF v
  <2> QED BY <1>1, <2>1, <2>3, Update
<1>6. CASE ScanLost(n, m)
  <2>1. scan' = [scan EXCEPT ![n] = [s EXCEPT !.left = @ \ {m}, !.torn = TRUE]]
    BY <1>1, <1>6 DEF ScanLost, ScanRun
  <2>2. [s EXCEPT !.left = @ \ {m}, !.torn = TRUE] \in ScanRun
    BY <1>1 DEF ScanRun
  <2> QED BY <1>1, <2>1, <2>2, Update
<1> QED BY <1>3, <1>4, <1>5, <1>6

LEMMA TypePool ==
  ASSUME TypeOK, ConstantsOK, NEW n \in Nodes, NEW m \in Nodes,
         NEW answered \in BOOLEAN,
         \/ \E t \in Txs : Post(t)
         \/ FinishDelivery(n) \/ StartScan(n) \/ FinishScan(n)
         \/ AddPool(n, m, answered)
         \/ \E b \in Blocks : StoreBlock(n, b)
  PROVE  pool' \in [Nodes -> [Txs -> {"none", "new", "sent"}]]
<1> DEFINE Pool == [Txs -> {"none", "new", "sent"}]
<1>1. pool \in [Nodes -> Pool] /\ pool[n] \in Pool /\ pool[m] \in Pool
  BY DEF TypeOK
<1>2. ASSUME NEW t \in Txs, Post(t) PROVE pool' \in [Nodes -> Pool]
  <2>1. Origin[t] \in Nodes
    BY DEF ConstantsOK
  <2>2. PoolAppendToDb(pool[Origin[t]], {t}, "new") \in Pool
    BY <1>1, <2>1 DEF PoolAppendToDb
  <2>3. pool' = [pool EXCEPT ![Origin[t]] =
                   PoolAppendToDb(pool[Origin[t]], {t}, "new")]
    BY <1>1, <1>2, <2>1 DEF Post
  <2> QED BY <1>1, <2>1, <2>2, <2>3, Update
<1>3. CASE FinishDelivery(n)
  BY <1>1, <1>3 DEF FinishDelivery, PoolUpdateFlagsByOid
<1>4. CASE StartScan(n)
  BY <1>1, <1>4 DEF StartScan, PoolDeleteByOid
<1>5. CASE FinishScan(n)
  BY <1>1, <1>5 DEF FinishScan
<1>6. CASE AddPool(n, m, answered)
  BY <1>1, <1>6 DEF AddPool, PoolAppendToDb
<1>7. ASSUME NEW b \in Blocks, StoreBlock(n, b) PROVE pool' \in [Nodes -> Pool]
  BY <1>1, <1>7 DEF StoreBlock, PoolDeleteByOid
<1> QED BY <1>2, <1>3, <1>4, <1>5, <1>6, <1>7

\* The rest of the state.
LEMMA TypeBlocks ==
  ASSUME TypeOK, NEW n \in Nodes,
         \/ StartAppend(n) \/ Skip(n) \/ FinishAppend(n)
         \/ \E b \in Blocks : Claim(n, b) \/ StoreBlock(n, b)
  PROVE  /\ append' \in [Nodes -> AppendRun]
         /\ body' \in [Blocks -> SUBSET Txs]
         /\ chain' \in [Nodes -> SUBSET Blocks]
         /\ claims' \subseteq Blocks
<1> DEFINE Goal == /\ append' \in [Nodes -> AppendRun]
                   /\ body' \in [Blocks -> SUBSET Txs]
                   /\ chain' \in [Nodes -> SUBSET Blocks]
                   /\ claims' \subseteq Blocks
<1>1. append[n] \in AppendRun /\ NoAppend \in AppendRun
  BY DEF TypeOK, NoAppend, AppendRun
<1>2. CASE StartAppend(n)
  <2>1. [stage |-> "packed", txs |-> InPool(n, "sent")] \in AppendRun
    BY DEF AppendRun, InPool
  <2> QED BY <1>2, <2>1 DEF StartAppend, TypeOK
<1>3. ASSUME NEW b \in Blocks, Claim(n, b) PROVE Goal
  <2>1. /\ append' = [append EXCEPT ![n] = [append[n] EXCEPT !.stage = "travel"]]
        /\ body' = [body EXCEPT ![b] = append[n].txs]
        /\ claims' = claims \union {b}
        /\ chain' = chain
    BY <1>3 DEF Claim, TypeOK
  <2>2. /\ [append[n] EXCEPT !.stage = "travel"] \in AppendRun
        /\ append[n].txs \subseteq Txs
    BY <1>1 DEF AppendRun
  <2> QED BY <2>1, <2>2, Update DEF TypeOK
<1>4. ASSUME NEW b \in Blocks, StoreBlock(n, b) PROVE Goal
  BY <1>4 DEF StoreBlock, TypeOK
<1>5. CASE Skip(n) \/ FinishAppend(n)
  BY <1>1, <1>5 DEF Skip, FinishAppend, TypeOK
<1> QED BY <1>2, <1>3, <1>4, <1>5

LEMMA TypeBudget ==
  ASSUME TypeOK, ConstantsOK, Lose
  PROVE  losses' \in 0 .. MaxLosses
  BY DEF TypeOK, ConstantsOK, Lose

LEMMA TypeStep == TypeOK /\ ConstantsOK /\ [Next]_vars => TypeOK'
<1> SUFFICES ASSUME TypeOK, ConstantsOK, [Next]_vars PROVE TypeOK'
  OBVIOUS
<1>1. CASE UNCHANGED vars
  BY <1>1 DEF vars, TypeOK
<1>2. ASSUME NEW t \in Txs, Post(t) PROVE TypeOK'
  <2>1. Origin[t] \in Nodes
    BY DEF ConstantsOK
  <2>2. pool' \in [Nodes -> [Txs -> {"none", "new", "sent"}]]
    BY <1>2, <2>1, TypePool
  <2> QED BY <1>2, <2>2 DEF Post, TypeOK
<1>3. ASSUME NEW n \in Nodes,
             \/ StartDelivery(n) \/ DeliverNothing(n) \/ FinishDelivery(n)
             \/ \E m \in Nodes : DeliveryLost(n, m)
      PROVE  TypeOK'
  <2>1. delivery' \in [Nodes -> DeliveryRun]
    BY <1>3, TypeDelivery
  <2>2. pool' \in [Nodes -> [Txs -> {"none", "new", "sent"}]]
    BY <1>3, TypePool
       DEF StartDelivery, DeliverNothing, DeliveryLost, TypeOK
  <2>3. losses' \in 0 .. MaxLosses
    BY <1>3, TypeBudget
       DEF StartDelivery, DeliverNothing, DeliveryLost, FinishDelivery, TypeOK
  <2> QED
    BY <1>3, <2>1, <2>2, <2>3
       DEF StartDelivery, DeliverNothing, DeliveryLost, FinishDelivery, TypeOK
<1>4. ASSUME NEW n \in Nodes, NEW m \in Nodes, NEW answered \in BOOLEAN,
             AddPool(n, m, answered)
      PROVE  TypeOK'
  <2>1. delivery' \in [Nodes -> DeliveryRun]
    BY <1>4, TypeDelivery
  <2>2. pool' \in [Nodes -> [Txs -> {"none", "new", "sent"}]]
    BY <1>4, TypePool
  <2>3. losses' \in 0 .. MaxLosses
    BY <1>4, TypeBudget DEF AddPool, Answered, TypeOK
  <2> QED BY <1>4, <2>1, <2>2, <2>3 DEF AddPool, TypeOK
<1>5. ASSUME NEW n \in Nodes,
             \/ StartAppend(n) \/ Skip(n) \/ FinishAppend(n)
             \/ \E b \in Blocks : Claim(n, b) \/ StoreBlock(n, b)
      PROVE  TypeOK'
  <2>1. pool' \in [Nodes -> [Txs -> {"none", "new", "sent"}]]
    BY <1>5, TypePool
       DEF StartAppend, Claim, Skip, FinishAppend, TypeOK
  <2>2. /\ append' \in [Nodes -> AppendRun]
        /\ body' \in [Blocks -> SUBSET Txs]
        /\ chain' \in [Nodes -> SUBSET Blocks]
        /\ claims' \subseteq Blocks
    BY <1>5, TypeBlocks
  <2> QED
    BY <1>5, <2>1, <2>2
       DEF StartAppend, Claim, Skip, FinishAppend, StoreBlock, TypeOK
<1>6. ASSUME NEW n \in Nodes,
             \/ StartScan(n) \/ FinishScan(n)
             \/ \E m \in Nodes : ScanLost(n, m)
             \/ \E m \in Nodes, answered \in BOOLEAN : ExaminePool(n, m, answered)
      PROVE  TypeOK'
  <2>1. scan' \in [Nodes -> ScanRun]
    BY <1>6, TypeScan
  <2>2. pool' \in [Nodes -> [Txs -> {"none", "new", "sent"}]]
    BY <1>6, TypePool DEF ScanLost, ExaminePool, TypeOK
  <2>3. losses' \in 0 .. MaxLosses
    BY <1>6, TypeBudget
       DEF StartScan, FinishScan, ScanLost, ExaminePool, Answered, TypeOK
  <2>4. scans' \in 0 .. MaxScans
    <3>1. CASE StartScan(n)
      BY <3>1 DEF StartScan, TypeOK, ConstantsOK
    <3>2. CASE ~StartScan(n)
      <4>1. UNCHANGED scans
        BY <1>6, <3>2 DEF FinishScan, ScanLost, ExaminePool
      <4> QED BY <4>1 DEF TypeOK
    <3> QED BY <3>1, <3>2
  <2> QED
    BY <1>6, <2>1, <2>2, <2>3, <2>4
       DEF StartScan, FinishScan, ScanLost, ExaminePool, TypeOK
<1>7. ASSUME NEW b \in Blocks, Expire(b) PROVE TypeOK'
  BY <1>7 DEF Expire, TypeOK
<1>8. ASSUME NEW n \in Nodes,
             \/ StartDelivery(n) \/ DeliverNothing(n) \/ FinishDelivery(n)
             \/ StartAppend(n) \/ Skip(n) \/ FinishAppend(n)
             \/ StartScan(n) \/ FinishScan(n)
             \/ \E m \in Nodes :
                  \/ \E answered \in BOOLEAN : \/ AddPool(n, m, answered)
                                               \/ ExaminePool(n, m, answered)
                  \/ DeliveryLost(n, m) \/ ScanLost(n, m)
             \/ \E b \in Blocks : Claim(n, b) \/ StoreBlock(n, b)
      PROVE  TypeOK'
  <2>1. CASE \/ StartAppend(n) \/ Skip(n) \/ FinishAppend(n)
             \/ \E b \in Blocks : Claim(n, b) \/ StoreBlock(n, b)
    BY <1>5, <2>1
  <2>2. CASE \/ StartDelivery(n) \/ DeliverNothing(n) \/ FinishDelivery(n)
             \/ \E m \in Nodes : DeliveryLost(n, m)
    BY <1>3, <2>2
  <2>3. CASE \E m \in Nodes, answered \in BOOLEAN : AddPool(n, m, answered)
    BY <1>4, <2>3
  <2>4. CASE \/ StartScan(n) \/ FinishScan(n)
             \/ \E m \in Nodes : ScanLost(n, m)
             \/ \E m \in Nodes, answered \in BOOLEAN : ExaminePool(n, m, answered)
    BY <1>6, <2>4
  <2> QED BY <1>8, <2>1, <2>2, <2>3, <2>4
<1> QED
  BY <1>1, <1>2, <1>7, <1>8 DEF Next

\* The state keeps its types.
THEOREM TypeCorrect == Spec => []TypeOK
<1>1. Init => TypeOK
  BY TypeInit, ConstantsOK
<1>2. TypeOK /\ [Next]_vars => TypeOK'
  BY TypeStep, ConstantsOK
<1> QED
  BY <1>1, <1>2, PTL DEF Spec

-----------------------------------------------------------------------------
(* Nothing is lost, and the flag can be relied on *)

\* Everything under way has been posted.
Posted ==
  /\ \A n \in Nodes, t \in Txs : pool[n][t] # "none" => t \in posted
  /\ \A n \in Nodes : delivery[n].txs \subseteq posted
  /\ \A n \in Nodes, t \in Txs, f \in {"new", "sent"} :
       <<t, f>> \in scan[n].got => t \in posted

\* A delivery in which nothing has failed has reached the nodes that are not
\* awaited any more.
Reached ==
  \A n \in Nodes : (delivery[n].stage = "run" /\ ~delivery[n].torn) =>
    \A t \in delivery[n].txs, m \in Nodes \ delivery[n].left : Knows(m, t)

PoolInv == Posted /\ Reached /\ NeverLost /\ FlagMeansKnown

\* What a step may do to an entry of a pool: drop it, as it is in the chain;
\* insert it, as a copy of one that is posted; post it; or set its flag, if all
\* nodes know it.
PoolChange ==
  \A n \in Nodes, t \in Txs : pool'[n][t] # pool[n][t] =>
    \/ pool'[n][t] = "none" /\ t \in Recorded(n)'
    \/ pool[n][t] = "none" /\ t \in posted
    \/ n = Origin[t] /\ pool'[n][t] = "new" /\ t \in posted'
    \/ /\ pool[n][t] # "none" /\ pool'[n][t] = "sent"
       /\ \A m \in Nodes : Knows(m, t)

\* The steps that matter to pools and chains; the others leave them alone.
StorageStep ==
  \/ \E t \in Txs : Post(t)
  \/ \E n \in Nodes : FinishDelivery(n) \/ StartScan(n) \/ FinishScan(n)
  \/ \E n, m \in Nodes, answered \in BOOLEAN : AddPool(n, m, answered)
  \/ \E n \in Nodes, b \in Blocks : Claim(n, b) \/ StoreBlock(n, b)

LEMMA StorageOrNot ==
  ASSUME [Next]_vars, ~StorageStep
  PROVE  UNCHANGED <<posted, pool, chain, body>>
<1> DEFINE Kept == UNCHANGED <<posted, pool, chain, body>>
<1>1. CASE UNCHANGED vars
  BY <1>1 DEF vars
<1>2. ASSUME NEW n \in Nodes,
             \/ StartDelivery(n) \/ DeliverNothing(n)
             \/ StartAppend(n) \/ Skip(n) \/ FinishAppend(n)
      PROVE  Kept
  BY <1>2 DEF StartDelivery, DeliverNothing, StartAppend, Skip, FinishAppend
<1>3. ASSUME NEW n \in Nodes, NEW m \in Nodes,
             \/ DeliveryLost(n, m) \/ ScanLost(n, m)
             \/ \E answered \in BOOLEAN : ExaminePool(n, m, answered)
      PROVE  Kept
  BY <1>3 DEF DeliveryLost, ScanLost, ExaminePool
<1>4. ASSUME NEW b \in Blocks, Expire(b) PROVE Kept
  BY <1>4 DEF Expire
<1> HIDE DEF Kept
<1>5. ASSUME Next PROVE Kept
  <2>1. ASSUME NEW n \in Nodes,
               \/ StartDelivery(n) \/ DeliverNothing(n) \/ FinishDelivery(n)
               \/ StartAppend(n) \/ Skip(n) \/ FinishAppend(n)
               \/ StartScan(n) \/ FinishScan(n)
               \/ \E m \in Nodes :
                    \/ \E answered \in BOOLEAN : \/ AddPool(n, m, answered)
                                                 \/ ExaminePool(n, m, answered)
                    \/ DeliveryLost(n, m) \/ ScanLost(n, m)
               \/ \E b \in Blocks : Claim(n, b) \/ StoreBlock(n, b)
        PROVE  Kept
    <3>1. CASE FinishDelivery(n) \/ StartScan(n) \/ FinishScan(n)
      BY <3>1 DEF StorageStep
    <3>2. CASE \/ StartDelivery(n) \/ DeliverNothing(n)
               \/ StartAppend(n) \/ Skip(n) \/ FinishAppend(n)
      BY <1>2, <3>2
    <3>3. CASE \E b \in Blocks : Claim(n, b) \/ StoreBlock(n, b)
      BY <3>3 DEF StorageStep
    <3>4. ASSUME NEW m \in Nodes,
                 \/ \E answered \in BOOLEAN : \/ AddPool(n, m, answered)
                                              \/ ExaminePool(n, m, answered)
                 \/ DeliveryLost(n, m) \/ ScanLost(n, m)
          PROVE  Kept
      <4>1. ~\E answered \in BOOLEAN : AddPool(n, m, answered)
        BY DEF StorageStep
      <4> QED BY <1>3, <3>4, <4>1
    <3> QED BY <2>1, <3>1, <3>2, <3>3, <3>4
  <2>2. ASSUME NEW t \in Txs, Post(t) PROVE Kept
    BY <2>2 DEF StorageStep
  <2> QED BY <1>4, <1>5, <2>1, <2>2 DEF Next
<1> QED BY <1>1, <1>5 DEF Kept

LEMMA RecordedGrows ==
  ASSUME TypeOK, [Next]_vars, NEW n \in Nodes
  PROVE  Recorded(n) \subseteq Recorded(n)'
<1>1. chain[n] \subseteq chain'[n]
  <2>1. ASSUME NEW m \in Nodes, NEW b \in Blocks, StoreBlock(m, b)
        PROVE  chain[n] \subseteq chain'[n]
    BY <2>1 DEF StoreBlock, TypeOK
  <2>2. CASE UNCHANGED chain
    BY <2>2
  <2> QED
    BY <2>1, <2>2, StorageOrNot, ZenonT(60) DEF StorageStep, Post, AddPool,
       FinishDelivery, Claim, StartScan, FinishScan
<1>2. \A b \in Blocks : body[b] \subseteq body'[b]
  <2>1. ASSUME NEW m \in Nodes, NEW b \in Blocks, Claim(m, b)
        PROVE  \A a \in Blocks : body[a] \subseteq body'[a]
    BY <2>1 DEF Claim, TypeOK
  <2>2. CASE UNCHANGED body
    BY <2>2
  <2> QED
    BY <2>1, <2>2, StorageOrNot DEF StorageStep, Post, AddPool,
       FinishDelivery, StoreBlock, StartScan, FinishScan
<1>3. chain[n] \subseteq Blocks
  BY DEF TypeOK
<1> QED
  BY <1>1, <1>2, <1>3, SMTT(30) DEF Recorded

LEMMA PoolChangeStep ==
  ASSUME TypeOK, ConstantsOK, PoolInv, [Next]_vars
  PROVE  PoolChange
<1>1. CASE UNCHANGED pool
  BY <1>1 DEF PoolChange
<1>2. ASSUME NEW u \in Txs, Post(u) PROVE PoolChange
  <2> SUFFICES ASSUME NEW n \in Nodes, NEW t \in Txs, pool'[n][t] # pool[n][t]
               PROVE  n = Origin[t] /\ pool'[n][t] = "new" /\ t \in posted'
    BY DEF PoolChange
  <2> QED
    BY <1>2 DEF Post, PoolAppendToDb, TypeOK, ConstantsOK
<1>3. ASSUME NEW k \in Nodes, FinishDelivery(k) PROVE PoolChange
  <2> SUFFICES ASSUME NEW n \in Nodes, NEW t \in Txs, pool'[n][t] # pool[n][t]
               PROVE  /\ pool[n][t] # "none" /\ pool'[n][t] = "sent"
                      /\ \A m \in Nodes : Knows(m, t)
    BY DEF PoolChange
  <2>1. /\ n = k /\ pool[n][t] # "none" /\ pool'[n][t] = "sent" /\ t \in delivery[k].txs
        /\ ~delivery[k].torn /\ delivery[k].stage = "run" /\ delivery[k].left = {}
    BY <1>3 DEF FinishDelivery, PoolUpdateFlagsByOid, TypeOK
  <2> QED
    BY <2>1 DEF PoolInv, Reached
<1>4. ASSUME NEW k \in Nodes, NEW m \in Nodes, NEW answered \in BOOLEAN,
             AddPool(k, m, answered)
      PROVE  PoolChange
  <2> SUFFICES ASSUME NEW n \in Nodes, NEW t \in Txs, pool'[n][t] # pool[n][t]
               PROVE  pool[n][t] = "none" /\ t \in posted
    BY DEF PoolChange
  <2>1. pool[n][t] = "none" /\ t \in delivery[k].txs
    BY <1>4 DEF AddPool, PoolAppendToDb, TypeOK
  <2> QED
    BY <2>1 DEF PoolInv, Posted
<1>5. ASSUME NEW k \in Nodes, NEW b \in Blocks, StoreBlock(k, b)
      PROVE  PoolChange
  <2> SUFFICES ASSUME NEW n \in Nodes, NEW t \in Txs, pool'[n][t] # pool[n][t]
               PROVE  pool'[n][t] = "none" /\ t \in Recorded(n)'
    BY DEF PoolChange
  <2>1. n = k /\ t \in body[b] /\ pool'[n][t] = "none"
    BY <1>5 DEF StoreBlock, PoolDeleteByOid, TypeOK
  <2>2. b \in chain'[n] /\ body' = body
    BY <1>5, <2>1 DEF StoreBlock, TypeOK
  <2> QED
    BY <2>1, <2>2 DEF Recorded
<1>6. ASSUME NEW k \in Nodes, StartScan(k) PROVE PoolChange
  <2> SUFFICES ASSUME NEW n \in Nodes, NEW t \in Txs, pool'[n][t] # pool[n][t]
               PROVE  pool'[n][t] = "none" /\ t \in Recorded(n)'
    BY DEF PoolChange
  <2>1. n = k /\ t \in Recorded(n) /\ pool'[n][t] = "none"
    BY <1>6 DEF StartScan, PoolDeleteByOid, TypeOK
  <2> QED
    BY <2>1, RecordedGrows
<1>7. ASSUME NEW k \in Nodes, FinishScan(k) PROVE PoolChange
  <2> SUFFICES ASSUME NEW n \in Nodes, NEW t \in Txs, pool'[n][t] # pool[n][t]
               PROVE  pool[n][t] = "none" /\ t \in posted
    BY DEF PoolChange
  <2>1. n = k /\ pool[n][t] = "none"
          /\ \E f \in {"new", "sent"} : <<t, f>> \in scan[k].got
    BY <1>7 DEF FinishScan, Repaired, TypeOK
  <2> QED
    BY <2>1 DEF PoolInv, Posted
<1>8. ASSUME NEW k \in Nodes, NEW b \in Blocks, Claim(k, b) PROVE PoolChange
  BY <1>1, <1>8 DEF Claim
<1> QED
  BY <1>1, <1>2, <1>3, <1>4, <1>5, <1>6, <1>7, <1>8, StorageOrNot
     DEF StorageStep

\* What a node knows it never forgets.
LEMMA KnowsKept ==
  ASSUME TypeOK, TypeOK', PoolChange, [Next]_vars,
         NEW n \in Nodes, NEW t \in Txs, Knows(n, t)
  PROVE  Knows(n, t)'
<1>1. CASE t \in Recorded(n)
  BY <1>1, RecordedGrows DEF Knows
<1>2. CASE pool[n][t] # "none"
  BY <1>2, SMTT(30) DEF PoolChange, Knows
<1> QED BY <1>1, <1>2 DEF Knows

LEMMA PostedGrows == ASSUME [Next]_vars PROVE posted \subseteq posted'
  BY StorageOrNot DEF StorageStep, Post, AddPool, FinishDelivery, Claim,
     StoreBlock, StartScan, FinishScan

LEMMA PoolInvInit == ASSUME ConstantsOK, Init PROVE PoolInv
<1>1. /\ posted = {}
      /\ \A n \in Nodes, t \in Txs : pool[n][t] = "none"
      /\ \A n \in Nodes : delivery[n] = NoDelivery /\ scan[n] = NoScan
  BY DEF Init
<1>2. NoDelivery.txs = {} /\ NoDelivery.stage = "idle" /\ NoScan.got = {}
  BY DEF NoDelivery, NoScan
<1>3. Posted
  BY <1>1, <1>2 DEF Posted
<1>4. Reached
  BY <1>1, <1>2 DEF Reached
<1>5. NeverLost
  BY <1>1 DEF NeverLost
<1>6. FlagMeansKnown
  BY <1>1 DEF FlagMeansKnown, ConstantsOK
<1> QED BY <1>3, <1>4, <1>5, <1>6 DEF PoolInv

LEMMA NeverLostStep ==
  ASSUME TypeOK, TypeOK', ConstantsOK, PoolInv, [Next]_vars
  PROVE  NeverLost'
<1>1. PoolChange
  BY PoolChangeStep
<1> SUFFICES ASSUME NEW t \in posted' PROVE Knows(Origin[t], t)'
  BY DEF NeverLost
<1>2. t \in Txs /\ Origin[t] \in Nodes
  BY DEF TypeOK, ConstantsOK
<1>3. CASE t \in posted
  <2>1. Knows(Origin[t], t)
    BY <1>3 DEF PoolInv, NeverLost
  <2> QED BY <1>1, <1>2, <2>1, KnowsKept
<1>4. CASE t \notin posted
  <2>1. PICK u \in Txs : Post(u)
    BY <1>4, StorageOrNot DEF StorageStep, AddPool, FinishDelivery, Claim,
       StoreBlock, StartScan, FinishScan
  <2>2. u = t
    BY <1>4, <2>1 DEF Post
  <2>3. pool'[Origin[t]][t] # "none"
    BY <1>2, <2>1, <2>2 DEF Post, PoolAppendToDb, TypeOK
  <2> QED BY <2>3, SMTT(30) DEF Knows
<1> QED BY <1>3, <1>4

\* A flag is set when all nodes know the transaction; the copies a node inserts
\* in its own pool are never of what it has posted itself, as it knows that.
LEMMA FlagStep ==
  ASSUME TypeOK, TypeOK', ConstantsOK, PoolInv, [Next]_vars
  PROVE  FlagMeansKnown'
<1>1. PoolChange
  BY PoolChangeStep
<1> SUFFICES ASSUME NEW t \in Txs, NEW m \in Nodes,
                    pool'[Origin[t]][t] = "sent",
                    t \notin Recorded(Origin[t])'
             PROVE  Knows(m, t)'
  BY DEF FlagMeansKnown
<1> DEFINE n == Origin[t]
<1>2. n \in Nodes
  BY DEF ConstantsOK
<1>3. t \notin Recorded(n)
  BY <1>2, RecordedGrows
<1>4. Knows(m, t)
  <2>1. CASE pool'[n][t] = pool[n][t]
    BY <1>3, <2>1 DEF PoolInv, FlagMeansKnown
  <2>2. CASE pool'[n][t] # pool[n][t]
    <3>1. \/ pool[n][t] = "none" /\ t \in posted
          \/ \A k \in Nodes : Knows(k, t)
      BY <1>1, <1>2, <2>2 DEF PoolChange
    <3>2. ~(pool[n][t] = "none" /\ t \in posted)
      BY <1>3 DEF PoolInv, NeverLost, Knows
    <3> QED BY <3>1, <3>2
  <2> QED BY <2>1, <2>2
<1> QED BY <1>1, <1>4, KnowsKept

\* What a step may do to the run of a delivery: leave it alone; start it with
\* a snapshot of the pool; end it or tear it; or strike off a node that now has
\* all transactions in its pool.
DeliveryChange ==
  \A k \in Nodes :
    \/ delivery'[k] = delivery[k]
    \/ delivery'[k].txs = InPool(k, "new") /\ delivery'[k].left = Others(k)
    \/ /\ delivery'[k].txs \in {{}, delivery[k].txs}
       /\ delivery'[k].stage # "run" \/ delivery'[k].torn
    \/ /\ delivery'[k].txs = delivery[k].txs
       /\ delivery[k].stage = "run" /\ ~delivery[k].torn
       /\ \E m \in Nodes : /\ delivery'[k].left = delivery[k].left \ {m}
                           /\ \A t \in delivery[k].txs : pool'[m][t] # "none"

LEMMA DeliveryChangeStep == ASSUME TypeOK, Next PROVE DeliveryChange
<1>1. \A k \in Nodes : delivery[k] \in DeliveryRun
  BY DEF TypeOK
<1>2. CASE UNCHANGED delivery
  BY <1>2 DEF DeliveryChange
<1>3. ASSUME NEW n \in Nodes, StartDelivery(n) PROVE DeliveryChange
  <2>1. \A k \in Nodes \ {n} : delivery'[k] = delivery[k]
    BY <1>3 DEF StartDelivery, TypeOK
  <2>2. delivery'[n].txs = InPool(n, "new") /\ delivery'[n].left = Others(n)
    BY <1>3 DEF StartDelivery, TypeOK, NoDelivery
  <2> QED BY <2>1, <2>2 DEF DeliveryChange
<1>4. ASSUME NEW n \in Nodes,
             \/ DeliverNothing(n) \/ FinishDelivery(n)
             \/ \E m \in Nodes : DeliveryLost(n, m)
      PROVE  DeliveryChange
  <2>1. \A k \in Nodes \ {n} : delivery'[k] = delivery[k]
    BY <1>4 DEF DeliverNothing, FinishDelivery, DeliveryLost, TypeOK
  <2>2. /\ delivery'[n].txs \in {{}, delivery[n].txs}
        /\ delivery'[n].stage # "run" \/ delivery'[n].torn
    <3>1. CASE DeliverNothing(n)
      BY <1>1, <3>1 DEF DeliverNothing, TypeOK, DeliveryRun
    <3>2. CASE FinishDelivery(n)
      BY <1>1, <3>2 DEF FinishDelivery, TypeOK, DeliveryRun, NoDelivery
    <3>3. ASSUME NEW m \in Nodes, DeliveryLost(n, m)
          PROVE  delivery'[n].txs = delivery[n].txs /\ delivery'[n].torn
      BY <1>1, <3>3 DEF DeliveryLost, TypeOK, DeliveryRun
    <3> QED BY <1>4, <3>1, <3>2, <3>3
  <2> QED BY <2>1, <2>2 DEF DeliveryChange
<1>5. ASSUME NEW n \in Nodes, NEW m \in Nodes, NEW answered \in BOOLEAN,
             AddPool(n, m, answered)
      PROVE  DeliveryChange
  <2> DEFINE d == delivery[n]
  <2>1. \A k \in Nodes \ {n} : delivery'[k] = delivery[k]
    BY <1>5 DEF AddPool, TypeOK
  <2>2. CASE ~answered
    <3>1. delivery'[n].txs = d.txs /\ delivery'[n].torn
      BY <1>1, <1>5, <2>2 DEF AddPool, TypeOK, DeliveryRun
    <3> QED BY <2>1, <3>1 DEF DeliveryChange
  <2>3. CASE answered
    <3>1. /\ delivery'[n].txs = d.txs /\ delivery'[n].torn = d.torn
          /\ delivery'[n].left = d.left \ {m} /\ d.stage = "run"
      BY <1>1, <1>5, <2>3 DEF AddPool, TypeOK, DeliveryRun
    <3>2. \A t \in d.txs : pool'[m][t] # "none"
      BY <1>1, <1>5 DEF AddPool, PoolAppendToDb, TypeOK, DeliveryRun
    <3> QED BY <2>1, <3>1, <3>2 DEF DeliveryChange
  <2> QED BY <2>2, <2>3
<1>6. ASSUME NEW n \in Nodes,
             \/ StartAppend(n) \/ Skip(n) \/ FinishAppend(n)
             \/ StartScan(n) \/ FinishScan(n)
             \/ \E b \in Blocks : Claim(n, b) \/ StoreBlock(n, b)
      PROVE  UNCHANGED delivery
  BY <1>6 DEF StartAppend, Skip, FinishAppend, StartScan, FinishScan, Claim,
     StoreBlock
<1>7. ASSUME NEW n \in Nodes, NEW m \in Nodes,
             \/ ScanLost(n, m)
             \/ \E answered \in BOOLEAN : ExaminePool(n, m, answered)
      PROVE  UNCHANGED delivery
  BY <1>7 DEF ScanLost, ExaminePool
<1>8. ASSUME \/ \E t \in Txs : Post(t)
             \/ \E b \in Blocks : Expire(b)
      PROVE  UNCHANGED delivery
  BY <1>8 DEF Post, Expire
<1>9. ASSUME NEW n \in Nodes, NEW m \in Nodes,
             \/ \E answered \in BOOLEAN : \/ AddPool(n, m, answered)
                                          \/ ExaminePool(n, m, answered)
             \/ DeliveryLost(n, m) \/ ScanLost(n, m)
      PROVE  DeliveryChange
  <2>1. CASE \E answered \in BOOLEAN : AddPool(n, m, answered)
    BY <1>5, <2>1
  <2>2. CASE DeliveryLost(n, m)
    BY <1>4, <2>2
  <2>3. CASE \/ ScanLost(n, m)
             \/ \E answered \in BOOLEAN : ExaminePool(n, m, answered)
    BY <1>2, <1>7, <2>3
  <2> QED BY <1>9, <2>1, <2>2, <2>3
<1> HIDE DEF DeliveryChange
<1>10. ASSUME NEW n \in Nodes,
             \/ StartDelivery(n) \/ DeliverNothing(n) \/ FinishDelivery(n)
             \/ StartAppend(n) \/ Skip(n) \/ FinishAppend(n)
             \/ StartScan(n) \/ FinishScan(n)
             \/ \E m \in Nodes :
                  \/ \E answered \in BOOLEAN : \/ AddPool(n, m, answered)
                                               \/ ExaminePool(n, m, answered)
                  \/ DeliveryLost(n, m) \/ ScanLost(n, m)
             \/ \E b \in Blocks : Claim(n, b) \/ StoreBlock(n, b)
       PROVE  DeliveryChange
  <2>1. CASE \/ StartAppend(n) \/ Skip(n) \/ FinishAppend(n)
             \/ StartScan(n) \/ FinishScan(n)
             \/ \E b \in Blocks : Claim(n, b) \/ StoreBlock(n, b)
    BY <1>2, <1>6, <2>1
  <2>2. CASE StartDelivery(n) \/ DeliverNothing(n) \/ FinishDelivery(n)
    BY <1>3, <1>4, <2>2
  <2> QED BY <1>9, <1>10, <2>1, <2>2
<1> QED BY <1>2, <1>8, <1>10 DEF Next

ScanChange ==
  \A k \in Nodes, t \in Txs, f \in {"new", "sent"} :
    <<t, f>> \in scan'[k].got =>
      <<t, f>> \in scan[k].got \/ \E m \in Nodes : pool[m][t] # "none"

LEMMA ScanChangeStep == ASSUME TypeOK, Next PROVE ScanChange
<1>1. \A k \in Nodes : scan[k] \in ScanRun
  BY DEF TypeOK
<1>2. CASE \A k \in Nodes : scan'[k].got \subseteq scan[k].got
  BY <1>2 DEF ScanChange
<1>3. ASSUME NEW n \in Nodes, StartScan(n) \/ FinishScan(n)
      PROVE  \A k \in Nodes : scan'[k].got \subseteq scan[k].got
  <2>1. \A k \in Nodes \ {n} : scan'[k] = scan[k]
    BY <1>3 DEF StartScan, FinishScan, TypeOK
  <2>2. CASE StartScan(n)
    <3>1. scan'[n].got = {}
      BY <2>2 DEF StartScan, TypeOK, NoScan
    <3> QED BY <2>1, <3>1
  <2>3. CASE FinishScan(n)
    <3>1. scan'[n].got \in {{}, scan[n].got}
      BY <1>1, <2>3 DEF FinishScan, TypeOK, NoScan, ScanRun
    <3> QED BY <2>1, <3>1
  <2> QED BY <1>3, <2>2, <2>3
<1>4. ASSUME NEW n \in Nodes, NEW m \in Nodes, NEW answered \in BOOLEAN,
             ExaminePool(n, m, answered)
      PROVE  ScanChange
  <2> SUFFICES ASSUME NEW k \in Nodes, NEW t \in Txs, NEW f \in {"new", "sent"},
                      <<t, f>> \in scan'[k].got, <<t, f>> \notin scan[k].got
               PROVE  pool[m][t] # "none"
    BY DEF ScanChange
  <2> DEFINE more == {<<u, pool[m][u]>> :
                        u \in {v \in Txs \ scan[n].have : pool[m][v] # "none"}}
  <2>1. k = n /\ answered
    BY <1>1, <1>4 DEF ExaminePool, TypeOK, ScanRun
  <2>2. scan'[n].got = scan[n].got \union more
    BY <1>1, <1>4, <2>1 DEF ExaminePool, TypeOK, ScanRun
  <2>3. <<t, f>> \in more
    BY <2>1, <2>2
  <2> QED BY <2>3
<1>5. ASSUME NEW n \in Nodes, NEW m \in Nodes, ScanLost(n, m)
      PROVE  \A k \in Nodes : scan'[k].got \subseteq scan[k].got
  BY <1>1, <1>5 DEF ScanLost, TypeOK, ScanRun
<1>6. ASSUME NEW n \in Nodes,
             \/ StartAppend(n) \/ Skip(n) \/ FinishAppend(n)
             \/ StartDelivery(n) \/ DeliverNothing(n) \/ FinishDelivery(n)
             \/ \E b \in Blocks : Claim(n, b) \/ StoreBlock(n, b)
      PROVE  UNCHANGED scan
  BY <1>6 DEF StartAppend, Skip, FinishAppend, StartDelivery, DeliverNothing,
     FinishDelivery, Claim, StoreBlock
<1>7. ASSUME NEW n \in Nodes, NEW m \in Nodes,
             \/ DeliveryLost(n, m)
             \/ \E answered \in BOOLEAN : AddPool(n, m, answered)
      PROVE  UNCHANGED scan
  BY <1>7 DEF DeliveryLost, AddPool
<1>8. ASSUME \/ \E t \in Txs : Post(t)
             \/ \E b \in Blocks : Expire(b)
      PROVE  UNCHANGED scan
  BY <1>8 DEF Post, Expire
<1>9. CASE UNCHANGED scan
  BY <1>2, <1>9
<1>10. ASSUME NEW n \in Nodes, NEW m \in Nodes,
             \/ \E answered \in BOOLEAN : \/ AddPool(n, m, answered)
                                          \/ ExaminePool(n, m, answered)
             \/ DeliveryLost(n, m) \/ ScanLost(n, m)
       PROVE  ScanChange
  <2>1. CASE \E answered \in BOOLEAN : ExaminePool(n, m, answered)
    BY <1>4, <2>1
  <2>2. CASE ScanLost(n, m)
    BY <1>2, <1>5, <2>2
  <2>3. CASE \/ DeliveryLost(n, m)
             \/ \E answered \in BOOLEAN : AddPool(n, m, answered)
    BY <1>7, <1>9, <2>3
  <2> QED BY <1>10, <2>1, <2>2, <2>3
<1>11. ASSUME NEW n \in Nodes,
             \/ StartDelivery(n) \/ DeliverNothing(n) \/ FinishDelivery(n)
             \/ StartAppend(n) \/ Skip(n) \/ FinishAppend(n)
             \/ StartScan(n) \/ FinishScan(n)
             \/ \E m \in Nodes :
                  \/ \E answered \in BOOLEAN : \/ AddPool(n, m, answered)
                                               \/ ExaminePool(n, m, answered)
                  \/ DeliveryLost(n, m) \/ ScanLost(n, m)
             \/ \E b \in Blocks : Claim(n, b) \/ StoreBlock(n, b)
       PROVE  ScanChange
  <2>1. CASE \/ StartAppend(n) \/ Skip(n) \/ FinishAppend(n)
             \/ StartDelivery(n) \/ DeliverNothing(n) \/ FinishDelivery(n)
             \/ \E b \in Blocks : Claim(n, b) \/ StoreBlock(n, b)
    BY <1>6, <1>9, <2>1
  <2>2. CASE StartScan(n) \/ FinishScan(n)
    BY <1>2, <1>3, <2>2
  <2> QED BY <1>10, <1>11, <2>1, <2>2
<1> QED BY <1>8, <1>9, <1>11 DEF Next

LEMMA PostedStep ==
  ASSUME TypeOK, TypeOK', PoolInv, PoolChange, Next
  PROVE  Posted'
<1>1. posted \subseteq posted'
  BY PostedGrows
<1>2. \A n \in Nodes, t \in Txs : pool'[n][t] # "none" => t \in posted'
  BY <1>1 DEF PoolChange, PoolInv, Posted
<1>3. ASSUME NEW n \in Nodes PROVE delivery'[n].txs \subseteq posted'
  <2>1. delivery[n].txs \subseteq posted /\ InPool(n, "new") \subseteq posted
    BY DEF PoolInv, Posted, InPool
  <2>2. delivery'[n].txs \in {delivery[n].txs, {}, InPool(n, "new")}
    BY DeliveryChangeStep DEF DeliveryChange
  <2> QED BY <1>1, <2>1, <2>2
<1>4. ASSUME NEW n \in Nodes, NEW t \in Txs, NEW f \in {"new", "sent"},
             <<t, f>> \in scan'[n].got
      PROVE  t \in posted'
  BY <1>1, <1>4, ScanChangeStep DEF ScanChange, PoolInv, Posted
<1> QED BY <1>2, <1>3, <1>4 DEF Posted

LEMMA ReachedStep ==
  ASSUME TypeOK, TypeOK', PoolInv, PoolChange, Next
  PROVE  Reached'
<1> SUFFICES ASSUME NEW n \in Nodes,
                    delivery'[n].stage = "run", ~delivery'[n].torn,
                    NEW t \in delivery'[n].txs,
                    NEW m \in Nodes \ delivery'[n].left
             PROVE  Knows(m, t)'
  BY DEF Reached
<1>1. t \in Txs
  BY DEF TypeOK, DeliveryRun
<1>2. CASE delivery'[n] = delivery[n]
  <2>1. Knows(m, t)
    BY <1>2 DEF PoolInv, Reached
  <2> QED BY <1>1, <2>1, KnowsKept
<1>3. CASE delivery'[n].txs = InPool(n, "new") /\ delivery'[n].left = Others(n)
  <2>1. m = n /\ Knows(n, t)
    BY <1>3 DEF Others, InPool, Knows
  <2> QED BY <1>1, <2>1, KnowsKept
<1>4. CASE /\ delivery'[n].txs = delivery[n].txs
           /\ delivery[n].stage = "run" /\ ~delivery[n].torn
           /\ \E k \in Nodes : /\ delivery'[n].left = delivery[n].left \ {k}
                               /\ \A u \in delivery[n].txs : pool'[k][u] # "none"
  <2>1. PICK k \in Nodes : /\ delivery'[n].left = delivery[n].left \ {k}
                           /\ \A u \in delivery[n].txs : pool'[k][u] # "none"
    BY <1>4
  <2>2. CASE m = k
    BY <1>4, <2>1, <2>2 DEF Knows
  <2>3. CASE m # k
    <3>1. Knows(m, t)
      BY <1>4, <2>1, <2>3 DEF PoolInv, Reached
    <3> QED BY <1>1, <3>1, KnowsKept
  <2> QED BY <2>2, <2>3
<1> QED BY <1>2, <1>3, <1>4, DeliveryChangeStep DEF DeliveryChange

LEMMA PoolInvStep ==
  ASSUME TypeOK, TypeOK', ConstantsOK, PoolInv, [Next]_vars
  PROVE  PoolInv'
<1>1. NeverLost' /\ FlagMeansKnown'
  BY NeverLostStep, FlagStep
<1>2. CASE Next
  BY <1>1, <1>2, PoolChangeStep, PostedStep, ReachedStep DEF PoolInv
<1>3. CASE UNCHANGED vars
  BY <1>3 DEF vars, PoolInv, Posted, Reached, NeverLost, FlagMeansKnown, Knows,
     Recorded
<1> QED BY <1>2, <1>3

\* The invariant the two properties rest on holds in every reachable state.
THEOREM PoolInvCorrect == Spec => [](TypeOK /\ PoolInv)
<1>1. Init => TypeOK /\ PoolInv
  BY TypeInit, PoolInvInit, ConstantsOK
<1>2. TypeOK /\ PoolInv /\ [Next]_vars => TypeOK' /\ PoolInv'
  BY TypeStep, PoolInvStep, ConstantsOK
<1> QED BY <1>1, <1>2, PTL DEF Spec

\* A posted transaction is never lost: whatever RPCs fail and whatever scans
\* run, the node of its user has it in the pool or in the chain.
THEOREM NothingLost == Spec => []NeverLost
<1>1. PoolInv => NeverLost
  BY DEF PoolInv
<1> QED BY <1>1, PoolInvCorrect, PTL

\* If the node of the user has set deliveryF of a transaction that is not in
\* its chain yet, every node has the transaction.
THEOREM FlagReliable == Spec => []FlagMeansKnown
<1>1. PoolInv => FlagMeansKnown
  BY DEF PoolInv
<1> QED BY <1>1, PoolInvCorrect, PTL

-----------------------------------------------------------------------------
(* A propagated transaction is blocked once *)

\* A delivery in which nothing fails goes from the node of the user to nodes that do
\* not have the transactions yet, and succeeds with the first of them.
Plain(n) ==
  /\ scan[n].stage = "idle"
  /\ delivery[n].stage \in {"idle", "run"} /\ ~delivery[n].torn
  /\ delivery[n].stage = "idle" => delivery[n].txs = {}
  /\ delivery[n].stage = "run" /\ delivery[n].left # Others(n) => delivery[n].ok
  /\ delivery[n].left \subseteq Others(n)
  /\ \A t \in delivery[n].txs : Origin[t] = n /\ \A m \in delivery[n].left : ~Knows(m, t)

\* Before its first delivery no other node has a transaction.
Undelivered ==
  \A n \in Nodes, t \in Txs : pool[n][t] = "new" =>
    /\ Origin[t] = n
    /\ t \notin delivery[n].txs => \A m \in Others(n) : ~Knows(m, t)

\* What is in the chain has left the pool, and a block whose tracking ID is forgotten
\* is in every chain, and no snapshot has its transactions.
Gone ==
  /\ \A n \in Nodes : \A a \in chain[n] :
       body[a] # {} /\ \A t \in body[a] : pool[n][t] = "none"
  /\ \A a \in Blocks \ claims, n \in Nodes :
       append[n].txs \intersect body[a] = {} /\ (body[a] # {} => a \in chain[n])
  /\ \A a \in Blocks : body[a] \subseteq posted
  /\ \A n \in Nodes : append[n].txs \subseteq posted

Distinct == \A a, b \in Blocks : a # b => body[a] \intersect body[b] = {}

PropagatedInv == (\A n \in Nodes : Plain(n)) /\ Undelivered /\ Gone /\ Distinct

LEMMA PropagatedInit == ASSUME ConstantsOK, Init PROVE PropagatedInv
BY DEF Init, PropagatedInv, Plain, Undelivered, Gone, Distinct, NoDelivery, NoAppend, NoScan,
   Others, Knows, Recorded

\* Without failures and scans these are the steps.
LEMMA UndisturbedSteps ==
  ASSUME TypeOK, PropagatedInv, Undisturbed, Undisturbed', Next
  PROVE  \/ \E t \in Txs : Post(t)
         \/ \E n \in Nodes : \/ StartDelivery(n) \/ (FinishDelivery(n) /\ ~delivery[n].torn)
                             \/ StartAppend(n) \/ Skip(n) \/ FinishAppend(n)
                             \/ \E m \in Nodes : AddPool(n, m, TRUE)
                             \/ \E b \in Blocks : Claim(n, b) \/ StoreBlock(n, b)
         \/ \E b \in Blocks : Expire(b)
<1>1. losses = 0 /\ losses' = 0 /\ scans = 0 /\ scans' = 0
  BY DEF Undisturbed
<1>2. ~Lose
  BY <1>1 DEF Lose
<1>3. \A n \in Nodes : /\ scan[n].stage # "run" /\ ~delivery[n].torn
                       /\ ~StartScan(n) /\ ~FinishScan(n) /\ ~DeliverNothing(n)
  BY <1>1, <1>2 DEF PropagatedInv, Plain, StartScan, FinishScan, DeliverNothing
<1>4. \A n, m \in Nodes : /\ \A a \in BOOLEAN : ~ExaminePool(n, m, a)
                          /\ ~DeliveryLost(n, m) /\ ~ScanLost(n, m)
                          /\ ~AddPool(n, m, FALSE)
  BY <1>2, <1>3 DEF ExaminePool, DeliveryLost, ScanLost, AddPool, Answered
<1> QED
  BY <1>3, <1>4 DEF Next

\* Steps that leave pools, chains and blocks alone
LEMMA KnowsSame ==
  ASSUME UNCHANGED <<pool, chain, body>>
  PROVE  \A n, t : Knows(n, t)' <=> Knows(n, t)
BY DEF Knows, Recorded

LEMMA PropagatedPost ==
  ASSUME TypeOK, ConstantsOK, Posted, PropagatedInv, NEW u \in Txs, Post(u)
  PROVE  PropagatedInv'
<1> DEFINE o == Origin[u]
<1>1. /\ o \in Nodes /\ u \notin posted /\ posted' = posted \union {u}
      /\ UNCHANGED <<chain, body, claims, delivery, append, scan, losses, scans>>
  BY DEF Post, ConstantsOK
<1>2. /\ pool[o][u] = "none" /\ pool'[o][u] = "new"
      /\ \A n \in Nodes, t \in Txs : n # o \/ t # u => pool'[n][t] = pool[n][t]
  BY <1>1 DEF Post, PoolAppendToDb, TypeOK, Posted
<1>3. \A n \in Nodes : ~Knows(n, u)
  BY <1>1 DEF Knows, Recorded, Posted, PropagatedInv, Gone, TypeOK
<1> HIDE DEF o
<1>4. \A n \in Nodes, t \in Txs : n # o \/ t # u => (Knows(n, t)' <=> Knows(n, t))
  BY <1>1, <1>2 DEF Knows, Recorded
<1>5. \A n \in Nodes : Plain(n)'
  <2> SUFFICES ASSUME NEW n \in Nodes PROVE Plain(n)'
    OBVIOUS
  <2>1. delivery[n].txs \subseteq Txs /\ delivery[n].left \subseteq Nodes /\ Plain(n)
        /\ u \notin delivery[n].txs
    BY <1>1 DEF TypeOK, DeliveryRun, PropagatedInv, Posted
  <2> QED
    BY <1>1, <1>4, <2>1 DEF Plain, Others
<1>6. Undelivered'
  <2> SUFFICES ASSUME NEW n \in Nodes, NEW t \in Txs, pool'[n][t] = "new"
               PROVE  /\ Origin[t] = n
                      /\ t \notin delivery[n].txs => \A m \in Others(n) : ~Knows(m, t)'
    BY <1>1 DEF Undelivered, Others
  <2>1. CASE n = o /\ t = u
    BY <1>3, <1>4, <2>1 DEF o, Others
  <2>2. CASE n # o \/ t # u
    <3>1. /\ Origin[t] = n
          /\ t \notin delivery[n].txs => \A m \in Others(n) : ~Knows(m, t)
      BY <1>2, <2>2 DEF PropagatedInv, Undelivered
    <3> QED
      BY <1>4, <2>2, <3>1 DEF Others, o
  <2> QED
    BY <2>1, <2>2
<1>7. Gone'
  <2>1. ASSUME NEW n \in Nodes, NEW a \in chain[n], NEW t \in body[a] PROVE pool'[n][t] = "none"
    <3>1. t \in Txs /\ t # u
      BY <1>1 DEF TypeOK, PropagatedInv, Gone
    <3> QED
      BY <1>2, <3>1 DEF PropagatedInv, Gone
  <2> QED
    BY <1>1, <2>1 DEF PropagatedInv, Gone
<1>8. Distinct'
  BY <1>1 DEF PropagatedInv, Distinct
<1> QED
  BY <1>5, <1>6, <1>7, <1>8 DEF PropagatedInv

LEMMA PropagatedStart ==
  ASSUME TypeOK, PropagatedInv, NEW n \in Nodes, StartDelivery(n)
  PROVE  PropagatedInv'
<1> DEFINE d == [stage |-> "run", txs |-> InPool(n, "new"), left |-> Others(n),
                 ok |-> FALSE, torn |-> FALSE]
<1>1. /\ delivery[n].stage = "idle"
      /\ delivery'[n] = d /\ \A k \in Nodes \ {n} : delivery'[k] = delivery[k]
      /\ UNCHANGED <<posted, pool, chain, body, claims, append, scan, losses, scans>>
  BY DEF StartDelivery, NoDelivery, TypeOK
<1>2. \A k, t : Knows(k, t)' <=> Knows(k, t)
  BY <1>1, KnowsSame
<1>3. delivery[n].txs = {}
  BY <1>1 DEF PropagatedInv, Plain
<1>4. Plain(n)'
  <2>1. \A t \in InPool(n, "new") : Origin[t] = n /\ \A m \in Others(n) : ~Knows(m, t)
    BY <1>3 DEF InPool, PropagatedInv, Undelivered
  <2> QED
    BY <1>1, <1>2, <2>1 DEF PropagatedInv, Plain
<1>5. \A k \in Nodes \ {n} : Plain(k)'
  BY <1>1, <1>2 DEF PropagatedInv, Plain
<1>6. Undelivered'
  BY <1>1, <1>2, <1>3 DEF PropagatedInv, Undelivered, InPool
<1>7. Gone' /\ Distinct'
  BY <1>1 DEF PropagatedInv, Gone, Distinct
<1> QED
  BY <1>4, <1>5, <1>6, <1>7 DEF PropagatedInv

LEMMA PropagatedFinish ==
  ASSUME TypeOK, PropagatedInv, NEW n \in Nodes, FinishDelivery(n), ~delivery[n].torn
  PROVE  PropagatedInv'
<1> DEFINE d == delivery[n]
<1>1. /\ d.stage = "run" /\ d.left = {}
      /\ delivery'[n] = NoDelivery /\ \A k \in Nodes \ {n} : delivery'[k] = delivery[k]
      /\ UNCHANGED <<posted, chain, body, claims, append, scan, losses, scans>>
  BY DEF FinishDelivery, TypeOK
<1>2. \A k \in Nodes, t \in Txs :
        pool'[k][t] = IF k = n /\ d.ok /\ t \in d.txs /\ pool[n][t] # "none"
                      THEN "sent" ELSE pool[k][t]
  BY DEF FinishDelivery, PoolUpdateFlagsByOid, TypeOK
<1>3. \A k \in Nodes, t \in Txs : Knows(k, t)' <=> Knows(k, t)
  BY <1>1, <1>2 DEF Knows, Recorded
<1>4. \A k \in Nodes : Plain(k)'
  <2> SUFFICES ASSUME NEW k \in Nodes PROVE Plain(k)'
    OBVIOUS
  <2>1. CASE k = n
    BY <1>1, <2>1 DEF PropagatedInv, Plain, NoDelivery
  <2>2. CASE k # n
    <3>1. delivery[k].txs \subseteq Txs /\ delivery[k].left \subseteq Nodes /\ Plain(k)
      BY DEF TypeOK, DeliveryRun, PropagatedInv
    <3> QED
      BY <1>1, <1>3, <2>2, <3>1 DEF Plain
  <2> QED
    BY <2>1, <2>2
<1>5. Undelivered'
  <2> SUFFICES ASSUME NEW k \in Nodes, NEW t \in Txs, pool'[k][t] = "new"
               PROVE  /\ Origin[t] = k
                      /\ t \notin delivery'[k].txs => \A m \in Others(k) : ~Knows(m, t)'
    BY DEF Undelivered, Others
  <2>1. pool[k][t] = "new" /\ ~(k = n /\ d.ok /\ t \in d.txs)
    BY <1>2
  <2>2. /\ Origin[t] = k
        /\ t \notin delivery[k].txs => \A m \in Others(k) : ~Knows(m, t)
    BY <2>1 DEF PropagatedInv, Undelivered
  <2>3. CASE k = n /\ t \in d.txs
    <3>1. Others(n) = {}
      BY <1>1, <2>1, <2>3 DEF PropagatedInv, Plain
    <3> QED
      BY <2>2, <2>3, <3>1
  <2>4. CASE ~(k = n /\ t \in d.txs)
    <3>1. t \notin delivery'[k].txs => t \notin delivery[k].txs
      BY <1>1, <2>4
    <3> QED
      BY <1>3, <2>2, <3>1 DEF Others
  <2> QED
    BY <2>3, <2>4
<1>6. Gone'
  <2>1. ASSUME NEW k \in Nodes, NEW a \in chain[k], NEW t \in body[a] PROVE pool'[k][t] = "none"
    <3>1. t \in Txs /\ pool[k][t] = "none"
      BY DEF TypeOK, PropagatedInv, Gone
    <3> QED
      BY <1>2, <3>1
  <2> QED
    BY <1>1, <2>1 DEF PropagatedInv, Gone
<1>7. Distinct'
  BY <1>1 DEF PropagatedInv, Distinct
<1> QED
  BY <1>4, <1>5, <1>6, <1>7 DEF PropagatedInv

LEMMA PropagatedAdd ==
  ASSUME TypeOK, PropagatedInv, NEW n \in Nodes, NEW m \in Nodes, AddPool(n, m, TRUE)
  PROVE  PropagatedInv'
<1> DEFINE d == delivery[n]
           okay == \A t \in d.txs : pool[m][t] = "none"
           e == [d EXCEPT !.left = @ \ {m}, !.ok = @ \/ okay]
<1>0. d \in DeliveryRun /\ okay \in BOOLEAN /\ d.ok \in BOOLEAN
  BY DEF TypeOK, DeliveryRun
<1>1. /\ d.stage = "run" /\ m \in d.left
      /\ delivery'[n] = e /\ \A k \in Nodes \ {n} : delivery'[k] = delivery[k]
      /\ UNCHANGED <<posted, chain, body, claims, append, scan, scans>>
  BY DEF AddPool, TypeOK
<1>2. \A t \in d.txs : t \in Txs /\ Origin[t] = n /\ pool[m][t] = "none" /\ t \notin Recorded(m)
  BY <1>0, <1>1 DEF PropagatedInv, Plain, Knows, DeliveryRun
<1>3. okay = TRUE
  BY <1>0, <1>2
<1> HIDE DEF okay
<1>4. /\ e.stage = "run" /\ e.txs = d.txs /\ e.left = d.left \ {m} /\ e.ok = TRUE
      /\ e.torn = d.torn
  BY <1>0, <1>1, <1>3 DEF DeliveryRun
<1> HIDE DEF e
<1>5. \A k \in Nodes, t \in Txs :
        pool'[k][t] = IF k = m /\ t \in d.txs THEN "sent" ELSE pool[k][t]
  BY <1>2 DEF AddPool, PoolAppendToDb, TypeOK
<1>6. \A k \in Nodes, t \in Txs : k # m \/ t \notin d.txs => (Knows(k, t)' <=> Knows(k, t))
  BY <1>1, <1>5 DEF Knows, Recorded
<1>7. Plain(n)'
  <2>1. \A t \in d.txs : Origin[t] = n /\ \A k \in d.left \ {m} : ~Knows(k, t)'
    BY <1>0, <1>6 DEF PropagatedInv, Plain, DeliveryRun
  <2> QED
    BY <1>1, <1>4, <2>1 DEF PropagatedInv, Plain
<1>8. ASSUME NEW k \in Nodes \ {n} PROVE Plain(k)'
  <2>1. /\ Plain(k) /\ delivery[k].txs \subseteq Txs /\ delivery[k].left \subseteq Nodes
        /\ delivery[k].txs \intersect d.txs = {}
    BY <1>2 DEF PropagatedInv, Plain, TypeOK, DeliveryRun
  <2> QED
    BY <1>1, <1>6, <2>1 DEF Plain
<1>9. Undelivered'
  <2> SUFFICES ASSUME NEW k \in Nodes, NEW t \in Txs, pool'[k][t] = "new"
               PROVE  /\ Origin[t] = k
                      /\ t \notin delivery'[k].txs => \A l \in Others(k) : ~Knows(l, t)'
    BY DEF Undelivered, Others
  <2>1. /\ Origin[t] = k
        /\ t \notin delivery[k].txs => \A l \in Others(k) : ~Knows(l, t)
    BY <1>5 DEF PropagatedInv, Undelivered
  <2>2. delivery'[k].txs = delivery[k].txs
    BY <1>1, <1>4
  <2>3. t \notin delivery[k].txs => t \notin d.txs
    BY <1>2, <2>1
  <2> QED
    BY <1>6, <2>1, <2>2, <2>3 DEF Others
<1>10. Gone'
  <2>1. ASSUME NEW k \in Nodes, NEW a \in chain[k], NEW t \in body[a] PROVE pool'[k][t] = "none"
    <3>1. t \in Txs /\ pool[k][t] = "none" /\ t \in Recorded(k)
      BY DEF TypeOK, PropagatedInv, Gone, Recorded
    <3> QED
      BY <1>2, <1>5, <3>1
  <2> QED
    BY <1>1, <2>1 DEF PropagatedInv, Gone
<1>11. Distinct'
  BY <1>1 DEF PropagatedInv, Distinct
<1> QED
  BY <1>7, <1>8, <1>9, <1>10, <1>11 DEF PropagatedInv

\* Steps that only concern snapshots of the pool
LEMMA DeliveriesSame ==
  ASSUME PropagatedInv, UNCHANGED <<pool, chain, body, delivery, scan>>
  PROVE  (\A n \in Nodes : Plain(n)') /\ Undelivered' /\ Distinct'
<1>1. \A k, t : Knows(k, t)' <=> Knows(k, t)
  BY KnowsSame
<1> QED
  BY <1>1 DEF PropagatedInv, Plain, Undelivered, Distinct

LEMMA PropagatedSnapshot ==
  ASSUME TypeOK, Posted, PropagatedInv, NEW n \in Nodes,
         StartAppend(n) \/ Skip(n) \/ FinishAppend(n)
  PROVE  PropagatedInv'
<1>1. UNCHANGED <<posted, pool, chain, body, claims, delivery, scan>>
  BY DEF StartAppend, Skip, FinishAppend
<1>2. /\ append'[n].txs \in {{}, InPool(n, "sent")}
      /\ \A k \in Nodes \ {n} : append'[k] = append[k]
  BY DEF StartAppend, Skip, FinishAppend, NoAppend, TypeOK
<1>3. \A a \in Blocks \ claims : append'[n].txs \intersect body[a] = {}
  <2> SUFFICES ASSUME NEW a \in Blocks \ claims, NEW t \in InPool(n, "sent"), t \in body[a]
               PROVE  FALSE
    BY <1>2
  <2>1. a \in chain[n] /\ pool[n][t] = "sent"
    BY DEF PropagatedInv, Gone, InPool
  <2> QED
    BY <2>1 DEF PropagatedInv, Gone
<1>4. append'[n].txs \subseteq posted
  BY <1>2 DEF InPool, Posted
<1>5. Gone'
  BY <1>1, <1>2, <1>3, <1>4 DEF PropagatedInv, Gone
<1> QED
  BY <1>1, <1>5, DeliveriesSame DEF PropagatedInv

LEMMA PropagatedClaim ==
  ASSUME TypeOK, PropagatedInv, NEW n \in Nodes, NEW b \in Blocks, Claim(n, b)
  PROVE  PropagatedInv'
<1> DEFINE x == append[n].txs
<1>1. /\ body[b] = {} /\ Free(x)
      /\ body'[b] = x /\ \A a \in Blocks \ {b} : body'[a] = body[a]
      /\ claims' = claims \union {b}
      /\ UNCHANGED <<posted, pool, chain, delivery, scan>>
  BY DEF Claim, TypeOK
<1>2. \A k \in Nodes : append'[k].txs = append[k].txs
  BY DEF Claim, TypeOK, AppendRun
<1>3. \A k \in Nodes : chain[k] \subseteq Blocks \ {b}
  BY <1>1 DEF PropagatedInv, Gone, TypeOK
<1>4. \A k \in Nodes : Recorded(k)' = Recorded(k)
  BY <1>1, <1>3 DEF Recorded
<1>5. \A k \in Nodes : \A t : Knows(k, t)' <=> Knows(k, t)
  BY <1>1, <1>4 DEF Knows
<1>6. \A k \in Nodes : Plain(k)'
  <2> SUFFICES ASSUME NEW k \in Nodes PROVE Plain(k)'
    OBVIOUS
  <2>1. Plain(k) /\ delivery[k].left \subseteq Nodes
    BY DEF PropagatedInv, TypeOK, DeliveryRun
  <2> QED
    BY <1>1, <1>5, <2>1 DEF Plain
<1>7. Undelivered'
  BY <1>1, <1>5 DEF PropagatedInv, Undelivered, Others
<1>8. Gone'
  BY <1>1, <1>2, <1>3 DEF PropagatedInv, Gone
<1>9. Distinct'
  <2>1. ASSUME NEW a \in Blocks \ {b} PROVE x \intersect body[a] = {}
    BY <1>1 DEF Free, PropagatedInv, Gone
  <2> QED
    BY <1>1, <2>1 DEF PropagatedInv, Distinct
<1> QED
  BY <1>6, <1>7, <1>8, <1>9 DEF PropagatedInv

LEMMA PropagatedStore ==
  ASSUME TypeOK, PropagatedInv, BlocksPropagated, NEW m \in Nodes, NEW b \in Blocks,
         StoreBlock(m, b)
  PROVE  PropagatedInv'
<1>1. /\ body[b] # {} /\ chain'[m] = chain[m] \union {b}
      /\ \A k \in Nodes \ {m} : chain'[k] = chain[k]
      /\ UNCHANGED <<posted, body, claims, delivery, append, scan>>
  BY DEF StoreBlock, TypeOK
<1>2. \A k \in Nodes, t \in Txs :
        pool'[k][t] = IF k = m /\ t \in body[b] THEN "none" ELSE pool[k][t]
  BY DEF StoreBlock, PoolDeleteByOid, TypeOK
<1>3. ASSUME NEW k \in Nodes, NEW t \in Txs, ~Knows(k, t) PROVE ~Knows(k, t)'
  <2>1. t \notin body[b]
    BY <1>3 DEF BlocksPropagated
  <2>2. t \notin Recorded(k)'
    BY <1>1, <1>3, <2>1 DEF Recorded, Knows
  <2> QED
    BY <1>2, <1>3, <2>1, <2>2 DEF Knows
<1>4. \A k \in Nodes : Plain(k)'
  <2> SUFFICES ASSUME NEW k \in Nodes PROVE Plain(k)'
    OBVIOUS
  <2>1. Plain(k) /\ delivery[k].left \subseteq Nodes /\ delivery[k].txs \subseteq Txs
    BY DEF PropagatedInv, TypeOK, DeliveryRun
  <2> QED
    BY <1>1, <1>3, <2>1 DEF Plain
<1>5. Undelivered'
  <2>1. \A k \in Nodes, t \in Txs : pool'[k][t] = "new" => pool[k][t] = "new"
    BY <1>2
  <2> QED
    BY <1>1, <1>3, <2>1 DEF PropagatedInv, Undelivered, Others
<1>6. Gone'
  <2>1. ASSUME NEW k \in Nodes, NEW a \in chain'[k]
        PROVE  body[a] # {} /\ \A t \in body[a] : pool'[k][t] = "none"
    <3>1. a \in chain[k] \/ (k = m /\ a = b)
      BY <1>1
    <3>2. a \in Blocks /\ body[a] # {}
      BY <1>1, <3>1 DEF TypeOK, PropagatedInv, Gone
    <3>3. body[a] \subseteq Txs
      BY <3>2 DEF TypeOK
    <3> QED
      BY <1>2, <3>1, <3>2, <3>3 DEF PropagatedInv, Gone
  <2>2. \A k \in Nodes : chain[k] \subseteq chain'[k]
    BY <1>1
  <2> QED
    BY <1>1, <2>1, <2>2 DEF PropagatedInv, Gone
<1>7. Distinct'
  BY <1>1 DEF PropagatedInv, Distinct
<1> QED
  BY <1>4, <1>5, <1>6, <1>7 DEF PropagatedInv

LEMMA PropagatedExpire ==
  ASSUME TypeOK, PropagatedInv, NEW b \in Blocks, Expire(b)
  PROVE  PropagatedInv'
<1>1. /\ claims' = claims \ {b} /\ StoredAt(b, Nodes)
      /\ \A n \in Nodes : append[n].txs \intersect body[b] = {}
      /\ UNCHANGED <<posted, pool, chain, body, delivery, append, scan>>
  BY DEF Expire
<1>2. Gone'
  BY <1>1 DEF PropagatedInv, Gone, StoredAt
<1> QED
  BY <1>1, <1>2, DeliveriesSame DEF PropagatedInv

LEMMA PropagatedStep ==
  ASSUME TypeOK, ConstantsOK, Posted, PropagatedInv, BlocksPropagated, Undisturbed,
         Undisturbed', [Next]_vars
  PROVE  PropagatedInv'
<1>1. CASE Next
  BY <1>1, UndisturbedSteps, PropagatedPost, PropagatedStart, PropagatedFinish, PropagatedAdd,
     PropagatedSnapshot, PropagatedClaim, PropagatedStore, PropagatedExpire
<1>2. CASE UNCHANGED vars
  <2>1. UNCHANGED <<posted, pool, chain, body, claims, delivery, append, scan>>
    BY <1>2 DEF vars
  <2>2. Gone'
    BY <2>1 DEF PropagatedInv, Gone
  <2> QED
    BY <2>1, <2>2, DeliveriesSame DEF PropagatedInv
<1> QED
  BY <1>1, <1>2

\* As long as every node has what is in a block, nothing is lost and no scan runs, no
\* transaction comes into two blocks of a chain, for any nodes, transactions and blocks:
\* deliveries, blocks and the end of their tracking IDs in any order.  The assumption
\* is about every state: where it ends, so does the promise.
THEOREM BlockedOnceCorrect == Spec => BlockedOnceIfPropagated
<1> DEFINE Calm == Undisturbed /\ BlocksPropagated
           Inv == TypeOK /\ Posted /\ PropagatedInv
<1>1. Init => Inv
  BY TypeInit, PoolInvInit, PropagatedInit, ConstantsOK DEF PoolInv
<1>2. Spec => [](TypeOK /\ Posted)
  <2>1. TypeOK /\ PoolInv => TypeOK /\ Posted
    BY DEF PoolInv
  <2> QED
    BY <2>1, PoolInvCorrect, PTL
<1>3. TypeOK /\ Posted /\ PropagatedInv /\ Calm /\ Calm' /\ [Next]_vars => PropagatedInv'
  BY PropagatedStep, ConstantsOK
<1>4. TypeOK /\ PropagatedInv => BlockedOnce
  BY DEF TypeOK, PropagatedInv, Distinct, BlockedOnce
<1> QED
  BY <1>1, <1>2, <1>3, <1>4, PTL DEF Spec, BlockedOnceIfPropagated
=============================================================================
