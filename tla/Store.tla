------------------------------- MODULE Store -------------------------------
(***************************************************************************)
(* The pool of one node when it is kept in memory (queue_ondisk: false),   *)
(* an array called queue: what the datastore module does with it           *)
(* (directio.ts, ioiterator.ts), and who calls it (posting, delivery,      *)
(* blocking and storing of system/core.ts and main/core.ts).               *)
(*                                                                         *)
(* The array may hold a transaction twice, unlike the collection on disk   *)
(* of PoolDelivery: nothing looks for a copy when a transaction comes.     *)
(* The other nodes are an environment that delivers transactions and       *)
(* blocks.  The functions of the queue have no await that other calls      *)
(* could use.  A restart, which empties the queue, and the deliveries that *)
(* throw are left out.                                                     *)
(***************************************************************************)
EXTENDS Naturals, FiniteSets, Sequences, SequencesExt

CONSTANTS
  Txs,         \* the oids of the transactions, which are ordered
  Local,       \* those that users post at this node
  Tenants,
  TenantOf,    \* TenantOf[t]: the tenant of t
  Weight,      \* Weight[t]: the size of the data of t
  MaxPayload,  \* MAX_SAFE_PAYLOAD_SIZE
  MaxCopies,   \* bound: AddPools of a transaction that has come before
  MaxFailures, \* bound: failing deliveries and failing createBlocks
  MaxSorts     \* bound: reads that sort the queue

ASSUME ConstantsOK ==
  /\ Txs \subseteq Nat /\ Local \subseteq Txs
  /\ TenantOf \in [Txs -> Tenants]
  /\ Weight \in [Txs -> 1 .. MaxPayload]
  /\ MaxCopies \in Nat /\ MaxFailures \in Nat /\ MaxSorts \in Nat

VARIABLES
  queue,     \* the pool, oldest first unless sorted
  chain,     \* the transactions in the blocks of the chain
  seen,      \* the transactions that have come to this node so far
  delivery,  \* the transactions that are being delivered
  append,    \* the groups for which postAppendBlocks still has to create a block
  storing,   \* blocks inserted, their transactions not yet removed from the pool
  copies,    \* AddPools of known transactions so far
  failures,  \* failures so far
  sorts      \* sorting reads so far

vars == <<queue, chain, seen, delivery, append, storing, copies, failures,
          sorts>>

Item == [tx : Txs, deliveryF : BOOLEAN]
Queued == {queue[i].tx : i \in DOMAIN queue}

TypeOK ==
  /\ queue \in Seq(Item) /\ Len(queue) <= Cardinality(Txs) + MaxCopies
  /\ chain \subseteq seen /\ Queued \subseteq seen /\ seen \subseteq Txs
  /\ delivery \subseteq seen
  /\ append \in Seq(Seq(Txs))
  /\ \A b \in storing : b.own \in BOOLEAN /\ ToSet(b.data) \subseteq chain
  /\ Cardinality({b \in storing : b.own}) <= 1
  /\ copies \in 0 .. MaxCopies
  /\ failures \in 0 .. MaxFailures
  /\ sorts \in 0 .. MaxSorts

-----------------------------------------------------------------------------
(* The queue *)

\* setPoolNewData
Pushed(t, flag) == Append(queue, [tx |-> t, deliveryF |-> flag])

\* poolModifyReadsFlag
Flagged(S) == [i \in DOMAIN queue |->
                 IF queue[i].tx \in S THEN [queue[i] EXCEPT !.deliveryF = TRUE]
                                      ELSE queue[i]]

\* A loop over q that splices what matches.  It goes on to the next position, so that
\* it skips an element after a splice, while the index for the next splice stays.
Splice(q, t) ==
  LET Visit(s, p) == IF p > Len(s.q) THEN s
                     ELSE IF s.q[p].tx = t THEN [s EXCEPT !.q = RemoveAt(@, s.index)]
                     ELSE [s EXCEPT !.index = @ + 1]
      loop[p \in 0 .. Len(q)] == IF p = 0 THEN [q |-> q, index |-> 1]
                                ELSE Visit(loop[p - 1], p)
  IN  loop[Len(q)].q

\* poolDeleteTransactions, for one oid after the other
Deleted(oids) ==
  LET left[i \in 0 .. Len(oids)] == IF i = 0 THEN queue
                                    ELSE Splice(left[i - 1], oids[i])
  IN  left[Len(oids)]

\* The size of the first k elements
Size(k) ==
  LET sum[i \in 0 .. Len(queue)] == IF i = 0 THEN 0 ELSE sum[i - 1] + Weight[queue[i].tx]
  IN  sum[k]

\* Mutant: the limit itself is too much.
FitsBelow(k) == Size(k) < MaxPayload

\* cachedIoIterator.next under a limit: elements that will be left out later count
\* as well, and the last one always comes.
Fits(k) == Size(k) <= MaxPayload

Yielded == {k \in DOMAIN queue : IF k = Len(queue) THEN Fits(k - 1) ELSE Fits(k)}

\* getAllDeliveredPool with a constrainedSize
Delivered ==
  SelectSeq(SubSeq(queue, 1, Cardinality(Yielded)), LAMBDA item : item.deliveryF)

\* The oids of items, a group for each tenant in the order of their first ones
Groups(items) ==
  LET Tenant(i) == TenantOf[items[i].tx]
      firsts == SelectSeq([i \in DOMAIN items |-> i],
                          LAMBDA i : \A j \in 1 .. i - 1 : Tenant(j) # Tenant(i))
      Group(p) == SelectSeq(items, LAMBDA item : TenantOf[item.tx] = p)
  IN  [g \in DOMAIN firsts |->
         LET its == Group(Tenant(firsts[g])) IN [i \in DOMAIN its |-> its[i].tx]]

Fail == failures < MaxFailures /\ failures' = failures + 1

-----------------------------------------------------------------------------
(* Transactions come, and are delivered *)

\* postByJson.  What it finds out about the parcel changes nothing.
Post(t) ==
  /\ t \in Local \ seen
  /\ seen' = seen \union {t}
  /\ queue' = Pushed(t, FALSE)
  /\ UNCHANGED <<chain, delivery, append, storing, copies, failures, sorts>>

\* requestToAddPool, for what a user has posted at another node
AddPool(t) ==
  /\ t \notin Local \union seen
  /\ seen' = seen \union {t}
  /\ queue' = Pushed(t, TRUE)
  /\ UNCHANGED <<chain, delivery, append, storing, copies, failures, sorts>>

\* The same for a transaction that has come before: the answer was lost and the
\* request is repeated, or a block or a scan has brought it.
AddPoolAgain(t) ==
  /\ t \in seen
  /\ copies < MaxCopies
  /\ copies' = copies + 1
  /\ queue' = Pushed(t, TRUE)
  /\ UNCHANGED <<chain, seen, delivery, append, storing, failures, sorts>>

StartDelivery ==
  /\ delivery = {}
  /\ delivery' = {queue[i].tx : i \in {j \in DOMAIN queue : ~queue[j].deliveryF}}
  /\ delivery' # {}
  /\ UNCHANGED <<queue, chain, seen, append, storing, copies, failures, sorts>>

EndDelivery ==
  /\ delivery # {}
  /\ delivery' = {}
  /\ queue' = Flagged(delivery)
  /\ UNCHANGED <<chain, seen, append, storing, copies, failures, sorts>>

FailDelivery ==
  /\ delivery # {}
  /\ Fail
  /\ delivery' = {}
  /\ UNCHANGED <<queue, chain, seen, append, storing, copies, sorts>>

-----------------------------------------------------------------------------
(* Transactions go into blocks *)

\* postAppendBlocks takes its snapshot.
StartAppend ==
  /\ append = <<>>
  /\ append' = Groups(Delivered)
  /\ append' # <<>>
  /\ UNCHANGED <<queue, chain, seen, delivery, storing, copies, failures, sorts>>

Creating == append # <<>> /\ \A b \in storing : ~b.own

\* Mutant: the transactions are removed before the block is in the chain.
CreateBlockLast ==
  /\ Creating
  /\ storing' = storing \union {[own |-> TRUE, data |-> Head(append)]}
  /\ UNCHANGED <<queue, chain, seen, delivery, append, copies, failures, sorts>>

\* createBlock comes to the insertion of the block into the own chain
\* (requestToAddBlock).
CreateBlock ==
  /\ Creating
  /\ chain' = chain \union ToSet(Head(append))
  /\ storing' = storing \union {[own |-> TRUE, data |-> Head(append)]}
  /\ UNCHANGED <<queue, seen, delivery, append, copies, failures, sorts>>

\* Another node has blocked a transaction of the group: createBlock ends without a
\* block, and postAppendBlocks goes on.
SkipBlock ==
  /\ Creating
  /\ ToSet(Head(append)) \intersect chain # {}
  /\ append' = Tail(append)
  /\ UNCHANGED <<queue, chain, seen, delivery, storing, copies, failures, sorts>>

\* createBlock fails, and the other groups are given up as well.
FailBlock ==
  /\ Creating
  /\ Fail
  /\ append' = <<>>
  /\ UNCHANGED <<queue, chain, seen, delivery, storing, copies, sorts>>

\* The transactions of the block under creation
Declared == IF append = <<>> THEN {} ELSE ToSet(Head(append))

\* What other nodes have: what comes from there, and what they have got from here.
Sent == (Txs \ Local) \union delivery
          \union {queue[i].tx : i \in {j \in DOMAIN queue : queue[j].deliveryF}}

\* requestToAddBlock of a block of another node, with transactions that are in no
\* block and under no declaration of this node.
AddBlock(data) ==
  /\ ToSet(data) \subseteq Sent \ chain
  /\ ToSet(data) \intersect Declared = {}
  /\ chain' = chain \union ToSet(data)
  /\ seen' = seen \union ToSet(data)
  /\ storing' = storing \union {[own |-> FALSE, data |-> data]}
  /\ UNCHANGED <<queue, delivery, append, copies, failures, sorts>>

\* removeFromPool, when the insertion into the database has been confirmed.  For the
\* own block createBlock ends here.
RemoveFromPool(b) ==
  /\ b \in storing
  /\ storing' = storing \ {b}
  /\ queue' = Deleted(b.data)
  /\ append' = IF b.own THEN Tail(append) ELSE append
  /\ UNCHANGED <<chain, seen, delivery, copies, failures, sorts>>

-----------------------------------------------------------------------------
(* Reads that sort *)

\* getPoolCursor with a sortOrder sorts the queue itself.
Sort(up) ==
  /\ sorts < MaxSorts
  /\ sorts' = sorts + 1
  /\ queue' = SortSeq(queue, LAMBDA a, b : IF up THEN a.tx < b.tx ELSE b.tx < a.tx)
  /\ UNCHANGED <<chain, seen, delivery, append, storing, copies, failures>>

Owned(tenant) == {t \in Txs : TenantOf[t] = tenant}

-----------------------------------------------------------------------------
Init ==
  /\ queue = <<>> /\ append = <<>>
  /\ chain = {} /\ seen = {} /\ delivery = {} /\ storing = {}
  /\ copies = 0 /\ failures = 0 /\ sorts = 0

\* The blocks another node may make: some transactions of one tenant
Blocks == UNION {SetToSeqs(S) : S \in UNION {SUBSET Owned(p) \ {{}} : p \in Tenants}}

Next ==
  \/ \E t \in Txs : Post(t) \/ AddPool(t) \/ AddPoolAgain(t)
  \/ StartDelivery \/ EndDelivery \/ FailDelivery
  \/ StartAppend \/ CreateBlock \/ SkipBlock \/ FailBlock
  \/ \E data \in Blocks : AddBlock(data)
  \/ \E b \in storing : RemoveFromPool(b)
  \/ \E up \in BOOLEAN : Sort(up)

\* The event module starts deliveries and postAppendBlocks again and again, and what
\* has been started goes on.  A group is not skipped for ever: the declaration of the
\* other node is forgotten after its deadline.
Fairness ==
  /\ WF_vars(StartDelivery \/ EndDelivery)
  /\ WF_vars(StartAppend \/ CreateBlock \/ SkipBlock)
  /\ SF_vars(CreateBlock)
  /\ WF_vars(\E b \in storing : RemoveFromPool(b))

Spec == Init /\ [][Next]_vars /\ Fairness

(***************************************************************************)
(* Properties                                                              *)
(***************************************************************************)
\* The pool is emptied into the chain: while no transaction is there twice, whatever
\* has come leaves the queue in the end, and is in the chain then, whatever its size
\* and its neighbours, and however the queue is sorted.  (The transactions of an
\* instance are finitely many, and so are those that keep others waiting.)
Single == Cardinality(Queued) = Len(queue)
QueueDrains == []Single => <>[](queue = <<>> /\ seen \subseteq chain)
=============================================================================
