-------------------------------- MODULE Ca3 --------------------------------
(***************************************************************************)
(* The CA3 block creation algorithm: block/algorithm/ca3.ts, driven by     *)
(* createBlock (block/core.ts) and ended by requestToAddBlock              *)
(* (system/core.ts) on every node.                                         *)
(*                                                                         *)
(* A call of createBlock has a fresh tracking ID, so calls are identified  *)
(* with their tracking IDs.  A call                                        *)
(*   1. registers itself in its node's table travelingIds and declares     *)
(*      itself to every other node (setupCreator, declareCreation);        *)
(*   2. packs and signs a block and sends it to a random node, which signs *)
(*      it and sends it on, until maxSignNodes nodes have signed;          *)
(*   3. the last signer stores the block and has every other node, the     *)
(*      creator included, store it (AddBlockCa3).                          *)
(* What a node does between two awaits of the network is one action; the   *)
(* reads and writes of its own database on the way are part of it.  Clocks *)
(* are taken as synchronised: a deadline passes on all nodes at once.  The *)
(* set of nodes judged abnormal is fixed: it is empty when                 *)
(* abnormalCountForJudging is 0, as in all but the development             *)
(* configurations, and tryToSendToSign works on a copy of the counts taken *)
(* at its start.                                                           *)
(* All transactions belong to one tenant: one call per postAppendBlocks.   *)
(*                                                                         *)
(* An RPC that fails is sent again by runRpcs, and then, whether or not it *)
(* is answered, runRpcs throws: it looks the results of the repeated call  *)
(* up in generalResults, from which that call has deleted them.  No one    *)
(* catches the exception but the event loop, which runs postAppendBlocks;  *)
(* thrown in the handler of a request, or under the administration API, it *)
(* is an unhandled rejection and ends the process.  Processes that ended   *)
(* stay so.  An RPC fails before it is served or when it is answered.      *)
(*                                                                         *)
(* An operator whose comment begins with "Mutant" is a wrong version of    *)
(* the definition that follows; nothing uses it but the test that the      *)
(* properties notice the difference.                                       *)
(***************************************************************************)
EXTENDS Naturals, Sequences, FiniteSets, SequencesExt, Functions

CONSTANTS
  Nodes,       \* the nodes of the network
  Txs,         \* the transactions
  Parcels,     \* <<type, tenant>> of the parcel blocks that may be asked for
  Calls,       \* the calls of createBlock, that is, their tracking IDs
  Owner,       \* Owner[c]: the node that makes call c
  MaxSign,     \* maxSignNodes
  MinSign,     \* minSignNodes
  Down,        \* nodes no other node can reach
  Abnormal,    \* nodes that every node has judged abnormal and leaves out
  Keyless,     \* nodes whose public keys of the others are missing or outdated
  MaxLosses,   \* bound: how many RPCs may fail although both ends are up
  MaxExpiries, \* bound: how many deadlines may pass
  MaxAttempts  \* bound: how often one call may (re)transmit

ASSUME ConstantsOK ==
  /\ IsFiniteSet(Nodes)
  /\ Owner \in [Calls -> Nodes]
  /\ \A p \in Parcels : p = <<p[1], p[2]>> /\ p[1] # "data"
  /\ Down \subseteq Nodes
  /\ Abnormal \subseteq Down
  /\ Keyless \subseteq Nodes
  /\ MinSign \in Nat
  /\ MaxSign \in Nat \ {0}
  /\ MaxLosses \in Nat
  /\ MaxExpiries \in Nat
  /\ MaxAttempts \in Nat \ {0}

\* tryToSendToSign needs a node that has not signed yet: with more required
\* signatures than nodes it would index an empty array.
ASSUME EnoughSigners == MaxSign <= Cardinality(Nodes)

VARIABLES
  pool,      \* pool[n]: the delivered transactions waiting in n's pool
  chain,     \* chain[n]: the blocks stored at n
  reg,       \* reg[n][c]: entry of tracking ID c in travelingIds of n
  pc,        \* pc[c]: where call c stands
  job,       \* job[c]: what call c was asked to put in a block
  prev,      \* prev[c]: id of the block read by getLastBlock (pObj)
  attempt,   \* attempt[c]: how often c ran proceedCreator
  dead,      \* dead[c]: the deadlines of c's attempts up to this one passed
  asked,     \* asked[c]: nodes whose answer to the declaration is awaited
  refused,   \* refused[c]: whether some answer was negative
  broken,    \* broken[c]: some RPC of the declaration, or AddBlockCa3, failed
  trip,      \* trip[c]: the block of c on its way from node to node
  made,      \* how many blocks have been packed; block ids grow with time
  halted,    \* nodes whose process has ended
  losses,    \* RPCs lost so far
  expiries   \* deadlines passed so far

vars == <<pool, chain, reg, pc, job, prev, attempt, dead, asked, refused,
          broken, trip, made, halted, losses, expiries>>

data == "data"
Types == {data} \union {p[1] : p \in Parcels}
Keys == Txs \union {p[2] : p \in Parcels}

Entry == [state  : {"absent", "preparation", "underway", "arrived"},
          stored : BOOLEAN,
          gen    : Nat]        \* the attempt whose deadline is in timeoutMs

NoEntry == [state |-> "absent", stored |-> FALSE, gen |-> 0]

\* A block; "signedby" are the names under which it carries signatures.
Block == [id : Nat, call : Calls, type : Types, keys : SUBSET Keys,
          prev : Nat, signedby : SUBSET Nodes]

\* The path of a trip is the chain of pending SignAndResendOrStore requests:
\* each of its nodes but the last awaits the answer of the next one, and each
\* of them has signed.  Stages, of the last node: "send" looks for a next
\* signer, "store" is about to store, "add" has stored and awaits the answers
\* of "left" to AddBlockCa3, "done" is about to answer its predecessor.  The
\* nodes in "torn" were sent their request again.
Trip == [block : Nat, path : Seq(Nodes),
         stage : {"send", "store", "add", "done"}, left : SUBSET Nodes,
         torn : SUBSET Nodes]

\* Ways a call of createBlock ends: with a block, with undefined ("Already
\* started"), with a gError, with an exception that no one catches.
Ended == {"blocked", "skipped", "failed", "threw"}
PCs == {"idle", "snapshot", "declare", "travel", "spin"} \union Ended

TypeOK ==
  /\ pool \in [Nodes -> SUBSET Txs]
  /\ chain \in [Nodes -> SUBSET Block]
  /\ reg \in [Nodes -> [Calls -> Entry]]
  /\ pc \in [Calls -> PCs]
  /\ job \in [Calls -> [type : Types, keys : SUBSET Keys]]
  /\ prev \in [Calls -> Nat]
  /\ attempt \in [Calls -> Nat]
  /\ dead \in [Calls -> Nat]
  /\ asked \in [Calls -> SUBSET Nodes]
  /\ refused \in [Calls -> BOOLEAN]
  /\ broken \in [Calls -> BOOLEAN]
  /\ trip \in [Calls -> Trip]
  /\ made \in Nat
  /\ halted \in SUBSET Nodes
  /\ losses \in 0 .. MaxLosses
  /\ expiries \in 0 .. MaxExpiries

-----------------------------------------------------------------------------
(* Helpers *)

Known(n, c) == reg[n][c].state # "absent"

\* timeoutMs of c's entry at n has passed
TimedOut(n, c) == reg[n][c].gen <= dead[c]

\* Every function of the trip begins with this check of the tracking ID.
Live(n, c) == Known(n, c) /\ ~TimedOut(n, c)

\* Both calls want the same transaction, or a block of the same type for the
\* same tenant.
Overlap(c, d) ==
  /\ job[c].type = job[d].type
  /\ job[c].keys \intersect job[d].keys # {}

\* createBlock waits for its deadline in a loop without an await: the node
\* serves nothing until then.
Spinning(n) == \E c \in Calls : Owner[c] = n /\ pc[c] = "spin"

\* Node n goes on with what it has received.
Runs(n) == n \notin halted /\ ~Spinning(n)

Reachable(n) == n \notin Down \union halted

Up(n) == n \notin Down /\ Runs(n)

\* runRpcs has no one left to talk to and fails at once.
Alone(n) == Nodes \ {n} \subseteq Abnormal

\* postAppendBlocks holds its lock; an exception leaves it locked.
AppendLocked(n) ==
  \E c \in Calls : /\ Owner[c] = n /\ job[c].type = data
                   /\ pc[c] \notin {"idle", "blocked", "skipped", "failed"}

\* getLastBlock sorts by _id, which grows with the time of creation; id 0 is
\* the genesis block, which every chain holds.
IsLastBlock(n, id) ==
  LET ids == {0} \union {b.id : b \in chain[n]} IN
  id \in ids /\ \A i \in ids : i <= id

Here(c) == Last(trip[c].path)

Lose == losses < MaxLosses /\ losses' = losses + 1

\* An RPC to n fails: n cannot be reached, or the connection breaks.
Fail(n) == \/ ~Reachable(n) /\ UNCHANGED losses
           \/ Reachable(n) /\ Lose

\* The call leaves its loop: stopCreator deletes its entry.
EndCall(c, how) ==
  /\ pc' = [pc EXCEPT ![c] = how]
  /\ reg' = [reg EXCEPT ![Owner[c]][c] = NoEntry]

\* An exception leaves the call, without stopCreator.
OwnerThrows(c) ==
  /\ pc' = [pc EXCEPT ![c] = "threw"]
  /\ halted' = IF job[c].type = data THEN halted ELSE halted \union {Owner[c]}

\* An exception at the i-th node of the path, in its handler or in createBlock.
Throws(c, i) ==
  IF i = 1
  THEN OwnerThrows(c)
  ELSE halted' = halted \union {trip[c].path[i]} /\ UNCHANGED pc

-----------------------------------------------------------------------------
Init ==
  /\ pool \in [Nodes -> SUBSET Txs]
  /\ chain = [n \in Nodes |-> {}]
  /\ reg = [n \in Nodes |-> [c \in Calls |-> NoEntry]]
  /\ pc = [c \in Calls |-> "idle"]
  /\ job = [c \in Calls |-> [type |-> data, keys |-> {}]]
  /\ prev = [c \in Calls |-> 0]
  /\ attempt = [c \in Calls |-> 0]
  /\ dead = [c \in Calls |-> 0]
  /\ asked = [c \in Calls |-> {}]
  /\ refused = [c \in Calls |-> FALSE]
  /\ broken = [c \in Calls |-> FALSE]
  /\ trip = [c \in Calls |-> [block |-> 0, path |-> <<>>, stage |-> "done",
                             left |-> {}, torn |-> {}]]
  /\ made = 0
  /\ halted = {}
  /\ losses = 0
  /\ expiries = 0

-----------------------------------------------------------------------------
(* The calling node: start, declaration, end *)

\* postAppendBlocks takes its lock and a snapshot of the delivered pool; an
\* empty pool, or a held lock, ends it at once.
StartData(c) ==
  /\ pc[c] = "idle"
  /\ Up(Owner[c])
  /\ ~AppendLocked(Owner[c])
  /\ pool[Owner[c]] # {}
  /\ pc' = [pc EXCEPT ![c] = "snapshot"]
  /\ job' = [job EXCEPT ![c] = [type |-> data, keys |-> pool[Owner[c]]]]
  /\ UNCHANGED <<pool, chain, reg, prev, attempt, dead, asked, refused, broken,
                 trip, made, halted, losses, expiries>>

\* Mutant: type and tenant are swapped.
StartParcelSwapped(c, p) ==
  /\ pc[c] = "idle"
  /\ Up(Owner[c])
  /\ pc' = [pc EXCEPT ![c] = "snapshot"]
  /\ job' = [job EXCEPT ![c] = [type |-> p[2], keys |-> {p[1]}]]
  /\ UNCHANGED <<pool, chain, reg, prev, attempt, dead, asked, refused, broken,
                 trip, made, halted, losses, expiries>>

\* postOpenParcel and postCloseParcel call createBlock without any lock.
StartParcel(c, p) ==
  /\ pc[c] = "idle"
  /\ Up(Owner[c])
  /\ pc' = [pc EXCEPT ![c] = "snapshot"]
  /\ job' = [job EXCEPT ![c] = [type |-> p[1], keys |-> {p[2]}]]
  /\ UNCHANGED <<pool, chain, reg, prev, attempt, dead, asked, refused, broken,
                 trip, made, halted, losses, expiries>>

\* setupCreator: drop the entries whose deadline has passed, then register the
\* call or, if its own entry is still there ("kept"), only renew its deadline.
SetUp(c, kept) ==
  LET own == reg[Owner[c]] IN
  [d \in Calls |->
     IF d = c
     THEN IF kept THEN [own[c] EXCEPT !.gen = attempt[c] + 1]
          ELSE [state |-> "preparation", stored |-> FALSE,
                gen |-> attempt[c] + 1]
     ELSE IF TimedOut(Owner[c], d) THEN NoEntry ELSE own[d]]

\* declareCreation's look at the node's own table: a transaction of c is named
\* by any other entry, whatever its state.
AlreadyStarted(c, table) ==
  /\ job[c].type = data
  /\ \E d \in Calls \ {c} : table[d].state # "absent" /\ Overlap(c, d)

\* One round of createBlock's loop up to the first await of the network.
Declare(c, kept) ==
  LET table == SetUp(c, kept) IN
  /\ attempt[c] < MaxAttempts
  /\ attempt' = [attempt EXCEPT ![c] = @ + 1]
  /\ \/ /\ AlreadyStarted(c, table)
        /\ pc' = [pc EXCEPT ![c] = "skipped"]
        /\ reg' = [reg EXCEPT ![Owner[c]] = [table EXCEPT ![c] = NoEntry]]
        /\ UNCHANGED <<asked, refused, broken>>
     \/ /\ ~AlreadyStarted(c, table)
        /\ pc' = [pc EXCEPT ![c] = "declare"]
        /\ reg' = [reg EXCEPT ![Owner[c]] = table]
        /\ asked' = [asked EXCEPT ![c] = Nodes \ ({Owner[c]} \union Abnormal)]
        /\ refused' = [refused EXCEPT ![c] = FALSE]
        /\ broken' = [broken EXCEPT ![c] = FALSE]

\* The previous block is read once per call, before the first round.
Begin(c) ==
  /\ pc[c] = "snapshot"
  /\ Runs(Owner[c])
  /\ \E id \in 0 .. made : /\ IsLastBlock(Owner[c], id)
                          /\ prev' = [prev EXCEPT ![c] = id]
  /\ Declare(c, FALSE)
  /\ UNCHANGED <<pool, chain, job, dead, trip, made, halted, losses, expiries>>

\* The block did not come back before the deadline.  In the millisecond of the
\* deadline itself setupCreator keeps the own entry, later it drops it.
Retransmit(c, kept) ==
  /\ pc[c] = "spin"
  /\ Owner[c] \notin halted
  /\ TimedOut(Owner[c], c)
  /\ Declare(c, kept)
  /\ UNCHANGED <<pool, chain, job, prev, dead, trip, made, halted, losses,
                 expiries>>

\* Mutant: an arrived block is forgotten at once.
ConflictUnlessArrived(c, m) ==
  \E d \in Calls : reg[m][d].state = "underway" /\ Overlap(c, d)

\* Mutant: every entry counts.
ConflictPreparing(c, m) == \E d \in Calls : Known(m, d) /\ Overlap(c, d)

\* Mutant: an entry past its deadline is ignored.
ConflictLive(c, m) ==
  \E d \in Calls : /\ Live(m, d)
                   /\ reg[m][d].state \in {"underway", "arrived"}
                   /\ Overlap(c, d)

\* requestToDeclareBlockCreation at m.  Entries in preparation do not count,
\* entries past their deadline do.  A known tracking ID is only renewed.
Conflict(c, m) ==
  \E d \in Calls : /\ reg[m][d].state \in {"underway", "arrived"}
                   /\ Overlap(c, d)

\* Node m serves the declaration of c.  If the answer is lost runRpcs sends
\* the request again, and throws later.
ReceiveDeclare(c, m, answered) ==
  /\ pc[c] = "declare"
  /\ m \in asked[c]
  /\ Up(m)
  /\ \/ /\ Known(m, c)
        /\ reg' = [reg EXCEPT ![m][c].gen = attempt[c]]
        /\ UNCHANGED refused
     \/ /\ ~Known(m, c)
        /\ ~Conflict(c, m)
        /\ reg' = [reg EXCEPT ![m][c] =
                     [state |-> "underway", stored |-> FALSE,
                      gen |-> attempt[c]]]
        /\ UNCHANGED refused
     \/ /\ ~Known(m, c)
        /\ Conflict(c, m)
        /\ refused' = [refused EXCEPT ![c] = @ \/ answered]
        /\ UNCHANGED reg
  /\ IF answered
     THEN /\ asked' = [asked EXCEPT ![c] = @ \ {m}]
          /\ UNCHANGED <<broken, losses>>
     ELSE /\ Lose
          /\ broken' = [broken EXCEPT ![c] = TRUE]
          /\ UNCHANGED asked
  /\ UNCHANGED <<pool, chain, pc, job, prev, attempt, dead, trip, made, halted,
                 expiries>>

\* runRpcs gives up on m.
DeclareGiveUp(c, m) ==
  /\ pc[c] = "declare"
  /\ m \in asked[c]
  /\ asked' = [asked EXCEPT ![c] = @ \ {m}]
  /\ broken' = [broken EXCEPT ![c] = TRUE]
  /\ Fail(m)
  /\ UNCHANGED <<pool, chain, reg, pc, job, prev, attempt, dead, refused,
                 trip, made, halted, expiries>>

\* Mutant: go on with the first answer.
DeclareDoneEarly(c) ==
  /\ pc[c] = "declare"
  /\ asked[c] # Nodes \ ({Owner[c]} \union Abnormal)
  /\ Runs(Owner[c])

\* All answers are there.
DeclareDone(c) ==
  /\ pc[c] = "declare"
  /\ asked[c] = {}
  /\ Runs(Owner[c])

\* An RPC failed, or another call's setupCreator dropped the entry, which is
\* then read nevertheless.
DeclareThrows(c) ==
  /\ DeclareDone(c)
  /\ broken[c] \/ ~Known(Owner[c], c)
  /\ OwnerThrows(c)
  /\ UNCHANGED <<pool, chain, reg, job, prev, attempt, dead, asked, refused,
                 broken, trip, made, losses, expiries>>

\* Someone refused, there was no one to ask, or the deadline passed meanwhile.
DeclareFailed(c) ==
  /\ DeclareDone(c)
  /\ ~broken[c]
  /\ Known(Owner[c], c)
  /\ \/ refused[c] /\ EndCall(c, "skipped")
     \/ /\ ~refused[c]
        /\ Alone(Owner[c]) \/ TimedOut(Owner[c], c)
        /\ EndCall(c, "failed")
  /\ UNCHANGED <<pool, chain, job, prev, attempt, dead, asked, refused, broken,
                 trip, made, halted, losses, expiries>>

\* No one objected: pack a new block and sign it.
DeclareAccepted(c) ==
  /\ DeclareDone(c)
  /\ ~broken[c]
  /\ Live(Owner[c], c)
  /\ ~refused[c]
  /\ ~Alone(Owner[c])
  /\ pc' = [pc EXCEPT ![c] = "travel"]
  /\ reg' = [reg EXCEPT ![Owner[c]][c].state = "underway"]
  /\ made' = made + 1
  /\ trip' = [trip EXCEPT ![c] = [block |-> made + 1, path |-> <<Owner[c]>>,
                                  stage |-> "send", left |-> {}, torn |-> {}]]
  /\ UNCHANGED <<pool, chain, job, prev, attempt, dead, asked, refused, broken,
                 halted, losses, expiries>>
-----------------------------------------------------------------------------
(* The trip of the block *)

\* What a node does that is the k-th to sign.
Signed(k) == IF k < MaxSign THEN "send" ELSE "store"

\* The last node of the path answers, and the one before it goes on at the
\* given stage: unless it had to repeat the request, for then it throws.
Return(c, stage) ==
  LET torn == Here(c) \in trip[c].torn IN
  /\ trip' = [trip EXCEPT ![c].path = Front(@),
                          ![c].stage = IF torn THEN "done" ELSE stage,
                          ![c].torn = @ \ {Here(c)}]
  /\ IF torn THEN Throws(c, Len(trip[c].path) - 1)
     ELSE UNCHANGED <<pc, halted>>

\* The node waiting in tryToSendToSign picks m, which has not signed yet, and
\* m verifies the block and signs it (requestToSignAndResendOrStore).  A node
\* with no live entry for the call, or without the keys, answers an error; the
\* loop of tryToSendToSign then goes on for ever, m included.  An outdated key
\* lets the verification end with a negative result: the entry is "arrived".
Sign(c, m) ==
  /\ trip[c].stage = "send"
  /\ Runs(Here(c))
  /\ m \in Nodes \ Range(trip[c].path)
  /\ Up(m)
  /\ Live(m, c)
  /\ reg' = [reg EXCEPT ![m][c].state = "arrived"]
  /\ IF m \in Keyless
     THEN UNCHANGED trip
     ELSE trip' = [trip EXCEPT ![c].path = Append(@, m),
                               ![c].stage = Signed(Len(trip[c].path) + 1)]
  /\ UNCHANGED <<pool, chain, pc, job, prev, attempt, dead, asked, refused,
                 broken, made, halted, losses, expiries>>

\* It picks m, but the RPC fails.
SendThrows(c, m) ==
  /\ trip[c].stage = "send"
  /\ Runs(Here(c))
  /\ m \in Nodes \ (Range(trip[c].path) \union Abnormal)
  /\ Fail(m)
  /\ Throws(c, Len(trip[c].path))
  /\ trip' = [trip EXCEPT ![c].stage = "done"]
  /\ UNCHANGED <<pool, chain, reg, job, prev, attempt, dead, asked, refused,
                 broken, made, expiries>>

\* Every node that has not signed is left out as abnormal: the node stores the
\* block itself if minSignNodes nodes have signed, and else discards it, so
\* that the node before it goes on looking.
Prompt(c) ==
  /\ trip[c].stage = "send"
  /\ Len(trip[c].path) > 1
  /\ Runs(Here(c))
  /\ Nodes \ Range(trip[c].path) \subseteq Abnormal
  /\ IF Len(trip[c].path) >= MinSign
     THEN /\ trip' = [trip EXCEPT ![c].stage = "store"]
          /\ UNCHANGED <<pc, halted>>
     ELSE Return(c, "send")
  /\ UNCHANGED <<pool, chain, reg, job, prev, attempt, dead, asked, refused,
                 broken, made, losses, expiries>>

\* Mutant: the last signature is not added.
TheBlockUnsigned(c) ==
  [id |-> trip[c].block, call |-> c, type |-> job[c].type,
   keys |-> job[c].keys, prev |-> prev[c],
   signedby |-> Range(Front(trip[c].path))]

TheBlock(c) ==
  [id |-> trip[c].block, call |-> c, type |-> job[c].type,
   keys |-> job[c].keys, prev |-> prev[c], signedby |-> Range(trip[c].path)]

\* Mutant: a block with the same _id is overwritten or added again.
StorableAgain(c, m) == Live(m, c) /\ m \notin Keyless

\* requestToAddBlock at m succeeds: the entry is live, the signatures hold and
\* the collection has no block with this _id.
Storable(c, m) ==
  /\ Live(m, c)
  /\ m \notin Keyless
  /\ \A b \in chain[m] : b.id # trip[c].block

\* Mutant: the transactions stay in the pool.
AddBlockOnly(c, m) ==
  /\ Storable(c, m)
  /\ chain' = [chain EXCEPT ![m] = @ \union {TheBlock(c)}]
  /\ UNCHANGED pool

\* Mutant: a failure is not reported.
AddBlockAnyway(c, m) ==
  /\ chain' = [chain EXCEPT ![m] = IF Storable(c, m) THEN @ \union {TheBlock(c)}
                                   ELSE @]
  /\ pool' = [pool EXCEPT ![m] = IF job[c].type = data THEN @ \ job[c].keys
                                 ELSE @]

\* It inserts the block and removes its transactions from the pool.
AddBlock(c, m) ==
  /\ Storable(c, m)
  /\ chain' = [chain EXCEPT ![m] = @ \union {TheBlock(c)}]
  /\ pool' = [pool EXCEPT ![m] = IF job[c].type = data THEN @ \ job[c].keys
                                 ELSE @]

\* Mutant: only the nodes the block has not visited are told to store it.
RecipientsUnvisited(c) == Nodes \ (Range(trip[c].path) \union Abnormal)

\* Every other node, also those that signed, must store the block.
Recipients(c) == Nodes \ ({Here(c)} \union Abnormal)

\* The last signer stores the block, unless that fails: then the node before
\* it, which gets an error, looks for another one.
Store(c) ==
  /\ trip[c].stage = "store"
  /\ Runs(Here(c))
  /\ \/ /\ AddBlock(c, Here(c))
        /\ trip' = [trip EXCEPT ![c].stage = "add", ![c].left = Recipients(c)]
        /\ broken' = [broken EXCEPT ![c] = FALSE]
        /\ UNCHANGED <<pc, halted>>
     \/ /\ ~Storable(c, Here(c))
        /\ Return(c, "send")
        /\ UNCHANGED <<chain, pool, broken>>
  /\ UNCHANGED <<reg, job, prev, attempt, dead, asked, refused, made, losses,
                 expiries>>

\* Node m serves AddBlockCa3.  Verification marks the entry as arrived, also
\* when it is negative or the insertion then fails, but not if it fails itself;
\* success marks it as stored.  If the answer is lost runRpcs sends the request
\* again, and throws later.
ReceiveAdd(c, m, answered) ==
  /\ trip[c].stage = "add"
  /\ m \in trip[c].left
  /\ Up(m)
  /\ \/ /\ AddBlock(c, m)
        /\ reg' = [reg EXCEPT ![m][c].state = "arrived", ![m][c].stored = TRUE]
     \/ /\ ~Storable(c, m)
        /\ Live(m, c)
        /\ reg' = [reg EXCEPT ![m][c].state = "arrived"]
        /\ UNCHANGED <<chain, pool>>
     \/ /\ ~Live(m, c) \/ m \in Keyless
        /\ UNCHANGED <<reg, chain, pool>>
  /\ IF answered
     THEN /\ trip' = [trip EXCEPT ![c].left = @ \ {m}]
          /\ UNCHANGED <<broken, losses>>
     ELSE /\ Lose
          /\ broken' = [broken EXCEPT ![c] = TRUE]
          /\ UNCHANGED trip
  /\ UNCHANGED <<pc, job, prev, attempt, dead, asked, refused, made, halted,
                 expiries>>

\* runRpcs gives up on m.
AddGiveUp(c, m) ==
  /\ trip[c].stage = "add"
  /\ m \in trip[c].left
  /\ trip' = [trip EXCEPT ![c].left = @ \ {m}]
  /\ broken' = [broken EXCEPT ![c] = TRUE]
  /\ Fail(m)
  /\ UNCHANGED <<pool, chain, reg, pc, job, prev, attempt, dead, asked,
                 refused, made, halted, expiries>>

\* All answers are there, but some RPC failed.
AddThrows(c) ==
  /\ trip[c].stage = "add"
  /\ trip[c].left = {}
  /\ broken[c]
  /\ Runs(Here(c))
  /\ Throws(c, Len(trip[c].path))
  /\ trip' = [trip EXCEPT ![c].stage = "done"]
  /\ UNCHANGED <<pool, chain, reg, job, prev, attempt, dead, asked, refused,
                 broken, made, losses, expiries>>

\* The last node of the path has nothing left to do but answer.
Answering(c) ==
  /\ \/ trip[c].stage = "done"
     \/ trip[c].stage = "add" /\ trip[c].left = {} /\ ~broken[c]
  /\ Len(trip[c].path) > 1
  /\ Runs(Here(c))

\* A number that is not positive: each node on the way back answers 0 itself.
Answer(c) ==
  /\ Answering(c)
  /\ Len(trip[c].path) > 2 \/ Here(c) \in trip[c].torn
  /\ Return(c, "done")
  /\ UNCHANGED <<pool, chain, reg, job, prev, attempt, dead, asked, refused,
                 broken, made, losses, expiries>>

\* The answer is lost.  The node before it repeats the request, which is served
\* again, unless the entry has timed out or that fails, too.
AnswerLost(c) ==
  /\ Answering(c)
  /\ Lose
  /\ \E stage \in {"done", Signed(Len(trip[c].path))} :
       /\ stage = "done" \/ Live(Here(c), c)
       /\ trip' = [trip EXCEPT ![c].stage = stage,
                               ![c].torn = @ \union {Here(c)}]
  /\ UNCHANGED <<pool, chain, reg, pc, job, prev, attempt, dead, asked,
                 refused, broken, made, halted, expiries>>

\* The i-th node of the path waits for a process that has ended: its RPC fails.
AwaitThrows(c, i) ==
  /\ i + 1 \in DOMAIN trip[c].path
  /\ trip[c].path[i + 1] \in halted
  /\ Runs(trip[c].path[i])
  /\ i > 1 \/ pc[c] = "travel"
  /\ Throws(c, i)
  /\ UNCHANGED <<pool, chain, reg, job, prev, attempt, dead, asked, refused,
                 broken, trip, made, losses, expiries>>

\* The answer reaches the creator, which looks at its own entry.
Finish(c) ==
  /\ Answering(c)
  /\ Len(trip[c].path) = 2
  /\ Here(c) \notin trip[c].torn
  /\ pc[c] = "travel"
  /\ Runs(Owner[c])
  /\ trip' = [trip EXCEPT ![c].path = Front(@), ![c].stage = "done"]
  /\ LET own == reg[Owner[c]][c] IN
     \/ own.state = "absent" /\ OwnerThrows(c) /\ UNCHANGED reg
     \/ own.state = "arrived" /\ own.stored /\ EndCall(c, "blocked")
                              /\ UNCHANGED halted
     \/ own.state = "arrived" /\ ~own.stored /\ EndCall(c, "failed")
                              /\ UNCHANGED halted
     \/ /\ own.state \in {"preparation", "underway"}
        /\ pc' = [pc EXCEPT ![c] = "spin"]
        /\ UNCHANGED <<reg, halted>>
  /\ UNCHANGED <<pool, chain, job, prev, attempt, dead, asked, refused, broken,
                 made, losses, expiries>>

-----------------------------------------------------------------------------
\* The deadline of c's current attempt passes, on every node.
Timeout(c) ==
  /\ expiries < MaxExpiries
  /\ dead[c] < attempt[c]
  /\ dead' = [dead EXCEPT ![c] = attempt[c]]
  /\ expiries' = expiries + 1
  /\ UNCHANGED <<pool, chain, reg, pc, job, prev, attempt, asked, refused,
                 broken, trip, made, halted, losses>>

\* The steps a started call takes when nothing fails.
Progress(c) ==
  \/ Begin(c)
  \/ \E kept \in BOOLEAN : Retransmit(c, kept)
  \/ \E m \in Nodes : ReceiveDeclare(c, m, TRUE)
  \/ DeclareThrows(c)
  \/ DeclareFailed(c)
  \/ DeclareAccepted(c)
  \/ \E m \in Nodes : Sign(c, m)
  \/ Prompt(c)
  \/ Store(c)
  \/ \E m \in Nodes : ReceiveAdd(c, m, TRUE)
  \/ AddThrows(c)
  \/ Answer(c)
  \/ \E i \in DOMAIN trip[c].path : AwaitThrows(c, i)
  \/ Finish(c)

Start(c) == StartData(c) \/ \E p \in Parcels : StartParcel(c, p)

Fault(c) ==
  \/ \E m \in Nodes : \/ ReceiveDeclare(c, m, FALSE)
                      \/ DeclareGiveUp(c, m)
                      \/ SendThrows(c, m)
                      \/ ReceiveAdd(c, m, FALSE)
                      \/ AddGiveUp(c, m)
  \/ AnswerLost(c)
  \/ Timeout(c)

Next == \E c \in Calls : Start(c) \/ Progress(c) \/ Fault(c)

\* The event loop of every node serves what it has received, and runRpcs waits
\* for an answer or an error: a started call is not abandoned.
Fairness == \A c \in Calls : WF_vars(Progress(c))

Spec == Init /\ [][Next]_vars /\ Fairness
-----------------------------------------------------------------------------
(* Properties *)

\* A call that has packed a block: its declaration was accepted by all.
Won(c) == trip[c].block # 0

Quiet == \A c \in Calls : pc[c] \in {"idle"} \union Ended

Copies(c) == UNION {{b \in chain[n] : b.call = c} : n \in Nodes}

\* The purpose of the declaration (requestToDeclareBlockCreation, "suppress the
\* generation of blocks"): no chain holds a transaction in two blocks, nor two
\* blocks that open, or close, the same parcel.
AtMostOnce ==
  \A n \in Nodes : \A a, b \in chain[n] :
    a # b /\ a.type = b.type => a.keys \intersect b.keys = {}

\* A node never holds the registrations of two other nodes' overlapping calls,
\* whatever is lost, repeated or timed out.
NoDoubleGrant ==
  \A m \in Nodes : \A c, d \in Calls :
    /\ c # d /\ Owner[c] # m /\ Owner[d] # m
    /\ Known(m, c) /\ Known(m, d)
    => ~Overlap(c, d)

\* Two nodes voted differently, each on calls of others: m has registered d, and not
\* c, and n has registered e, and not d.
SplitVote ==
  \E c, d, e \in Calls, m, n \in Nodes :
    /\ m # n /\ m \notin {Owner[c], Owner[d]} /\ n \notin {Owner[d], Owner[e]}
    /\ c # d /\ Overlap(c, d) /\ Known(m, d) /\ ~Known(m, c)
    /\ d # e /\ Overlap(d, e) /\ Known(n, e) /\ ~Known(n, d)

\* Suppression does not suppress everyone, unless the votes are split, which takes
\* two nodes that each choose between calls of others: on three nodes two calling
\* nodes never suppress one another, three may, and so may two on four nodes; then no
\* transaction is put on the chain before the next round.  Otherwise some call has put
\* its block on the chain when all are over.
SomeoneWins ==
  Quiet /\ (\E c \in Calls : pc[c] # "idle")
    => (\E c \in Calls : pc[c] = "blocked") \/ SplitVote

\* When nothing was lost and all calls are over, the nodes agree: the same
\* blocks everywhere, every block with its predecessor, and no blocked
\* transaction waiting in a pool for another block.
QuietAgreement ==
  Quiet =>
    \A n \in Nodes :
      /\ \A m \in Nodes : chain[n] = chain[m]
      /\ \A b \in chain[n] : b.prev \in {0} \union {a.id : a \in chain[n]}
      /\ \A b \in chain[n] : b.type = data => b.keys \intersect pool[n] = {}

\* Repeated requests of SignAndResendOrStore may sign one block along several
\* paths (tryToSendToSign picks at random each time).  The nodes never store
\* different signatures under one _id.
CopiesAgree ==
  \A c \in Calls : \A a, b \in Copies(c) : a.id = b.id => a = b

\* A stored block carries its creator's and at least another signature, and
\* maxSignNodes of them, or minSignNodes if nodes are left out, whichever path
\* it took (signTheBlockObject, signcounter, requestToSignAndResendOrStore).
SignedEnough ==
  \A c \in Calls : \A b \in Copies(c) :
    /\ Owner[c] \in b.signedby
    /\ Cardinality(b.signedby) >= 2
    /\ \/ Cardinality(b.signedby) >= MaxSign
       \/ Abnormal # {} /\ Cardinality(b.signedby) >= MinSign

\* createBlock returns a block only if it is on the chain of its own node, and
\* at least another signer stored it before.
BlockedMeansStored ==
  \A c \in Calls : pc[c] = "blocked" =>
    /\ \E b \in chain[Owner[c]] : b.call = c
    /\ \E n \in Nodes \ {Owner[c]} : \E b \in chain[n] : b.call = c

\* Every call of createBlock returns, and not with an exception, so that
\* postAppendBlocks releases its lock.
EveryCallEnds ==
  \A c \in Calls : pc[c] = "snapshot" ~> pc[c] \in Ended \ {"threw"}
=============================================================================
