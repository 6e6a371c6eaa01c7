------------------------------ MODULE Startup ------------------------------
(***************************************************************************)
(* The start of the nodes of a network: init of cc.ts from the moment the  *)
(* internode module listens to the opening of the API, the exchange of the *)
(* public keys (keyring/core.ts) over the pools, and the creation of the   *)
(* genesis block (postGenesisBlock of system/core.ts), by a node in a mode *)
(* with "+init" as part of its start or by an administrator's call.        *)
(*                                                                         *)
(* A node publishes its verification key and its certificate as two        *)
(* transactions in the pool, and looks for the keys of the others in its   *)
(* pool only.  Later the transactions go into blocks, like any other, and  *)
(* leave the pools.                                                        *)
(*                                                                         *)
(* The creation of a block is one step here: which nodes sign it, and who  *)
(* can verify the signatures.  Its steps are those of Ca3, and runRpcs is  *)
(* Internode's: an RPC to a node that does not listen ends with an         *)
(* exception, which nobody catches in init or under the API.  The pool is  *)
(* kept in memory.  postScanAndFixPool is left out.                        *)
(***************************************************************************)
EXTENDS Naturals, FiniteSets, Functions

CONSTANTS
  Nodes,        \* the nodes of the network
  Initializers, \* those in a mode with "+init"
  Callers,      \* those whose administrators call for a genesis block
  Signers,      \* min_signatures and max_signatures: how many nodes sign a block
  MaxStarts,    \* bound: starts of nodes, all together
  MaxGenesis,   \* bound: genesis blocks
  MaxCrashes    \* bound: crashes

ASSUME ConstantsOK ==
  /\ IsFiniteSet(Nodes)
  /\ Initializers \subseteq Nodes /\ Callers \subseteq Nodes
  /\ Signers \in 1 .. Cardinality(Nodes)
  /\ MaxStarts \in Nat /\ MaxGenesis \in Nat /\ MaxCrashes \in Nat

VARIABLES
  pc,      \* pc[n]: where n is in init
  round,   \* round[n]: the RPCs that n is waiting for
  pool,    \* pool[n]: the transactions with keys and certificates in n's pool
  keys,    \* keys[n]: the names in n's cache of keys
  genesis, \* genesis[n]: the genesis blocks in n's chain
  blocked, \* blocked[n]: the transactions with keys in n's chain
  live,    \* the nodes still have the last genesis block in their travelingIds
  starts,  \* starts[n]: how often n has been started
  exit,    \* exit[n]: the exit code of n's last process
  crashes  \* crashes so far

vars == <<pc, round, pool, keys, genesis, blocked, live, starts, exit, crashes>>

Kinds == {"key", "crt"}
Txs == Nodes \X Kinds \X (1 .. MaxStarts)

\* "listen": the server answers, but the modules do not know each other yet.
Stages == {"off", "listen", "ping", "cache", "genesis", "open"} \union Kinds

\* "yes": a node has accepted the transaction, or has blocks; "sure": no node has
\* failed to tell its height; "heights": it is a round of postGenesisBlock.
Round == [left : SUBSET Nodes, yes : BOOLEAN, sure : BOOLEAN, heights : BOOLEAN]
NoRound == [left |-> {}, yes |-> FALSE, sure |-> TRUE, heights |-> FALSE]

\* "sure": the creator relied on answers of all nodes that still held when it began
\* to create the block.
Block == [by : Nodes, no : 1 .. MaxGenesis, sure : BOOLEAN]

\* 1: an exception; the others are those of init
Codes == {0, 1, 13, 14, 16}

TypeOK ==
  /\ pc \in [Nodes -> Stages]
  /\ round \in [Nodes -> Round] /\ \A n \in Nodes : n \notin round[n].left
  /\ pool \in [Nodes -> SUBSET Txs]
  /\ keys \in [Nodes -> SUBSET Nodes]
  /\ genesis \in [Nodes -> SUBSET Block]
  /\ blocked \in [Nodes -> SUBSET Txs]
  /\ live \in BOOLEAN
  /\ starts \in [Nodes -> 0 .. MaxStarts]
  /\ exit \in [Nodes -> Codes]
  /\ crashes \in 0 .. MaxCrashes

Init ==
  /\ pc = [n \in Nodes |-> "off"]
  /\ round = [n \in Nodes |-> NoRound]
  /\ pool = [n \in Nodes |-> {}]
  /\ keys = [n \in Nodes |-> {}]
  /\ genesis = [n \in Nodes |-> {}]
  /\ blocked = [n \in Nodes |-> {}]
  /\ live = FALSE
  /\ starts = [n \in Nodes |-> 0]
  /\ exit = [n \in Nodes |-> 0]
  /\ crashes = 0

Wired(n) == pc[n] \notin {"off", "listen"}
Made == UNION {genesis[n] : n \in Nodes}

\* Mutant: the sender itself is among the targets.
Everybody(n) == Nodes
Peers(n) == Nodes \ {n}

Reachable(n) == \A m \in Peers(n) : pc[m] # "off"

NewRound(n, heights) ==
  [left |-> Peers(n), yes |-> FALSE, sure |-> TRUE, heights |-> heights]

\* The process ends: what it kept in memory is gone.
End(n, code) ==
  /\ pc' = [pc EXCEPT ![n] = "off"]
  /\ round' = [round EXCEPT ![n] = NoRound]
  /\ pool' = [pool EXCEPT ![n] = {}]
  /\ keys' = [keys EXCEPT ![n] = {}]
  /\ exit' = [exit EXCEPT ![n] = code]

\* m has answered n
Answered(n, m) == [round[n] EXCEPT !.left = @ \ {m}]

(***************************************************************************)
(* The start                                                               *)
(***************************************************************************)
\* The starts so far, by node and number
Started == {s \in Nodes \X (1 .. MaxStarts) : s[2] <= starts[s[1]]}

Listen(n) ==
  /\ pc[n] = "off"
  /\ Cardinality(Started) < MaxStarts
  /\ pc' = [pc EXCEPT ![n] = "listen"]
  /\ starts' = [starts EXCEPT ![n] = @ + 1]
  /\ exit' = [exit EXCEPT ![n] = 0]
  /\ UNCHANGED <<round, pool, keys, genesis, blocked, live, crashes>>

\* The references between the modules are set, and the others are pinged.
Wire(n) ==
  /\ pc[n] = "listen"
  /\ pc' = [pc EXCEPT ![n] = "ping"]
  /\ UNCHANGED <<round, pool, keys, genesis, blocked, live, starts, exit, crashes>>

\* An RPC to a node that does not listen
Throw(n, m) ==
  /\ pc[n] = "ping" \/ (pc[n] # "off" /\ m \in round[n].left)
  /\ pc[m] = "off"
  /\ End(n, 1)
  /\ UNCHANGED <<genesis, blocked, live, starts, crashes>>

\* Mutant: the transaction is delivered, but not kept.
PostRemote(n, k) ==
  /\ pc' = [pc EXCEPT ![n] = k]
  /\ round' = [round EXCEPT ![n] = NewRound(n, FALSE)]
  /\ UNCHANGED <<pool, keys, genesis, blocked, live, starts, exit, crashes>>

\* postSelfPublicKeys: a transaction is posted, and delivered at once.  (It is posted
\* at each start: the one in the chain is looked for by the name "self".)
Post(n, k) ==
  /\ pool' = [pool EXCEPT ![n] = @ \union {<<n, k, starts[n]>>}]
  /\ pc' = [pc EXCEPT ![n] = k]
  /\ round' = [round EXCEPT ![n] = NewRound(n, FALSE)]
  /\ UNCHANGED <<keys, genesis, blocked, live, starts, exit, crashes>>

\* All pings have been answered.
PostKey(n) == pc[n] = "ping" /\ Reachable(n) /\ Post(n, "key")

\* AddPool.  A node that is not wired answers with a failure.
Deliver(n, m) ==
  /\ pc[n] \in Kinds /\ m \in round[n].left
  /\ pc[m] # "off"
  /\ IF Wired(m)
     THEN /\ pool' = [pool EXCEPT ![m] = @ \union {<<n, pc[n], starts[n]>>}]
          /\ round' = [round EXCEPT ![n] = [Answered(n, m) EXCEPT !.yes = TRUE]]
     ELSE /\ round' = [round EXCEPT ![n] = Answered(n, m)]
          /\ UNCHANGED pool
  /\ UNCHANGED <<pc, keys, genesis, blocked, live, starts, exit, crashes>>

\* If any one transfer succeeds, it is considered successful.
PostCrt(n) ==
  /\ pc[n] = "key" /\ round[n].left = {} /\ round[n].yes
  /\ Post(n, "crt")

EndDelivery(n) ==
  /\ pc[n] = "crt" /\ round[n].left = {} /\ round[n].yes
  /\ pc' = [pc EXCEPT ![n] = "cache"]
  /\ UNCHANGED <<round, pool, keys, genesis, blocked, live, starts, exit, crashes>>

FailDelivery(n) ==
  /\ pc[n] \in Kinds /\ round[n].left = {} /\ ~round[n].yes
  /\ End(n, 13)
  /\ UNCHANGED <<genesis, blocked, live, starts, crashes>>

\* refreshPublicKeyCache: the keys in the pool are learned, but it is a failure if
\* there is no key or no certificate.
Pooled(n) == {t[1] : t \in {u \in pool[n] : u[2] = "key"}}
Refreshes(n) == \A k \in Kinds : \E t \in pool[n] : t[2] = k

Cache(n) ==
  /\ pc[n] = "cache"
  /\ Refreshes(n)
  /\ keys' = [keys EXCEPT ![n] = @ \union Pooled(n)]
  /\ pc' = [pc EXCEPT ![n] = IF n \in Initializers /\ genesis[n] = {}
                             THEN "genesis" ELSE "open"]
  /\ UNCHANGED <<round, pool, genesis, blocked, live, starts, exit, crashes>>

FailCache(n) ==
  /\ pc[n] = "cache"
  /\ ~Refreshes(n)
  /\ End(n, 14)
  /\ UNCHANGED <<genesis, blocked, live, starts, crashes>>

(***************************************************************************)
(* The creation of a block                                                 *)
(***************************************************************************)
\* verifyByPublicKey: unknown names are looked for in the pool once.
Verifies(n, names) ==
  Wired(n) /\ names \subseteq keys[n] \union IF Refreshes(n) THEN Pooled(n) ELSE {}

\* Mutant: what is found in the pool is not kept in the cache.
Unlearned(n, names) == keys[n]
Learned(n, names) == IF names \subseteq keys[n] THEN keys[n] ELSE keys[n] \union Pooled(n)

\* The orders in which nodes may sign a block, and those of a block of n
AllTrips == {s \in [1 .. Signers -> Nodes] : IsInjective(s)}
Trips(n) == {s \in AllTrips : s[1] = n}
Before(s, j) == {s[i] : i \in 1 .. j - 1}
All(s) == {s[i] : i \in 1 .. Signers}

\* Each signer verifies the signatures before its own, and the last one all before it
\* stores the block, as every node does in requestToAddBlock.
Signable(s) ==
  /\ \A j \in 1 .. Signers : Verifies(s[j], Before(s, j))
  /\ Verifies(s[Signers], All(s))
Storers(s) == {m \in Nodes : Verifies(m, All(s))}

Store(s, txs) ==
  /\ keys' = [m \in Nodes |-> IF Wired(m) THEN Learned(m, All(s)) ELSE keys[m]]
  /\ pool' = [m \in Nodes |-> IF m \in Storers(s) THEN pool[m] \ txs ELSE pool[m]]
  /\ blocked' = [m \in Nodes |->
                   IF m \in Storers(s) THEN blocked[m] \union txs ELSE blocked[m]]

\* postAppendBlocks: the transactions with keys go into a block.
AppendKeys(n) ==
  /\ pc[n] = "open" /\ ~round[n].heights
  /\ genesis[n] # {} /\ pool[n] # {}
  /\ Reachable(n)
  /\ \E s \in Trips(n) : Signable(s) /\ Store(s, pool[n])
  /\ UNCHANGED <<pc, round, genesis, live, starts, exit, crashes>>

\* A creation that fails may still let a node learn the keys in its pool.
Creates(n) ==
  \/ round[n].heights /\ round[n].left = {} /\ ~round[n].yes
  \/ pc[n] = "open" /\ genesis[n] # {} /\ pool[n] # {}

LearnInVain(n) ==
  /\ Wired(n) /\ ~ Pooled(n) \subseteq keys[n]
  /\ \E m \in Peers(n) : Creates(m)
  /\ keys' = [keys EXCEPT ![n] = @ \union Pooled(n)]
  /\ UNCHANGED <<pc, round, pool, genesis, blocked, live, starts, exit, crashes>>

(***************************************************************************)
(* postGenesisBlock                                                        *)
(***************************************************************************)
\* The own chain is empty; the heights of the others are asked for.
BeginGenesis(n) ==
  /\ pc[n] = "genesis" \/ (pc[n] = "open" /\ n \in Callers)
  /\ ~round[n].heights
  /\ genesis[n] = {}
  /\ Cardinality(Made) < MaxGenesis
  /\ round' = [round EXCEPT ![n] = NewRound(n, TRUE)]
  /\ UNCHANGED <<pc, pool, keys, genesis, blocked, live, starts, exit, crashes>>

\* Mutant: any answer is fine.
AnyHeight(m) == FALSE
HasBlocks(m) == genesis[m] # {}

\* GetBlockHeight.  An answer with a failure is passed over.
AskHeight(n, m) ==
  /\ round[n].heights /\ m \in round[n].left
  /\ pc[m] # "off"
  /\ round' = [round EXCEPT ![n] =
       IF Wired(m) THEN [Answered(n, m) EXCEPT !.yes = @ \/ HasBlocks(m)]
       ELSE [Answered(n, m) EXCEPT !.sure = FALSE]]
  /\ UNCHANGED <<pc, pool, keys, genesis, blocked, live, starts, exit, crashes>>

Asked(n) == round[n].heights /\ round[n].left = {}
Opened(n) == [pc EXCEPT ![n] = "open"]
NotAsking(n) == [round EXCEPT ![n] = NoRound]

\* A declaration of another genesis block is still there: the creation is skipped,
\* which is not an error.
SkipGenesis(n) ==
  /\ Asked(n) /\ ~round[n].yes /\ live
  /\ pc' = Opened(n)
  /\ round' = NotAsking(n)
  /\ UNCHANGED <<pool, keys, genesis, blocked, live, starts, exit, crashes>>

\* A creator that cannot verify the signatures itself does not see that the block is
\* stored, and creates another one after the deadline.
CreateGenesis(n) ==
  /\ Asked(n) /\ ~round[n].yes /\ ~live
  /\ Cardinality(Made) < MaxGenesis
  /\ Reachable(n)
  /\ \E s \in Trips(n) :
       /\ Signable(s)
       /\ LET b == [by |-> n, no |-> Cardinality(Made) + 1, sure |-> round[n].sure]
          IN  genesis' = [m \in Nodes |-> IF m \in Storers(s)
                            THEN genesis[m] \union {b} ELSE genesis[m]]
       /\ Store(s, {})
       /\ IF n \in Storers(s)
          THEN pc' = Opened(n) /\ round' = NotAsking(n)
          ELSE UNCHANGED <<pc, round>>
  /\ live' = TRUE
  /\ UNCHANGED <<starts, exit, crashes>>

\* The creation fails: for a node with blocks, or a signature nobody can verify.
\* In init this is the end.
Refused(n) ==
  \/ Asked(n) /\ round[n].yes
  \/ pc[n] = "genesis" /\ genesis[n] # {} /\ ~round[n].heights
  \/ /\ Asked(n) /\ ~live /\ Reachable(n)
     /\ \E s \in Trips(n) : ~Signable(s)

FailGenesis(n) ==
  /\ Refused(n) /\ pc[n] = "genesis"
  /\ End(n, 16)
  /\ UNCHANGED <<genesis, blocked, live, starts, crashes>>

RefuseGenesis(n) ==
  /\ Refused(n) /\ pc[n] = "open"
  /\ round' = NotAsking(n)
  /\ UNCHANGED <<pc, pool, keys, genesis, blocked, live, starts, exit, crashes>>

\* A node is off when the creation of the genesis block is declared.
ThrowGenesis(n) ==
  /\ Asked(n) /\ ~round[n].yes /\ ~Reachable(n)
  /\ End(n, 1)
  /\ UNCHANGED <<genesis, blocked, live, starts, crashes>>

\* The deadline of the last genesis block passes, and the nodes delete it from their
\* travelingIds.  What was asked for before is not worth much then.
Expire ==
  /\ live
  /\ live' = FALSE
  /\ round' = [n \in Nodes |-> IF round[n].heights
                 THEN [round[n] EXCEPT !.sure = FALSE] ELSE round[n]]
  /\ UNCHANGED <<pc, pool, keys, genesis, blocked, starts, exit, crashes>>

Crash(n) ==
  /\ pc[n] # "off"
  /\ crashes < MaxCrashes
  /\ crashes' = crashes + 1
  /\ End(n, 1)
  /\ UNCHANGED <<genesis, blocked, live, starts>>

Next ==
  \/ \E n \in Nodes :
       \/ Listen(n) \/ Wire(n) \/ PostKey(n) \/ PostCrt(n)
       \/ EndDelivery(n) \/ FailDelivery(n) \/ Cache(n) \/ FailCache(n)
       \/ AppendKeys(n) \/ LearnInVain(n)
       \/ BeginGenesis(n) \/ SkipGenesis(n) \/ CreateGenesis(n)
       \/ FailGenesis(n) \/ RefuseGenesis(n) \/ ThrowGenesis(n)
       \/ Crash(n)
       \/ \E m \in Nodes :
            Deliver(n, m) \/ AskHeight(n, m) \/ Throw(n, m)
  \/ Expire

Spec == Init /\ [][Next]_vars

(***************************************************************************)
(* Properties                                                              *)
(***************************************************************************)
\* There is one genesis block, whoever creates one at the same time, unless a creator
\* could not rely on the heights it had been told: a node that was not wired could
\* not tell its height, or the other block was made and its declaration forgotten
\* meanwhile.
OneGenesis == \A b, c \in Made : b = c \/ ~b.sure \/ ~c.sure

\* While all nodes sign every block, a node that has received the key of another
\* never loses it: before the transaction leaves its pool with a block it has
\* learned the key.
Has(n, m) == m \in keys[n] \/ m \in Pooled(n)
KeysStay ==
  [][\A n \in Nodes, m \in Nodes :
       m # n /\ Has(n, m) /\ pc'[n] # "off" => Has(n, m)']_vars

\* A start ends with code 14 only if transactions with its own keys have gone into a
\* block between their delivery and its look into the pool; and with code 16 only if
\* there is a genesis block already, or some node has not received the keys of all.
Complete(n) == \A m \in Nodes, k \in Kinds : \E i \in 1 .. MaxStarts : <<m, k, i>> \in pool[n]
EndsWith(n, code) == pc[n] # "off" /\ pc'[n] = "off" /\ exit'[n] = code
ExitReasons ==
  [][\A n \in Nodes :
       /\ EndsWith(n, 14) => \E k \in Kinds : <<n, k, starts[n]>> \in blocked[n]
       /\ EndsWith(n, 16) => Made # {} \/ \E m \in Nodes : ~Complete(m)]_vars
=============================================================================
