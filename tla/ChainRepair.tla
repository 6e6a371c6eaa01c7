----------------------------- MODULE ChainRepair -----------------------------
(***************************************************************************)
(* The diagnosis of the chain and its repair: reportHealthOfChain,         *)
(* obtainHealthyNodes, examineBlockDifference and postScanAndFixBlock of   *)
(* system/core.ts, with the operations on the block collection they use.   *)
(*                                                                         *)
(* The blocks are made by the CA3 algorithm and stored on the nodes at any *)
(* time, or on some nodes only (module Ca3 shows how).  A block names its  *)
(* predecessor on the chain of its maker; blocks made at the same time may *)
(* name the same one.  Its timestamp is the clock of its maker, which may  *)
(* be behind that of the maker of the predecessor, though not before the   *)
(* genesis block.  A block in a database may be falsified.                 *)
(*                                                                         *)
(* All blocks belong to the default tenant, there is one genesis block,    *)
(* every node has the keys to verify, and the database does not fail.  The *)
(* database is the one on disk: an _id read from it is an ObjectId, and a  *)
(* string once it has been sent to another node.                           *)
(***************************************************************************)
EXTENDS Naturals, FiniteSets, Sequences, SequencesExt

CONSTANTS
  Nodes,      \* the nodes
  Txs,        \* transactions, delivered to all nodes before the model starts
  MaxBlocks,  \* bound: blocks made after the genesis block
  NameOf,     \* NameOf[n]: the nodename of n
  AddressOf,  \* AddressOf[n]: host and rpc_port of n, as host:port
  Scanners,   \* the nodes that run postScanAndFixBlock
  MaxScans,   \* bound: scans begun
  MaxFaults   \* bound: blocks falsified and RPCs failed

ASSUME ConstantsOK ==
  /\ IsFiniteSet(Txs)
  /\ MaxBlocks \in Nat
  /\ DOMAIN NameOf = Nodes /\ DOMAIN AddressOf = Nodes
  /\ Scanners \subseteq Nodes
  /\ MaxScans \in Nat
  /\ MaxFaults \in Nat

Blocks == 1 .. MaxBlocks + 1
Genesis == 1
NoBlock == 0

VARIABLES
  made,    \* made[b]: block b, for the blocks made so far; numbered by their _id
  chain,   \* chain[n]: the blocks in the database of n
  forged,  \* forged[n]: those of them that no longer verify
  pool,    \* pool[n]: the transactions in the pool of n
  scan,    \* scan[n]: n's run of postScanAndFixBlock
  scans,   \* scans begun so far
  faults   \* faults so far

vars == <<made, chain, forged, pool, scan, scans, faults>>

GenesisBlock == [prev |-> NoBlock, txs |-> {}, height |-> 0, time |-> 0]

Others(n) == Nodes \ {n}
Recorded(n) == UNION {made[b].txs : b \in chain[n]}

\* Block numbers are in the order of _id, by which getLastBlock sorts.
LastOf(n) == CHOOSE b \in chain[n] : \A c \in chain[n] : c <= b

\* The lock is free in stage "idle"; in "threw" it is taken and nothing runs.
\* "healthy", "broken": the report on the own chain has no error; it has blocks
\* that do not verify.  "digests": the healthy nodes with their last blocks
\* (the code has the names of the nodes, and "localhost" for n); "target": the last
\* block of the majority; "list": the own blocks as sent; "add", "bad" (those of
\* them that are forged) and "del": the answer.
Scan == [stage : {"idle", "digest", "decide", "ask", "add", "push", "delete", "threw"},
         healthy : BOOLEAN, broken : BOOLEAN, left : SUBSET Nodes,
         digests : SUBSET [node : Nodes, last : Blocks],
         target : Blocks, donor : Nodes, list : SUBSET Blocks,
         add : SUBSET Blocks, bad : SUBSET Blocks, del : SUBSET Blocks]

NoScan(n) == [stage |-> "idle", healthy |-> FALSE, broken |-> FALSE, left |-> {}, digests |-> {},
              target |-> Genesis, donor |-> n, list |-> {}, add |-> {},
              bad |-> {}, del |-> {}]

TypeOK ==
  /\ DOMAIN made \subseteq Blocks
  /\ \A b \in DOMAIN made :
       /\ made[b].prev \in DOMAIN made \union {NoBlock}
       /\ made[b].txs \subseteq Txs
       /\ made[b].height \in Nat /\ made[b].time \in Nat
  /\ chain \in [Nodes -> SUBSET DOMAIN made]
  /\ \A n \in Nodes : forged[n] \subseteq chain[n]
  /\ pool \in [Nodes -> SUBSET Txs]
  /\ scan \in [Nodes -> Scan]
  /\ scans \in 0 .. MaxScans
  /\ faults \in 0 .. MaxFaults

Init ==
  /\ made = [b \in {Genesis} |-> GenesisBlock]
  /\ chain = [n \in Nodes |-> {Genesis}]
  /\ forged = [n \in Nodes |-> {}]
  /\ pool = [n \in Nodes |-> Txs]
  /\ scan = [n \in Nodes |-> NoScan(n)]
  /\ scans = 0
  /\ faults = 0

(***************************************************************************)
(* The diagnosis                                                           *)
(***************************************************************************)
\* The blocks of n, latest timestamp first.  (Those with the same timestamp come in any
\* order: the comparison puts each of them before the other.)
Listed(n) ==
  CHOOSE list \in SetToSeqs(chain[n]) :
    \A i \in 2 .. Len(list) : made[list[i - 1]].time >= made[list[i]].time

\* checkHealthOfChainRecursive walks down the list, looking for the predecessor
\* "want" of the block before (NoBlock at the start of a walk).  A block that is
\* not the one wanted starts a walk of its own; the one it interrupts, on the
\* stack, goes on after it with what has not been looked at.  What is wrong is
\* counted; here, whether anything is.
\* "stack" holds position and "want" of each walk interrupted; "bad" the blocks that
\* do not verify.

\* Mutant: a predecessor still wanted at the end is not missed.
EndWithoutRoot(w) ==
  IF w.stack = <<>> THEN [w EXCEPT !.want = NoBlock]
  ELSE [w EXCEPT !.at = Head(w.stack)[1] + 1, !.want = Head(w.stack)[2],
                 !.stack = Tail(w.stack)]

\* The end of a walk.  A predecessor still wanted is missing.
EndWalk(w) ==
  LET e == w.errors \/ w.want # NoBlock
  IN  IF w.stack = <<>> THEN [w EXCEPT !.want = NoBlock, !.errors = e]
      ELSE [w EXCEPT !.at = Head(w.stack)[1] + 1, !.want = Head(w.stack)[2],
                     !.stack = Tail(w.stack), !.errors = e]

\* verifyBlock, and on to the predecessor.  The genesis block ends the walk.
Visit(w, b, sound, n) ==
  [w EXCEPT !.seen = @ \union {b},
            !.bad = IF sound THEN @ ELSE @ \union {b},
            !.errors = @ \/ ~sound,
            !.at = IF b = Genesis THEN Cardinality(chain[n]) + 1 ELSE @ + 1,
            !.want = made[b].prev]

StepOfWalk(w, n, list) ==
  IF w.at > Len(list) THEN EndWalk(w)
  ELSE LET b == list[w.at]
       IN  IF b \in w.seen THEN [w EXCEPT !.at = @ + 1]
           ELSE IF w.want \in {NoBlock, b} THEN Visit(w, b, b \notin forged[n], n)
           ELSE [w EXCEPT !.stack = <<<<w.at, w.want>>>> \o @, !.want = NoBlock]

\* The whole walk.  Each block starts at most one walk, and no walk is longer than the
\* list.  w[k] has one element, the walk after k steps; as the bound variable of a set
\* it is computed once.
Walked(n, list) ==
  LET start == [at |-> 1, want |-> NoBlock, stack |-> <<>>, seen |-> {}, bad |-> {},
                errors |-> Genesis \notin chain[n]]
      bound == (Len(list) + 1) * (Len(list) + 2)
      w[k \in 0 .. bound] == IF k = 0 THEN {start}
                             ELSE {StepOfWalk(x, n, list) : x \in w[k - 1]}
  IN  CHOOSE x \in w[bound] : TRUE

\* reportHealthOfChain
Report(n) == CHOOSE x \in {Walked(n, list) : list \in {Listed(n)}} : TRUE

Healthy(n) == chain[n] # {} /\ ~Report(n).errors

(***************************************************************************)
(* Blocks made, stored and falsified                                       *)
(***************************************************************************)
\* Mutant: one less instead of one more.
HeightBelow(p) == made[p].height - 1
HeightAfter(p) == made[p].height + 1

\* createBlock on n: a block of transactions of its pool.  The clock of n is
\* ahead of that of the maker of the predecessor, or behind.
Make(n, txs, late) ==
  LET b == Cardinality(DOMAIN made) + 1
      p == LastOf(n)
  IN  /\ b \in Blocks
      /\ chain[n] # {}
      /\ txs \subseteq pool[n]
      /\ late => made[p].time > 1
      /\ made' = [c \in DOMAIN made \union {b} |->
                    IF c \in DOMAIN made THEN made[c]
                    ELSE [prev |-> p, txs |-> txs, height |-> HeightAfter(p),
                          time |-> IF late THEN made[p].time - 1 ELSE 2 * b]]
      /\ chain' = [chain EXCEPT ![n] = @ \union {b}]
      /\ pool' = [pool EXCEPT ![n] = @ \ txs]
      /\ UNCHANGED <<forged, scan, scans, faults>>

\* requestToAddBlock on another node
Store(n, b) ==
  /\ b \notin chain[n]
  /\ \E m \in Others(n) : b \in chain[m] \ forged[m]
  /\ chain' = [chain EXCEPT ![n] = @ \union {b}]
  /\ pool' = [pool EXCEPT ![n] = @ \ made[b].txs]
  /\ UNCHANGED <<made, forged, scan, scans, faults>>

Falsify(n, b) ==
  /\ faults < MaxFaults
  /\ b \in chain[n] \ forged[n]
  /\ forged' = [forged EXCEPT ![n] = @ \union {b}]
  /\ faults' = faults + 1
  /\ UNCHANGED <<made, chain, pool, scan, scans>>

(***************************************************************************)
(* postScanAndFixBlock                                                     *)
(***************************************************************************)
\* The report on the own chain, and the question for the digests of the others
BeginScan(n) ==
  /\ n \in Scanners
  /\ scans < MaxScans
  /\ scan[n].stage = "idle"
  /\ scans' = scans + 1
  /\ scan' = [scan EXCEPT ![n] =
       [NoScan(n) EXCEPT !.stage = "digest", !.healthy = Healthy(n),
          !.broken = chain[n] # {} /\ Report(n).bad # {}, !.left = Others(n),
          !.digests = IF Healthy(n)
                      THEN {[node |-> n, last |-> LastOf(n)]} ELSE {}]]
  /\ UNCHANGED <<made, chain, forged, pool, faults>>

\* GetBlockDigest: an unhealthy node answers with an error.
GetDigest(n, m) ==
  /\ scan[n].stage = "digest"
  /\ m \in scan[n].left
  /\ scan' = [scan EXCEPT ![n].left = @ \ {m},
       ![n].digests = IF Healthy(m)
                      THEN @ \union {[node |-> m, last |-> LastOf(m)]} ELSE @,
       ![n].stage = IF scan[n].left = {m} THEN "decide" ELSE "digest"]
  /\ UNCHANGED <<made, chain, forged, pool, scans, faults>>

\* A failed RPC ends in an exception (module Internode); the lock stays taken.
LoseRpc(n) ==
  /\ scan[n].stage \in {"digest", "ask"}
  /\ faults < MaxFaults
  /\ faults' = faults + 1
  /\ scan' = [scan EXCEPT ![n].stage = "threw"]
  /\ UNCHANGED <<made, chain, forged, pool, scans>>

\* obtainHealthyNodes: the last block most of the nodes have; of these the one
\* of the greatest height, and the own one first.
Voters(n, b) == {m \in Nodes : [node |-> m, last |-> b] \in scan[n].digests}
Leading(n) ==
  LET best == {b \in Blocks : Voters(n, b) # {} /\ \A c \in Blocks :
                 Cardinality(Voters(n, c)) <= Cardinality(Voters(n, b))}
      top  == {b \in best : \A c \in best : made[c].height <= made[b].height}
      own  == {b \in top : n \in Voters(n, b)}
  IN  IF own # {} THEN own ELSE top

Enough(n) ==
  Cardinality(scan[n].digests) >= IF scan[n].healthy THEN 2 ELSE 1

\* Mutant: the lock is not given back.
LockKept(n) == [scan[n] EXCEPT !.stage = "threw"]
Released(n) == NoScan(n)

\* There are not enough healthy nodes; or this one belongs to the majority; or the
\* option scanonly is set.
EndOfScan(n) ==
  /\ scan[n].stage = "decide"
  /\ scan' = [scan EXCEPT ![n] = Released(n)]
  /\ UNCHANGED <<made, chain, forged, pool, scans, faults>>

\* repairFalsifiedChain calls itself with the same search key for ever when the
\* report has a block that does not verify (collectTargetOidsRecursive).
OverflowStack(n) ==
  /\ scan[n].stage = "decide"
  /\ Enough(n)
  /\ scan[n].broken
  /\ scan' = [scan EXCEPT ![n].stage = "threw"]
  /\ UNCHANGED <<made, chain, forged, pool, scans, faults>>

\* The own list goes to one host of the majority.  It is looked for by address
\* among the configured nodes; if none has it, the answer is that of an empty
\* list.
Asking(n, b, m) ==
  [NoScan(n) EXCEPT !.stage = "ask", !.target = b, !.donor = m, !.list = chain[n]]

ChooseDonor(n) ==
  /\ scan[n].stage = "decide"
  /\ Enough(n)
  /\ ~scan[n].broken
  /\ \E b \in Leading(n) :
       /\ n \notin Voters(n, b)
       /\ \E v \in Voters(n, b) :
            \/ \E m \in Others(n) :
                 /\ AddressOf[m] = NameOf[v]
                 /\ scan' = [scan EXCEPT ![n] = Asking(n, b, m)]
            \/ /\ \A m \in Others(n) : AddressOf[m] # NameOf[v]
               /\ scan' = [scan EXCEPT ![n] = [Asking(n, b, n) EXCEPT !.stage = "add"]]
  /\ UNCHANGED <<made, chain, forged, pool, scans, faults>>

\* An _id in a database and the same in a message.  They are compared with ===
\* in one direction, which no string and object satisfy, and as strings in the
\* other.
InDatabase(b) == <<"ObjectId", b>>
InMessage(b) == <<"string", b>>
SameString(x, y) == x[2] = y[2]

\* examineBlockDifference on m
Lacking(m, list) ==
  {b \in chain[m] : \A c \in list : ~SameString(InDatabase(b), InMessage(c))}
Surplus(m, list) ==
  {c \in list : \A b \in chain[m] : InMessage(c) # InDatabase(b)}

ExamineDifference(n) ==
  LET m == scan[n].donor IN
  /\ scan[n].stage = "ask"
  /\ scan' = [scan EXCEPT ![n].stage = "add",
                          ![n].add = Lacking(m, scan[n].list),
                          ![n].bad = Lacking(m, scan[n].list) \cap forged[m],
                          ![n].del = Surplus(m, scan[n].list)]
  /\ UNCHANGED <<made, chain, forged, pool, scans, faults>>

\* setBlockNewData for each block to be added, without verifying it.  One that has
\* been stored meanwhile makes the scan fail; the others are added all the same.
AddLacking(n) ==
  LET new == scan[n].add \ chain[n] IN
  /\ scan[n].stage = "add"
  /\ chain' = [chain EXCEPT ![n] = @ \union new]
  /\ forged' = [forged EXCEPT ![n] = @ \union (new \cap scan[n].bad)]
  /\ scan' = [scan EXCEPT ![n] = IF new = scan[n].add THEN [@ EXCEPT !.stage = "push"]
                                 ELSE Released(n)]
  /\ UNCHANGED <<made, pool, scans, faults>>

\* The transactions of the blocks of s, block by block
Unpacked(s) == FlattenSeq([i \in DOMAIN s |-> SetToSeq(made[s[i]].txs)])

\* The loop that takes t out of the array it runs over: splice shifts the rest, so
\* that the iterator passes over the next element and "at" falls behind.
Spliced(s, t) ==
  LET Round(x, k) == IF k > Len(x.rest) THEN x
                     ELSE IF x.rest[k] = t THEN [x EXCEPT !.rest = RemoveAt(@, x.at)]
                     ELSE [x EXCEPT !.at = @ + 1]
      p[k \in 0 .. Len(s)] == IF k = 0 THEN {[rest |-> s, at |-> 1]}
                              ELSE {Round(x, k) : x \in p[k - 1]}
  IN  (CHOOSE x \in p[Len(s)] : TRUE).rest

\* Mutant: nothing is written back.
NothingWrittenBack(del, add) == <<>>

\* Those that are in an added block are not written back.
WrittenBack(del, add) == FoldLeft(Spliced, Unpacked(del), Unpacked(add))

\* The databases give no order to the blocks, so they come in any.
Backs(n) ==
  {WrittenBack(del, add) : del \in SetToSeqs(scan[n].del \cap chain[n]),
                           add \in SetToSeqs(scan[n].add)}

\* setPoolNewData for each of them.  One that is in the pool, or comes twice, makes
\* the scan fail; the others are written all the same.
PushBack(n) ==
  /\ scan[n].stage = "push"
  /\ \E back \in Backs(n) :
       /\ pool' = [pool EXCEPT ![n] = @ \union ToSet(back)]
       /\ scan' = [scan EXCEPT ![n] =
            IF ToSet(back) \cap pool[n] = {} /\ IsInjective(back)
            THEN [@ EXCEPT !.stage = "delete"] ELSE Released(n)]
  /\ UNCHANGED <<made, chain, forged, scans, faults>>

\* Mutant: all that are not among the added ones, looked up when it deletes.
DoomedByNow(n) == chain[n] \ scan[n].add
Doomed(n) == scan[n].del

\* blockDeleteBlocks
DeleteSurplus(n) ==
  /\ scan[n].stage = "delete"
  /\ chain' = [chain EXCEPT ![n] = @ \ Doomed(n)]
  /\ forged' = [forged EXCEPT ![n] = @ \ Doomed(n)]
  /\ scan' = [scan EXCEPT ![n] = Released(n)]
  /\ UNCHANGED <<made, pool, scans, faults>>

ScanStep(n) ==
  \/ \E m \in Nodes : GetDigest(n, m)
  \/ EndOfScan(n) \/ OverflowStack(n) \/ ChooseDonor(n)
  \/ ExamineDifference(n) \/ AddLacking(n) \/ PushBack(n) \/ DeleteSurplus(n)

Next ==
  \E n \in Nodes :
    \/ \E txs \in SUBSET Txs \ {{}}, late \in BOOLEAN : Make(n, txs, late)
    \/ \E b \in DOMAIN made : Store(n, b) \/ Falsify(n, b)
    \/ BeginScan(n) \/ LoseRpc(n) \/ ScanStep(n)

Spec == Init /\ [][Next]_vars

\* RPCs are answered and a scan that has begun goes on.
FairSpec == Spec /\ \A n \in Scanners : WF_vars(ScanStep(n))

(***************************************************************************)
(* Properties                                                              *)
(***************************************************************************)
\* What a healthy chain is: the genesis block and, on it, one line of blocks that
\* verify, each with a later timestamp than its predecessor.
InLine(n) ==
  /\ Genesis \in chain[n]
  /\ forged[n] = {}
  /\ \A b \in chain[n] \ {Genesis} :
       /\ made[b].prev \in chain[n]
       /\ made[made[b].prev].time < made[b].time
  /\ \A b, c \in chain[n] : b # c => made[b].prev # made[c].prev

\* The report is right: a chain is called healthy if and only if it is one line of
\* verified blocks.  A fork, a lost block, a falsified one, wherever it is, and
\* clocks that disagree are all reported.
ReportRight == \A n \in Nodes : chain[n] # {} => (Report(n).errors <=> ~InLine(n))

\* A transaction that a node has, in its pool or on its chain, is not lost by the
\* repair, whatever step fails and whatever blocks come in meanwhile, as long as
\* no transaction is in two blocks of the node.
Repeated(n) == \E b, c \in chain[n] : b # c /\ made[b].txs \cap made[c].txs # {}

NothingVanishes ==
  [][\A n \in Nodes : ~Repeated(n) =>
       pool[n] \union Recorded(n) \subseteq pool'[n] \union Recorded(n)']_vars

\* A block that has come to the chain after the scan sent its list is not deleted
\* by the scan, although the deletion comes several steps later.
LaterBlocksStay ==
  [][\A n \in Nodes : chain[n] \ chain'[n] \subseteq scan[n].list]_vars

\* A scan ends and gives its lock back, unless an RPC fails or a block of the own
\* chain does not verify.
ScanEnds ==
  \A n \in Scanners : scan[n].stage # "idle" ~> (scan[n].stage = "idle" \/ faults # 0)

\* API.md of /sys/syncblocked: it makes "the local blockchain syncing with the
\* MAJOR node status".  A scan that goes through to its end with success leaves
\* the last block of the majority on the chain.
SyncsWithMajority ==
  [][\A n \in Nodes : scan[n].stage = "delete" /\ scan'[n].stage = "idle" =>
       scan[n].target \in chain'[n]]_vars
=============================================================================
