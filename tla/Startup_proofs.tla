-------------------------- MODULE Startup_proofs --------------------------
(***************************************************************************)
(* Theorems about Startup, for any number of nodes, signers and crashes.   *)
(***************************************************************************)
EXTENDS Startup, FiniteSetTheorems, TLAPS

(***************************************************************************)
(* The inductive invariant.                                                *)
(***************************************************************************)
MadeFinite == IsFiniteSet(Made)

\* A node asks for the heights while it creates a genesis block, and only then.
AskingOK ==
  \A n \in Nodes : round[n].heights =>
    /\ pc[n] \in {"genesis", "open"}
    /\ round[n].yes => Made # {}

\* A creator that has been told of no blocks, by nodes that know, has still to ask
\* those that have some, as long as no declaration keeps it from going on.
Unaware(n) == round[n].heights /\ round[n].sure /\ ~round[n].yes
StillToAsk ==
  ~live => \A n \in Nodes : Unaware(n) =>
             \A m \in Nodes : genesis[m] # {} => m \in round[n].left

\* What a node has posted is in its pool or has left it with a block; before it is
\* wired its pool is empty.
Posted(n, k) == <<n, k, starts[n]>> \in pool[n] \union blocked[n]
PostedOK ==
  \A n \in Nodes :
    /\ pc[n] \in {"key", "crt", "cache", "genesis", "open"} => Posted(n, "key")
    /\ pc[n] \in {"crt", "cache", "genesis", "open"} => Posted(n, "crt")
    /\ pc[n] \in {"off", "listen"} => pool[n] = {}
    /\ pc[n] # "off" => starts[n] # 0

IInv ==
  /\ TypeOK
  /\ MadeFinite
  /\ AskingOK
  /\ StillToAsk
  /\ PostedOK
  /\ OneGenesis

-----------------------------------------------------------------------------
(* What the operators return *)

LEMMA Constants ==
  /\ IsFiniteSet(Nodes) /\ Cardinality(Nodes) \in Nat
  /\ Signers \in Nat /\ Signers >= 1 /\ Signers <= Cardinality(Nodes)
  /\ MaxStarts \in Nat /\ MaxGenesis \in Nat /\ MaxCrashes \in Nat
BY ConstantsOK, FS_CardinalityType

LEMMA KindsAre ==
  /\ "key" \in Kinds /\ "crt" \in Kinds
  /\ \A k \in Kinds : k = "key" \/ k = "crt"
  /\ \A k \in Kinds : k \in Stages /\ k # "off" /\ k # "listen"
  /\ {"off", "listen", "ping", "cache", "genesis", "open"} \subseteq Stages
BY DEF Kinds, Stages

\* While fewer than MaxStarts starts have been made, no node has made them all.
LEMMA StartLeft ==
  ASSUME TypeOK, NEW n \in Nodes, Cardinality(Started) < MaxStarts
  PROVE  starts[n] + 1 \in 0 .. MaxStarts
<1>1. starts[n] \in 0 .. MaxStarts /\ MaxStarts \in Nat
  BY Constants DEF TypeOK
<1>2. starts[n] # MaxStarts
  <2> SUFFICES ASSUME starts[n] = MaxStarts PROVE FALSE
    OBVIOUS
  <2> DEFINE f == [i \in 1 .. MaxStarts |-> <<n, i>>]
  <2>1. f \in [1 .. MaxStarts -> Started]
    BY <1>1 DEF Started
  <2>2. \A i, j \in 1 .. MaxStarts : f[i] = f[j] => i = j
    OBVIOUS
  <2>3. f \in Injection(1 .. MaxStarts, Started)
    BY <2>1, <2>2 DEF Injection, IsInjective
  <2>4. IsFiniteSet(1 .. MaxStarts) /\ Cardinality(1 .. MaxStarts) = MaxStarts
    BY <1>1, FS_Interval
  <2>5. IsFiniteSet(Nodes \X (1 .. MaxStarts))
    BY <2>4, Constants, FS_Product
  <2>6. IsFiniteSet(Started)
    BY <2>5, FS_Subset DEF Started
  <2>7. Cardinality(Started) \in Nat
    BY <2>6, FS_CardinalityType
  <2> HIDE DEF f
  <2>8. MaxStarts <= Cardinality(Started)
    BY <2>3, <2>4, <2>6, FS_Injection
  <2> QED
    BY <1>1, <2>7, <2>8
<1> QED
  BY <1>1, <1>2

\* Those who sign, and the last of them, who stores the block
LEMMA TripParts ==
  ASSUME NEW n \in Nodes, NEW s \in Trips(n)
  PROVE  /\ All(s) \subseteq Nodes /\ s[Signers] \in Nodes
         /\ Signable(s) => s[Signers] \in Storers(s)
<1>1. s \in [1 .. Signers -> Nodes] /\ Signers \in 1 .. Signers
  BY Constants DEF Trips, AllTrips
<1> QED
  BY <1>1 DEF All, Signable, Storers

\* If as many nodes sign as there are, all do.
LEMMA AllSign ==
  ASSUME Signers = Cardinality(Nodes), NEW n \in Nodes, NEW s \in Trips(n)
  PROVE  All(s) = Nodes
<1>1. s \in Injection(1 .. Signers, Nodes)
  BY DEF Trips, AllTrips, Injection
<1>2. Cardinality(1 .. Signers) = Signers
  BY Constants, FS_Interval
<1>3. s \in Surjection(1 .. Signers, Nodes)
  BY <1>1, <1>2, Constants, FS_Injection
<1>4. s \in [1 .. Signers -> Nodes] /\ \A m \in Nodes : \E i \in 1 .. Signers : s[i] = m
  BY <1>3 DEF Surjection
<1> QED
  BY <1>4 DEF All

\* The end of a process
LEMMA EndStep ==
  ASSUME TypeOK, NEW n \in Nodes, NEW c \in Codes, End(n, c)
  PROVE  /\ pc' \in [Nodes -> Stages] /\ round' \in [Nodes -> Round]
         /\ pool' \in [Nodes -> SUBSET Txs] /\ keys' \in [Nodes -> SUBSET Nodes]
         /\ exit' \in [Nodes -> Codes]
         /\ pc'[n] = "off" /\ round'[n] = NoRound /\ pool'[n] = {} /\ exit'[n] = c
         /\ \A m \in Nodes : m # n => /\ pc'[m] = pc[m] /\ round'[m] = round[m]
                                      /\ pool'[m] = pool[m] /\ keys'[m] = keys[m]
<1>1. NoRound \in Round
  BY DEF NoRound, Round
<1> QED
  BY <1>1, KindsAre DEF End, TypeOK

\* The steps of the creation of a block
LEMMA StoreStep ==
  ASSUME TypeOK, NEW n \in Nodes, NEW s \in Trips(n), NEW txs \in SUBSET Txs, Store(s, txs)
  PROVE  /\ keys' \in [Nodes -> SUBSET Nodes] /\ pool' \in [Nodes -> SUBSET Txs]
         /\ blocked' \in [Nodes -> SUBSET Txs]
         /\ \A m \in Nodes : pool[m] \union blocked[m] \subseteq pool'[m] \union blocked'[m]
         /\ \A m \in Nodes : blocked[m] \subseteq blocked'[m] /\ pool'[m] \subseteq pool[m]
         /\ \A m \in Nodes : keys[m] \subseteq keys'[m]
<1>1. \A m \in Nodes : pool[m] \subseteq Txs /\ blocked[m] \subseteq Txs /\ keys[m] \subseteq Nodes
  BY DEF TypeOK
<1>2. \A m \in Nodes : Pooled(m) \subseteq Nodes
  BY <1>1 DEF Pooled, Txs
<1>3. \A m \in Nodes : Learned(m, All(s)) \subseteq Nodes /\ keys[m] \subseteq Learned(m, All(s))
  BY <1>1, <1>2 DEF Learned
<1>4. keys' \in [Nodes -> SUBSET Nodes] /\ \A m \in Nodes : keys[m] \subseteq keys'[m]
  BY <1>1, <1>3 DEF Store
<1>5. pool' \in [Nodes -> SUBSET Txs] /\ blocked' \in [Nodes -> SUBSET Txs]
  BY <1>1 DEF Store
<1>6. /\ \A m \in Nodes : pool[m] \union blocked[m] \subseteq pool'[m] \union blocked'[m]
      /\ \A m \in Nodes : blocked[m] \subseteq blocked'[m] /\ pool'[m] \subseteq pool[m]
  BY DEF Store
<1> QED
  BY <1>4, <1>5, <1>6

\* The steps that end a process
Ending(n) ==
  \/ (\E m \in Nodes : Throw(n, m)) \/ FailDelivery(n) \/ FailCache(n)
  \/ FailGenesis(n) \/ ThrowGenesis(n) \/ Crash(n)

LEMMA EndingStep ==
  ASSUME TypeOK, NEW n \in Nodes, Ending(n)
  PROVE  /\ \E c \in Codes : End(n, c)
         /\ UNCHANGED <<genesis, blocked, live, starts>>
         /\ crashes' \in 0 .. MaxCrashes
<1>1. /\ \E c \in Codes : End(n, c)
      /\ UNCHANGED <<genesis, blocked, live, starts>>
  BY DEF Ending, Throw, FailDelivery, FailCache, FailGenesis, ThrowGenesis, Crash, Codes
<1>2. CASE Crash(n)
  <2>1. crashes' \in 0 .. MaxCrashes
    BY <1>2, Constants DEF Crash, TypeOK
  <2> QED
    BY <1>1, <2>1
<1>3. CASE ~Crash(n)
  <2>1. crashes' = crashes
    BY <1>3 DEF Ending, Throw, FailDelivery, FailCache, FailGenesis, ThrowGenesis
  <2> QED
    BY <1>1, <2>1 DEF TypeOK
<1> QED
  BY <1>2, <1>3

LEMMA RoundParts ==
  ASSUME TypeOK, NEW n \in Nodes
  PROVE  /\ \A b \in BOOLEAN :
              /\ NewRound(n, b) \in Round /\ n \notin NewRound(n, b).left
              /\ NewRound(n, b).heights = b /\ ~NewRound(n, b).yes
              /\ NewRound(n, b).left = Nodes \ {n}
         /\ \A m \in Nodes :
              /\ Answered(n, m) \in Round /\ n \notin Answered(n, m).left
              /\ Answered(n, m).left = round[n].left \ {m}
              /\ Answered(n, m).yes = round[n].yes /\ Answered(n, m).sure = round[n].sure
              /\ Answered(n, m).heights = round[n].heights
         /\ NoRound \in Round /\ n \notin NoRound.left /\ ~NoRound.heights
<1>1. round[n] \in Round /\ n \notin round[n].left
  BY DEF TypeOK
<1>2. \A b \in BOOLEAN :
        /\ NewRound(n, b) \in Round /\ n \notin NewRound(n, b).left
        /\ NewRound(n, b).heights = b /\ ~NewRound(n, b).yes
        /\ NewRound(n, b).left = Nodes \ {n}
  BY DEF NewRound, Round, Peers
<1>3. \A m \in Nodes :
        /\ Answered(n, m) \in Round /\ n \notin Answered(n, m).left
        /\ Answered(n, m).left = round[n].left \ {m}
        /\ Answered(n, m).yes = round[n].yes /\ Answered(n, m).sure = round[n].sure
        /\ Answered(n, m).heights = round[n].heights
  BY <1>1 DEF Answered, Round
<1>4. NoRound \in Round /\ n \notin NoRound.left /\ ~NoRound.heights
  BY DEF NoRound, Round
<1> QED
  BY <1>2, <1>3, <1>4

LEMMA InitIInv == Init => IInv
<1> SUFFICES ASSUME Init PROVE IInv
  OBVIOUS
<1> USE DEF Init
<1>1. NoRound \in Round /\ NoRound.left = {} /\ ~NoRound.heights
  BY DEF NoRound, Round
<1>2. 0 \in 0 .. MaxStarts /\ 0 \in 0 .. MaxCrashes /\ 0 \in Codes
  BY Constants DEF Codes
<1>3. /\ pc \in [Nodes -> Stages]
      /\ round \in [Nodes -> Round] /\ \A n \in Nodes : n \notin round[n].left
  BY <1>1, KindsAre
<1>4. TypeOK
  BY <1>2, <1>3 DEF TypeOK
<1>5. Made = {}
  BY DEF Made
<1>6. MadeFinite /\ OneGenesis
  BY <1>5, FS_EmptySet DEF MadeFinite, OneGenesis
<1>7. AskingOK /\ StillToAsk /\ PostedOK
  BY <1>1 DEF AskingOK, StillToAsk, Unaware, PostedOK
<1> QED
  BY <1>4, <1>6, <1>7 DEF IInv

LEMMA CreateStep ==
  ASSUME TypeOK, NEW n \in Nodes, CreateGenesis(n), MadeFinite
  PROVE  \E b \in Block, s \in Trips(n) :
           /\ b.sure = round[n].sure
           /\ Asked(n) /\ ~round[n].yes /\ ~live /\ live'
           /\ s[Signers] \in Nodes /\ s[Signers] \in Storers(s)
           /\ genesis' = [m \in Nodes |-> IF m \in Storers(s) THEN genesis[m] \union {b}
                                          ELSE genesis[m]]
           /\ Made' = Made \union {b}
           /\ Store(s, {})
           /\ \/ pc' = Opened(n) /\ round' = NotAsking(n)
              \/ UNCHANGED <<pc, round>>
<1>1. Cardinality(Made) \in Nat
  BY FS_CardinalityType DEF MadeFinite
<1> DEFINE b == [by |-> n, no |-> Cardinality(Made) + 1, sure |-> round[n].sure]
<1>2. b \in Block /\ b.sure = round[n].sure
  BY <1>1, Constants DEF CreateGenesis, Block, TypeOK, Round
<1> HIDE DEF b
<1>3. PICK s \in Trips(n) :
        /\ Signable(s)
        /\ genesis' = [m \in Nodes |-> IF m \in Storers(s) THEN genesis[m] \union {b}
                                       ELSE genesis[m]]
        /\ Store(s, {})
        /\ IF n \in Storers(s)
           THEN pc' = Opened(n) /\ round' = NotAsking(n)
           ELSE UNCHANGED <<pc, round>>
  BY DEF CreateGenesis, b
<1>4. s[Signers] \in Nodes /\ s[Signers] \in Storers(s)
  BY <1>3, TripParts
<1>5. Made' = Made \union {b}
  <2>1. \A m \in Nodes : genesis[m] \subseteq genesis'[m]
                         /\ genesis'[m] \subseteq genesis[m] \union {b}
    BY <1>3
  <2>2. b \in genesis'[s[Signers]]
    BY <1>3, <1>4
  <2> QED
    BY <1>4, <2>1, <2>2 DEF Made
<1> QED
  BY <1>2, <1>3, <1>4, <1>5 DEF CreateGenesis

LEMMA TypeStep ==
  ASSUME IInv, [Next]_vars
  PROVE  TypeOK'
<1> USE DEF IInv
<1>1. ASSUME NEW n \in Nodes, Listen(n)
      PROVE  TypeOK'
  <2>1. starts[n] + 1 \in 0 .. MaxStarts
    BY <1>1, StartLeft DEF Listen
  <2> QED
    BY <1>1, <2>1, KindsAre DEF Listen, TypeOK, Codes
<1>2. ASSUME NEW n \in Nodes, Wire(n) \/ EndDelivery(n)
      PROVE  TypeOK'
  BY <1>2, KindsAre DEF Wire, EndDelivery, TypeOK
<1>3. ASSUME NEW n \in Nodes, Ending(n)
      PROVE  TypeOK'
  <2>1. PICK c \in Codes : End(n, c)
    BY <1>3, EndingStep
  <2>2. /\ UNCHANGED <<genesis, blocked, live, starts>> /\ crashes' \in 0 .. MaxCrashes
    BY <1>3, EndingStep
  <2>3. /\ pc' \in [Nodes -> Stages] /\ round' \in [Nodes -> Round]
        /\ pool' \in [Nodes -> SUBSET Txs] /\ keys' \in [Nodes -> SUBSET Nodes]
        /\ exit' \in [Nodes -> Codes]
    BY <2>1, EndStep
  <2>4. \A m \in Nodes : round'[m] = round[m] \/ round'[m] = NoRound
    BY <2>1, EndStep
  <2>5. \A m \in Nodes : m \notin round'[m].left
    BY <2>4 DEF TypeOK, NoRound
  <2> QED
    BY <2>2, <2>3, <2>5 DEF TypeOK
<1>4. ASSUME NEW n \in Nodes, NEW k \in Kinds, Post(n, k), starts[n] # 0
      PROVE  TypeOK'
  <2>1. NewRound(n, FALSE) \in Round /\ n \notin NewRound(n, FALSE).left
    BY RoundParts
  <2>2. <<n, k, starts[n]>> \in Txs
    BY <1>4, Constants DEF TypeOK, Txs
  <2>3. pc' \in [Nodes -> Stages] /\ pool' \in [Nodes -> SUBSET Txs]
    BY <1>4, <2>2, KindsAre DEF Post, TypeOK
  <2>4. round' \in [Nodes -> Round] /\ \A m \in Nodes : m \notin round'[m].left
    BY <1>4, <2>1 DEF Post, TypeOK
  <2> QED
    BY <1>4, <2>3, <2>4 DEF Post, TypeOK
<1>5. ASSUME NEW n \in Nodes, PostKey(n) \/ PostCrt(n)
      PROVE  TypeOK'
  <2>1. starts[n] # 0
    BY <1>5, KindsAre DEF PostKey, PostCrt, PostedOK
  <2> QED
    BY <1>4, <1>5, <2>1, KindsAre DEF PostKey, PostCrt
<1>6. ASSUME NEW n \in Nodes, NEW m \in Nodes, Deliver(n, m)
      PROVE  TypeOK'
  <2>1. /\ Answered(n, m) \in Round /\ n \notin Answered(n, m).left
        /\ [Answered(n, m) EXCEPT !.yes = TRUE] \in Round
        /\ n \notin [Answered(n, m) EXCEPT !.yes = TRUE].left
    <3>1. Answered(n, m) \in Round /\ n \notin Answered(n, m).left
      BY RoundParts
    <3> QED
      BY <3>1 DEF Round
  <2>2. <<n, pc[n], starts[n]>> \in Txs
    <3>1. starts[n] # 0
      BY <1>6, KindsAre DEF Deliver, PostedOK
    <3> QED
      BY <1>6, <3>1, Constants DEF Deliver, TypeOK, Txs
  <2>3. pool' \in [Nodes -> SUBSET Txs]
    BY <1>6, <2>2, SMTT(30) DEF Deliver, TypeOK
  <2>4. \E o \in Round : round' = [round EXCEPT ![n] = o] /\ n \notin o.left
    BY <1>6, <2>1 DEF Deliver
  <2>5. round' \in [Nodes -> Round] /\ \A q \in Nodes : q \notin round'[q].left
    BY <2>4 DEF TypeOK
  <2> QED
    BY <1>6, <2>3, <2>5 DEF Deliver, TypeOK
<1>7. \A n \in Nodes : Pooled(n) \subseteq Nodes
  BY DEF Pooled, TypeOK, Txs
<1>8. ASSUME NEW n \in Nodes, Cache(n) \/ LearnInVain(n)
      PROVE  TypeOK'
  BY <1>7, <1>8, KindsAre DEF Cache, LearnInVain, TypeOK
<1>9. ASSUME NEW n \in Nodes, AppendKeys(n)
      PROVE  TypeOK'
  <2>1. PICK s \in Trips(n) : Store(s, pool[n])
    BY <1>9 DEF AppendKeys
  <2>2. pool[n] \subseteq Txs
    BY DEF TypeOK
  <2> QED
    BY <1>9, <2>1, <2>2, StoreStep DEF AppendKeys, TypeOK
<1>10. ASSUME NEW n \in Nodes, BeginGenesis(n)
       PROVE  TypeOK'
  <2>1. NewRound(n, TRUE) \in Round /\ n \notin NewRound(n, TRUE).left
    BY RoundParts
  <2> QED
    BY <1>10, <2>1 DEF BeginGenesis, TypeOK
<1>11. ASSUME NEW n \in Nodes, NEW m \in Nodes, AskHeight(n, m)
       PROVE  TypeOK'
  <2> DEFINE o == IF Wired(m) THEN [Answered(n, m) EXCEPT !.yes = @ \/ HasBlocks(m)]
                  ELSE [Answered(n, m) EXCEPT !.sure = FALSE]
  <2>1. Answered(n, m) \in Round /\ n \notin Answered(n, m).left
    BY RoundParts
  <2>2. o \in Round /\ n \notin o.left
    BY <2>1 DEF Round, HasBlocks
  <2>3. round' = [round EXCEPT ![n] = o]
    BY <1>11 DEF AskHeight
  <2> HIDE DEF o
  <2>4. round' \in [Nodes -> Round] /\ \A q \in Nodes : q \notin round'[q].left
    BY <2>2, <2>3 DEF TypeOK
  <2> QED
    BY <1>11, <2>4 DEF AskHeight, TypeOK
<1>12. \A n \in Nodes : /\ Opened(n) \in [Nodes -> Stages] /\ NotAsking(n) \in [Nodes -> Round]
                        /\ \A m \in Nodes : m \notin NotAsking(n)[m].left
  BY KindsAre, RoundParts DEF TypeOK, Opened, NotAsking
<1>13. ASSUME NEW n \in Nodes, SkipGenesis(n) \/ RefuseGenesis(n)
       PROVE  TypeOK'
  BY <1>12, <1>13 DEF SkipGenesis, RefuseGenesis, TypeOK
<1>14. ASSUME NEW n \in Nodes, CreateGenesis(n)
       PROVE  TypeOK'
  <2>1. PICK b \in Block, s \in Trips(n) :
           /\ live'
           /\ genesis' = [m \in Nodes |-> IF m \in Storers(s) THEN genesis[m] \union {b}
                                          ELSE genesis[m]]
           /\ Store(s, {})
           /\ \/ pc' = Opened(n) /\ round' = NotAsking(n)
              \/ UNCHANGED <<pc, round>>
    BY <1>14, CreateStep
  <2>2. genesis' \in [Nodes -> SUBSET Block]
    BY <2>1 DEF TypeOK
  <2>3. /\ keys' \in [Nodes -> SUBSET Nodes] /\ pool' \in [Nodes -> SUBSET Txs]
        /\ blocked' \in [Nodes -> SUBSET Txs]
    BY <2>1, StoreStep
  <2>4. /\ pc' \in [Nodes -> Stages] /\ round' \in [Nodes -> Round]
        /\ \A m \in Nodes : m \notin round'[m].left
    BY <1>12, <2>1 DEF TypeOK
  <2>5. live' \in BOOLEAN /\ UNCHANGED <<starts, exit, crashes>>
    BY <1>14 DEF CreateGenesis
  <2> QED
    BY <2>2, <2>3, <2>4, <2>5 DEF TypeOK
<1>15. CASE Expire
  <2>1. \A n \in Nodes : round[n] \in Round /\ n \notin round[n].left
    BY DEF TypeOK
  <2>2. \A o \in Round : /\ [o EXCEPT !.sure = FALSE] \in Round
                         /\ [o EXCEPT !.sure = FALSE].left = o.left
    BY DEF Round
  <2>3. round' \in [Nodes -> Round] /\ \A n \in Nodes : n \notin round'[n].left
    <3> DEFINE unsure(o) == [o EXCEPT !.sure = FALSE]
    <3>1. round' = [n \in Nodes |-> IF round[n].heights THEN unsure(round[n]) ELSE round[n]]
      BY <1>15 DEF Expire
    <3>2. \A o \in Round : unsure(o) \in Round /\ unsure(o).left = o.left
      BY <2>2
    <3> HIDE DEF unsure
    <3> QED
      BY <2>1, <3>1, <3>2
  <2> QED
    BY <1>15, <2>3 DEF Expire, TypeOK
<1>16. CASE UNCHANGED vars
  BY <1>16 DEF vars, TypeOK
<1> QED
  BY <1>1, <1>2, <1>3, <1>5, <1>6, <1>8, <1>9, <1>10, <1>11, <1>13, <1>14, <1>15, <1>16
     DEF Next, Ending

LEMMA MadeSame == genesis' = genesis => Made' = Made
BY DEF Made

LEMMA AskingStep ==
  ASSUME IInv, TypeOK', [Next]_vars
  PROVE  AskingOK'
<1> USE DEF IInv
<1>1. \A n \in Nodes : pc[n] \notin {"genesis", "open"} => ~round[n].heights
  BY DEF AskingOK
<1>2. ASSUME NEW n \in Nodes, Listen(n) \/ Wire(n) \/ EndDelivery(n) \/ Cache(n)
      PROVE  AskingOK'
  <2>1. round' = round /\ Made' = Made /\ ~round[n].heights
        /\ \A q \in Nodes : q # n => pc'[q] = pc[q]
    BY <1>1, <1>2, MadeSame DEF Listen, Wire, EndDelivery, Cache, TypeOK
  <2> QED
    BY <2>1 DEF AskingOK
<1>3. ASSUME NEW n \in Nodes, Ending(n)
      PROVE  AskingOK'
  <2>1. PICK c \in Codes : End(n, c)
    BY <1>3, EndingStep
  <2>2. ~round'[n].heights /\ \A q \in Nodes : q # n => pc'[q] = pc[q] /\ round'[q] = round[q]
    BY <2>1, EndStep, RoundParts
  <2>3. Made' = Made
    BY <1>3, EndingStep, MadeSame
  <2> QED
    BY <2>2, <2>3 DEF AskingOK
<1>4. ASSUME NEW n \in Nodes, PostKey(n) \/ PostCrt(n)
      PROVE  AskingOK'
  <2>1. PICK k \in Kinds : Post(n, k)
    BY <1>4, KindsAre DEF PostKey, PostCrt
  <2>2. round'[n] = NewRound(n, FALSE) /\ Made' = Made
        /\ \A q \in Nodes : q # n => pc'[q] = pc[q] /\ round'[q] = round[q]
    BY <2>1, MadeSame DEF Post, TypeOK
  <2>3. ~round'[n].heights
    BY <2>2, RoundParts, ZenonT(60)
  <2> QED
    BY <2>2, <2>3 DEF AskingOK
<1>5. ASSUME NEW n \in Nodes, NEW m \in Nodes, Deliver(n, m)
      PROVE  AskingOK'
  <2>1. ~round[n].heights
    BY <1>1, <1>5 DEF Deliver, Kinds
  <2>2. Answered(n, m) \in Round /\ ~Answered(n, m).heights
    BY <2>1, RoundParts
  <2>3. ~[Answered(n, m) EXCEPT !.yes = TRUE].heights
    BY <2>2 DEF Round
  <2>4. pc' = pc /\ Made' = Made /\ ~round'[n].heights
        /\ \A q \in Nodes : q # n => round'[q] = round[q]
    BY <1>5, <2>2, <2>3, MadeSame DEF Deliver, TypeOK
  <2> QED
    BY <2>4 DEF AskingOK
<1>6. ASSUME NEW n \in Nodes, AppendKeys(n) \/ LearnInVain(n)
      PROVE  AskingOK'
  <2>1. pc' = pc /\ round' = round /\ Made' = Made
    BY <1>6, MadeSame DEF AppendKeys, LearnInVain
  <2> QED
    BY <2>1 DEF AskingOK
<1>7. ASSUME NEW n \in Nodes, BeginGenesis(n)
      PROVE  AskingOK'
  <2>1. ~NewRound(n, TRUE).yes
    BY RoundParts
  <2>2. pc' = pc /\ Made' = Made /\ pc[n] \in {"genesis", "open"} /\ ~round'[n].yes
        /\ \A q \in Nodes : q # n => round'[q] = round[q]
    BY <1>7, <2>1, MadeSame DEF BeginGenesis, TypeOK
  <2> QED
    BY <2>2 DEF AskingOK
<1>8. ASSUME NEW n \in Nodes, NEW m \in Nodes, AskHeight(n, m)
      PROVE  AskingOK'
  <2> DEFINE o == IF Wired(m) THEN [Answered(n, m) EXCEPT !.yes = @ \/ HasBlocks(m)]
                  ELSE [Answered(n, m) EXCEPT !.sure = FALSE]
  <2>1. Answered(n, m) \in Round /\ Answered(n, m).yes = round[n].yes
    BY RoundParts
  <2>2. o.yes => round[n].yes \/ genesis[m] # {}
    BY <2>1 DEF Round, HasBlocks
  <2>3. round' = [round EXCEPT ![n] = o]
    BY <1>8 DEF AskHeight
  <2> HIDE DEF o
  <2>4. pc' = pc /\ Made' = Made /\ round[n].heights
    BY <1>8, MadeSame DEF AskHeight
  <2>5. round'[n].yes => Made' # {}
    <3>1. round'[n] = o
      BY <2>3 DEF TypeOK
    <3>2. genesis[m] # {} => Made # {}
      BY DEF Made
    <3>3. round[n].yes => Made # {}
      BY <2>4 DEF AskingOK
    <3> QED
      BY <2>2, <2>4, <3>1, <3>2, <3>3
  <2>6. \A q \in Nodes : q # n => round'[q] = round[q]
    BY <2>3 DEF TypeOK
  <2> QED
    BY <2>4, <2>5, <2>6 DEF AskingOK
<1>9. ASSUME NEW n \in Nodes, round' = NotAsking(n), pc' = pc \/ pc' = Opened(n),
             Made = {} \/ Made' # {}
      PROVE  AskingOK'
  <2>1. ~round'[n].heights /\ \A q \in Nodes : q # n => pc'[q] = pc[q] /\ round'[q] = round[q]
    BY <1>9, RoundParts DEF NotAsking, Opened, TypeOK
  <2> QED
    BY <1>9, <2>1 DEF AskingOK
<1>10. ASSUME NEW n \in Nodes, SkipGenesis(n) \/ RefuseGenesis(n)
       PROVE  AskingOK'
  <2>1. Made' = Made
    BY <1>10, MadeSame DEF SkipGenesis, RefuseGenesis
  <2> QED
    BY <1>9, <1>10, <2>1 DEF SkipGenesis, RefuseGenesis
<1>11. ASSUME NEW n \in Nodes, CreateGenesis(n)
       PROVE  AskingOK'
  <2>1. PICK b \in Block :
          /\ Made' = Made \union {b}
          /\ \/ pc' = Opened(n) /\ round' = NotAsking(n)
             \/ UNCHANGED <<pc, round>>
    BY <1>11, CreateStep
  <2>2. Made' # {}
    BY <2>1
  <2>3. CASE UNCHANGED <<pc, round>>
    BY <2>2, <2>3 DEF AskingOK
  <2> QED
    BY <1>9, <2>1, <2>2, <2>3
<1>12. CASE Expire
  <2>1. \A n \in Nodes : round[n] \in Round
    BY DEF TypeOK
  <2>2. \A n \in Nodes : /\ [round[n] EXCEPT !.sure = FALSE].heights <=> round[n].heights
                         /\ [round[n] EXCEPT !.sure = FALSE].yes <=> round[n].yes
    BY <2>1 DEF Round
  <2>3. \A n \in Nodes : (round'[n].heights <=> round[n].heights)
                         /\ (round'[n].yes <=> round[n].yes)
    BY <1>12, <2>2 DEF Expire
  <2>4. pc' = pc /\ Made' = Made
    BY <1>12, MadeSame DEF Expire
  <2> QED
    BY <2>3, <2>4 DEF AskingOK
<1>13. CASE UNCHANGED vars
  BY <1>13, MadeSame DEF vars, AskingOK
<1> QED
  BY <1>2, <1>3, <1>4, <1>5, <1>6, <1>7, <1>8, <1>10, <1>11, <1>12, <1>13 DEF Next, Ending

\* Nobody new is asked: what the other steps leave as it was
LEMMA StillToAskKept ==
  ASSUME StillToAsk, UNCHANGED <<genesis, live>>, NEW n \in Nodes, ~Unaware(n)',
         \A q \in Nodes : q # n => round'[q] = round[q]
  PROVE  StillToAsk'
BY DEF StillToAsk, Unaware

LEMMA StillToAskStep ==
  ASSUME IInv, TypeOK', [Next]_vars
  PROVE  StillToAsk'
<1> USE DEF IInv
<1>2. ASSUME NEW n \in Nodes, Listen(n) \/ Wire(n) \/ EndDelivery(n) \/ Cache(n)
                              \/ AppendKeys(n) \/ LearnInVain(n)
      PROVE  StillToAsk'
  <2>1. round' = round /\ genesis' = genesis /\ live' = live
    BY <1>2 DEF Listen, Wire, EndDelivery, Cache, AppendKeys, LearnInVain
  <2> QED
    BY <2>1 DEF StillToAsk, Unaware
<1>3. ASSUME NEW n \in Nodes, Ending(n)
      PROVE  StillToAsk'
  <2>1. PICK c \in Codes : End(n, c)
    BY <1>3, EndingStep
  <2>2. ~round'[n].heights /\ \A q \in Nodes : q # n => round'[q] = round[q]
    BY <2>1, EndStep, RoundParts
  <2>3. genesis' = genesis /\ live' = live
    BY <1>3, EndingStep
  <2> QED
    BY <2>2, <2>3, StillToAskKept DEF Unaware
<1>4. ASSUME NEW n \in Nodes, PostKey(n) \/ PostCrt(n)
      PROVE  StillToAsk'
  <2>1. PICK k \in Kinds : Post(n, k)
    BY <1>4, KindsAre DEF PostKey, PostCrt
  <2>2. round'[n] = NewRound(n, FALSE) /\ genesis' = genesis /\ live' = live
        /\ \A q \in Nodes : q # n => round'[q] = round[q]
    BY <2>1 DEF Post, TypeOK
  <2>3. ~round'[n].heights
    BY <2>2, RoundParts, ZenonT(60)
  <2> QED
    BY <2>2, <2>3, StillToAskKept DEF Unaware
<1>5. ASSUME NEW n \in Nodes, NEW m \in Nodes, Deliver(n, m)
      PROVE  StillToAsk'
  <2>1. ~round[n].heights
    BY <1>5 DEF Deliver, Kinds, AskingOK
  <2>2. Answered(n, m) \in Round /\ ~Answered(n, m).heights
    BY <2>1, RoundParts
  <2>3. ~[Answered(n, m) EXCEPT !.yes = TRUE].heights
    BY <2>2 DEF Round
  <2>4. genesis' = genesis /\ live' = live /\ ~round'[n].heights
        /\ \A q \in Nodes : q # n => round'[q] = round[q]
    BY <1>5, <2>2, <2>3 DEF Deliver, TypeOK
  <2> QED
    BY <2>4, StillToAskKept DEF Unaware
<1>7. ASSUME NEW n \in Nodes, BeginGenesis(n)
      PROVE  StillToAsk'
  <2>1. NewRound(n, TRUE).left = Nodes \ {n}
    BY RoundParts
  <2>2. genesis' = genesis /\ live' = live /\ genesis[n] = {} /\ round'[n].left = Nodes \ {n}
        /\ \A q \in Nodes : q # n => round'[q] = round[q]
    BY <1>7, <2>1 DEF BeginGenesis, TypeOK
  <2> QED
    BY <2>2 DEF StillToAsk, Unaware
<1>8. ASSUME NEW n \in Nodes, NEW m \in Nodes, AskHeight(n, m)
      PROVE  StillToAsk'
  <2> DEFINE o == IF Wired(m) THEN [Answered(n, m) EXCEPT !.yes = @ \/ HasBlocks(m)]
                  ELSE [Answered(n, m) EXCEPT !.sure = FALSE]
  <2>1. /\ Answered(n, m) \in Round /\ Answered(n, m).left = round[n].left \ {m}
        /\ Answered(n, m).yes = round[n].yes /\ Answered(n, m).sure = round[n].sure
    BY RoundParts
  <2>2. o.sure /\ ~o.yes => round[n].sure /\ ~round[n].yes /\ genesis[m] = {}
    BY <2>1 DEF Round, HasBlocks
  <2>3. o.left = round[n].left \ {m}
    BY <2>1 DEF Round
  <2>4. round' = [round EXCEPT ![n] = o]
    BY <1>8 DEF AskHeight
  <2> HIDE DEF o
  <2>5. round'[n] = o /\ \A q \in Nodes : q # n => round'[q] = round[q]
    BY <2>4 DEF TypeOK
  <2>6. genesis' = genesis /\ live' = live /\ round[n].heights
    BY <1>8 DEF AskHeight
  <2>7. ~live /\ Unaware(n)' => \A q \in Nodes : genesis[q] # {} => q \in round'[n].left
    BY <2>2, <2>3, <2>5, <2>6 DEF StillToAsk, Unaware
  <2> QED
    BY <2>5, <2>6, <2>7 DEF StillToAsk, Unaware
<1>10. ASSUME NEW n \in Nodes, SkipGenesis(n) \/ RefuseGenesis(n)
       PROVE  StillToAsk'
  <2>1. genesis' = genesis /\ live' = live /\ round' = NotAsking(n)
    BY <1>10 DEF SkipGenesis, RefuseGenesis
  <2>2. ~round'[n].heights /\ \A q \in Nodes : q # n => round'[q] = round[q]
    BY <2>1, RoundParts DEF NotAsking, TypeOK
  <2> QED
    BY <2>1, <2>2, StillToAskKept DEF Unaware
<1>11. ASSUME NEW n \in Nodes, CreateGenesis(n)
       PROVE  StillToAsk'
  BY <1>11 DEF CreateGenesis, StillToAsk
<1>12. CASE Expire
  <2>1. \A n \in Nodes : round[n] \in Round
    BY DEF TypeOK
  <2>2. \A n \in Nodes : ~[round[n] EXCEPT !.sure = FALSE].sure
    BY <2>1 DEF Round
  <2>3. \A n \in Nodes : round'[n].sure => ~round'[n].heights
    BY <1>12, <2>2 DEF Expire
  <2> QED
    BY <2>3 DEF StillToAsk, Unaware
<1>13. CASE UNCHANGED vars
  BY <1>13 DEF vars, StillToAsk, Unaware
<1> QED
  BY <1>2, <1>3, <1>4, <1>5, <1>7, <1>8, <1>10, <1>11, <1>12, <1>13 DEF Next, Ending

\* A step that takes no transaction away, and starts or ends no process
LEMMA PostedKept ==
  ASSUME PostedOK, starts' = starts,
         \A q \in Nodes :
           /\ pool[q] \union blocked[q] \subseteq pool'[q] \union blocked'[q]
           /\ \/ pool'[q] \subseteq pool[q]
              \/ pc[q] \notin {"off", "listen"}
           /\ \/ pc'[q] = pc[q]
              \/ /\ pc[q] \in {"crt", "cache", "genesis", "open"}
                 /\ pc'[q] \in {"crt", "cache", "genesis", "open"}
  PROVE  PostedOK'
<1> SUFFICES ASSUME NEW q \in Nodes
             PROVE  /\ pc'[q] \in {"key", "crt", "cache", "genesis", "open"} => Posted(q, "key")'
                    /\ pc'[q] \in {"crt", "cache", "genesis", "open"} => Posted(q, "crt")'
                    /\ pc'[q] \in {"off", "listen"} => pool'[q] = {}
                    /\ pc'[q] # "off" => starts'[q] # 0
  BY DEF PostedOK
<1>1. \A k \in {"key", "crt"} : Posted(q, k) => Posted(q, k)'
  BY DEF Posted
<1>2. CASE pc'[q] = pc[q]
  BY <1>1, <1>2 DEF PostedOK
<1>3. CASE pc'[q] # pc[q]
  BY <1>1, <1>3 DEF PostedOK
<1> QED
  BY <1>2, <1>3

LEMMA PostedStep ==
  ASSUME IInv, TypeOK', [Next]_vars
  PROVE  PostedOK'
<1> USE DEF IInv
<1>1. ASSUME NEW n \in Nodes, Listen(n)
      PROVE  PostedOK'
  <2>1. /\ pool' = pool /\ blocked' = blocked /\ pool[n] = {}
        /\ pc'[n] = "listen" /\ starts'[n] = starts[n] + 1
        /\ \A q \in Nodes : q # n => pc'[q] = pc[q] /\ starts'[q] = starts[q]
    BY <1>1 DEF Listen, PostedOK, TypeOK
  <2>2. starts'[n] # 0
    BY <2>1, Constants DEF TypeOK
  <2> QED
    BY <2>1, <2>2 DEF PostedOK, Posted
<1>2. ASSUME NEW n \in Nodes, Wire(n)
      PROVE  PostedOK'
  <2>1. /\ pool' = pool /\ blocked' = blocked /\ starts' = starts
        /\ pc[n] = "listen" /\ pc'[n] = "ping"
        /\ \A q \in Nodes : q # n => pc'[q] = pc[q]
    BY <1>2 DEF Wire, TypeOK
  <2> QED
    BY <2>1 DEF PostedOK, Posted
<1>3. ASSUME NEW n \in Nodes, Ending(n)
      PROVE  PostedOK'
  <2>1. PICK c \in Codes : End(n, c)
    BY <1>3, EndingStep
  <2>2. /\ pc'[n] = "off" /\ pool'[n] = {}
        /\ \A q \in Nodes : q # n => pc'[q] = pc[q] /\ pool'[q] = pool[q]
    BY <2>1, EndStep
  <2>3. blocked' = blocked /\ starts' = starts
    BY <1>3, EndingStep
  <2> QED
    BY <2>2, <2>3 DEF PostedOK, Posted
<1>4. ASSUME NEW n \in Nodes, PostKey(n)
      PROVE  PostedOK'
  <2>1. /\ pool'[n] = pool[n] \union {<<n, "key", starts[n]>>}
        /\ pc'[n] = "key" /\ blocked' = blocked /\ starts' = starts /\ pc[n] = "ping"
        /\ \A q \in Nodes : q # n => pc'[q] = pc[q] /\ pool'[q] = pool[q]
    BY <1>4 DEF PostKey, Post, TypeOK
  <2>2. starts[n] # 0
    BY <2>1 DEF PostedOK
  <2> QED
    BY <2>1, <2>2 DEF PostedOK, Posted
<1>5. ASSUME NEW n \in Nodes, PostCrt(n)
      PROVE  PostedOK'
  <2>1. /\ pool'[n] = pool[n] \union {<<n, "crt", starts[n]>>}
        /\ pc'[n] = "crt" /\ blocked' = blocked /\ starts' = starts /\ pc[n] = "key"
        /\ \A q \in Nodes : q # n => pc'[q] = pc[q] /\ pool'[q] = pool[q]
    BY <1>5 DEF PostCrt, Post, TypeOK
  <2>2. starts[n] # 0 /\ Posted(n, "key")
    BY <2>1 DEF PostedOK
  <2> QED
    BY <2>1, <2>2 DEF PostedOK, Posted
<1>6. ASSUME NEW n \in Nodes, NEW m \in Nodes, Deliver(n, m)
      PROVE  PostedOK'
  <2>1. \/ pool' = pool
        \/ /\ pc[m] \notin {"off", "listen"} /\ pool[m] \subseteq pool'[m]
           /\ \A q \in Nodes : q # m => pool'[q] = pool[q]
    BY <1>6 DEF Deliver, Wired, TypeOK
  <2>2. pc' = pc /\ blocked' = blocked /\ starts' = starts
    BY <1>6 DEF Deliver
  <2> QED
    BY <2>1, <2>2, PostedKept
<1>7. ASSUME NEW n \in Nodes, EndDelivery(n) \/ Cache(n)
      PROVE  PostedOK'
  <2>1. /\ pool' = pool /\ blocked' = blocked /\ starts' = starts
        /\ pc[n] \in {"crt", "cache"} /\ pc'[n] \in {"cache", "genesis", "open"}
        /\ \A q \in Nodes : q # n => pc'[q] = pc[q]
    BY <1>7 DEF EndDelivery, Cache, TypeOK
  <2> QED
    BY <2>1, PostedKept
<1>8. ASSUME NEW n \in Nodes, NEW m \in Nodes,
             LearnInVain(n) \/ BeginGenesis(n) \/ AskHeight(n, m)
      PROVE  PostedOK'
  <2>1. pc' = pc /\ pool' = pool /\ blocked' = blocked /\ starts' = starts
    BY <1>8 DEF LearnInVain, BeginGenesis, AskHeight
  <2> QED
    BY <2>1, PostedKept
<1>9. ASSUME NEW n \in Nodes, AppendKeys(n)
      PROVE  PostedOK'
  <2>1. PICK s \in Trips(n) : Store(s, pool[n])
    BY <1>9 DEF AppendKeys
  <2>2. pool[n] \subseteq Txs
    BY DEF TypeOK
  <2>3. \A q \in Nodes : /\ pool[q] \union blocked[q] \subseteq pool'[q] \union blocked'[q]
                         /\ pool'[q] \subseteq pool[q]
    BY <2>1, <2>2, StoreStep
  <2>4. pc' = pc /\ starts' = starts
    BY <1>9 DEF AppendKeys
  <2> QED
    BY <2>3, <2>4, PostedKept
<1>10. ASSUME NEW n \in Nodes, Asked(n)
       PROVE  /\ pc[n] \in {"genesis", "open"} /\ Opened(n)[n] = "open"
              /\ \A q \in Nodes : q # n => Opened(n)[q] = pc[q]
  BY <1>10 DEF Asked, AskingOK, Opened, TypeOK
<1>11. ASSUME NEW n \in Nodes, SkipGenesis(n) \/ RefuseGenesis(n)
       PROVE  PostedOK'
  <2>1. pool' = pool /\ blocked' = blocked /\ starts' = starts
    BY <1>11 DEF SkipGenesis, RefuseGenesis
  <2>2. pc' = pc \/ (Asked(n) /\ pc' = Opened(n))
    BY <1>11 DEF SkipGenesis, RefuseGenesis
  <2> QED
    BY <1>10, <2>1, <2>2, PostedKept
<1>12. ASSUME NEW n \in Nodes, CreateGenesis(n)
       PROVE  PostedOK'
  <2>1. PICK b \in Block, s \in Trips(n) :
           /\ Asked(n) /\ Store(s, {})
           /\ \/ pc' = Opened(n)
              \/ UNCHANGED <<pc, round>>
    BY <1>12, CreateStep
  <2>2. \A q \in Nodes : /\ pool[q] \union blocked[q] \subseteq pool'[q] \union blocked'[q]
                         /\ pool'[q] \subseteq pool[q]
    BY <2>1, StoreStep
  <2>3. starts' = starts
    BY <1>12 DEF CreateGenesis
  <2> QED
    BY <1>10, <2>1, <2>2, <2>3, PostedKept
<1>13. CASE Expire \/ UNCHANGED vars
  <2>1. pc' = pc /\ pool' = pool /\ blocked' = blocked /\ starts' = starts
    BY <1>13 DEF Expire, vars
  <2> QED
    BY <2>1, PostedKept
<1> QED
  BY <1>1, <1>2, <1>3, <1>4, <1>5, <1>6, <1>7, <1>8, <1>9, <1>11, <1>12, <1>13
     DEF Next, Ending

LEMMA GenesisStep ==
  ASSUME IInv, [Next]_vars
  PROVE  MadeFinite' /\ OneGenesis'
<1> USE DEF IInv
<1>1. ASSUME NEW n \in Nodes, CreateGenesis(n)
      PROVE  MadeFinite' /\ OneGenesis'
  <2>1. PICK b \in Block :
          /\ b.sure = round[n].sure
          /\ Asked(n) /\ ~round[n].yes /\ ~live
          /\ Made' = Made \union {b}
    BY <1>1, CreateStep
  <2>2. MadeFinite'
    BY <2>1, FS_AddElement DEF MadeFinite
  <2>3. b.sure => Made = {}
    <3>1. b.sure => \A m \in Nodes : genesis[m] = {}
      BY <2>1 DEF Asked, StillToAsk, Unaware
    <3> QED
      BY <3>1 DEF Made
  <2>4. OneGenesis'
    BY <2>1, <2>3 DEF OneGenesis
  <2> QED
    BY <2>2, <2>4
<1>2. CASE \A n \in Nodes : ~CreateGenesis(n)
  <2>1. (\E n \in Nodes : Ending(n)) => genesis' = genesis
    BY EndingStep
  <2>2. (\A n \in Nodes : ~Ending(n)) => genesis' = genesis
    BY <1>2, ZenonT(60)
       DEF Next, Ending, Listen, Wire, PostKey, PostCrt, Post, EndDelivery, Cache, AppendKeys,
           LearnInVain, BeginGenesis, SkipGenesis, RefuseGenesis, Deliver, AskHeight, Expire, vars
  <2>3. Made' = Made
    BY <2>1, <2>2, MadeSame
  <2> QED
    BY <2>3 DEF MadeFinite, OneGenesis
<1> QED
  BY <1>1, <1>2

LEMMA Inductive == IInv /\ [Next]_vars => IInv'
<1> SUFFICES ASSUME IInv, [Next]_vars PROVE IInv'
  OBVIOUS
<1>1. TypeOK'
  BY TypeStep
<1> QED
  BY <1>1, AskingStep, StillToAskStep, PostedStep, GenesisStep DEF IInv

-----------------------------------------------------------------------------
(* The theorems *)

\* The inductive invariant holds in every reachable state, whatever nodes start and crash.
THEOREM Invariance == Spec => []IInv
BY InitIInv, Inductive, PTL DEF Spec

\* The variables keep their types: what a node waits for is never an answer of its own,
\* and no bound of the model is exceeded.
THEOREM TypeCorrect == Spec => []TypeOK
<1>1. IInv => TypeOK
  BY DEF IInv
<1> QED
  BY <1>1, Invariance, PTL

\* There is one genesis block, however many nodes start or are called to create one at
\* once, unless a creator could not rely on the heights it had been told.
THEOREM OneGenesisBlock == Spec => []OneGenesis
<1>1. IInv => OneGenesis
  BY DEF IInv
<1> QED
  BY <1>1, Invariance, PTL

\* A process that ends, ends with one of these steps.
LEMMA EndsOnly ==
  ASSUME IInv, Next, NEW n \in Nodes, pc[n] # "off", pc'[n] = "off"
  PROVE  Ending(n)
<1> USE DEF IInv
<1>1. ASSUME NEW q \in Nodes, Ending(q)
      PROVE  q = n
  <2>1. PICK c \in Codes : End(q, c)
    BY <1>1, EndingStep
  <2> QED
    BY <2>1, EndStep
<1>2. ASSUME NEW q \in Nodes,
             \/ Listen(q) \/ Wire(q) \/ PostKey(q) \/ PostCrt(q) \/ EndDelivery(q) \/ Cache(q)
             \/ SkipGenesis(q) \/ RefuseGenesis(q)
      PROVE  FALSE
  BY <1>2 DEF TypeOK, Listen, Wire, PostKey, PostCrt, Post, EndDelivery, Cache, SkipGenesis,
              RefuseGenesis, Opened
<1>3. ASSUME NEW q \in Nodes, NEW m \in Nodes,
             \/ AppendKeys(q) \/ LearnInVain(q) \/ BeginGenesis(q)
             \/ Deliver(q, m) \/ AskHeight(q, m)
      PROVE  FALSE
  BY <1>3 DEF AppendKeys, LearnInVain, BeginGenesis, Deliver, AskHeight
<1>4. ASSUME NEW q \in Nodes, CreateGenesis(q)
      PROVE  FALSE
  <2>1. pc' = Opened(q) \/ pc' = pc
    BY <1>4 DEF CreateGenesis
  <2> QED
    BY <2>1 DEF Opened, TypeOK
<1>5. CASE Expire
  BY <1>5 DEF Expire
<1> QED
  BY <1>1, <1>2, <1>3, <1>4, <1>5 DEF Next, Ending

\* If every node's keys and certificates are in the pools of all, all can sign.
LEMMA AllCanSign ==
  ASSUME IInv, NEW n \in Nodes, NEW s \in Trips(n), \A m \in Nodes : Complete(m)
  PROVE  Signable(s)
<1>1. s \in [1 .. Signers -> Nodes] /\ Signers \in 1 .. Signers
  BY Constants DEF Trips, AllTrips
<1>2. ASSUME NEW m \in Nodes
      PROVE  /\ Refreshes(m) /\ Nodes \subseteq Pooled(m) /\ Wired(m)
  <2>1. \A k \in Kinds : \E i \in 1 .. MaxStarts : <<n, k, i>> \in pool[m]
    BY DEF Complete
  <2>2. Refreshes(m)
    BY <2>1 DEF Refreshes
  <2>3. ASSUME NEW q \in Nodes
        PROVE  q \in Pooled(m)
    <3>1. PICK i \in 1 .. MaxStarts : <<q, "key", i>> \in pool[m]
      BY KindsAre DEF Complete
    <3> QED
      BY <3>1 DEF Pooled
  <2>4. pool[m] # {}
    BY <2>1, KindsAre
  <2>5. Wired(m)
    BY <2>4 DEF IInv, PostedOK, Wired
  <2> QED
    BY <2>2, <2>3, <2>5
<1>3. \A j \in 1 .. Signers : Before(s, j) \subseteq Nodes
  <2> SUFFICES ASSUME NEW j \in 1 .. Signers, NEW i \in 1 .. j - 1
               PROVE  s[i] \in Nodes
    BY DEF Before
  <2>1. i \in 1 .. Signers
    BY Constants
  <2> QED
    BY <1>1, <2>1
<1>4. All(s) \subseteq Nodes
  BY <1>1 DEF All
<1>5. \A m \in Nodes, names \in SUBSET Nodes : Verifies(m, names)
  BY <1>2 DEF Verifies
<1> QED
  BY <1>1, <1>3, <1>4, <1>5 DEF Signable

\* A start ends with code 14 only if its own keys have gone into a block before it looked
\* for them in the pool, and with code 16 only if there is a genesis block or a node
\* without the keys of all.
THEOREM ExitsExplained == Spec => ExitReasons
<1> DEFINE Reason(n) ==
      /\ EndsWith(n, 14) => \E k \in Kinds : <<n, k, starts[n]>> \in blocked[n]
      /\ EndsWith(n, 16) => Made # {} \/ \E m \in Nodes : ~Complete(m)
<1>1. ASSUME IInv, Next, NEW n \in Nodes, EndsWith(n, 14)
      PROVE  \E k \in Kinds : <<n, k, starts[n]>> \in blocked[n]
  <2>1. Ending(n)
    BY <1>1, EndsOnly DEF EndsWith
  <2>2. \A c \in Codes : End(n, c) => c = 14
    BY <1>1, EndStep DEF EndsWith, IInv
  <2>3. FailCache(n)
    BY <2>1, <2>2 DEF Ending, Throw, FailDelivery, FailGenesis, ThrowGenesis, Crash, Codes
  <2>4. PICK k \in Kinds : \A t \in pool[n] : t[2] # k
    BY <2>3 DEF FailCache, Refreshes
  <2>5. Posted(n, k)
    BY <1>1, <2>3, KindsAre DEF FailCache, IInv, PostedOK
  <2>6. <<n, k, starts[n]>> \notin pool[n]
    BY <2>4
  <2> QED
    BY <2>5, <2>6 DEF Posted
<1>2. ASSUME IInv, Next, NEW n \in Nodes, EndsWith(n, 16), \A m \in Nodes : Complete(m)
      PROVE  Made # {}
  <2>1. Ending(n)
    BY <1>2, EndsOnly DEF EndsWith
  <2>2. \A c \in Codes : End(n, c) => c = 16
    BY <1>2, EndStep DEF EndsWith, IInv
  <2>3. FailGenesis(n)
    BY <2>1, <2>2 DEF Ending, Throw, FailDelivery, FailCache, ThrowGenesis, Crash, Codes
  <2>4. CASE Asked(n) /\ round[n].yes
    BY <1>2, <2>4 DEF Asked, IInv, AskingOK
  <2>5. CASE genesis[n] # {}
    BY <2>5 DEF Made
  <2>6. CASE \E s \in Trips(n) : ~Signable(s)
    BY <1>2, <2>6, AllCanSign
  <2> QED
    BY <2>3, <2>4, <2>5, <2>6 DEF FailGenesis, Refused
<1>3. IInv /\ [Next]_vars => [\A n \in Nodes : Reason(n)]_vars
  BY <1>1, <1>2
<1> QED
  BY <1>3, Invariance, PTL DEF ExitReasons, Spec

\* While all nodes sign every block, a node that has received the key of another, in its
\* pool or in its cache, has it until its process ends: those that store the block have
\* learned all keys before the transactions leave their pools.
THEOREM KeysAreKept ==
  ASSUME Signers = Cardinality(Nodes)
  PROVE  Spec => KeysStay
<1>1. ASSUME NEW n \in Nodes, pool[n] \subseteq pool'[n], keys[n] \subseteq keys'[n]
      PROVE  \A m \in Nodes : Has(n, m) => Has(n, m)'
  BY <1>1 DEF Has, Pooled
<1>2. ASSUME TypeOK, NEW q \in Nodes, NEW s \in Trips(q), NEW txs \in SUBSET Txs, Store(s, txs),
             NEW n \in Nodes
      PROVE  \A m \in Nodes : Has(n, m) => Has(n, m)'
  <2>1. keys[n] \subseteq keys'[n]
    BY <1>2, StoreStep
  <2>2. CASE n \in Storers(s)
    <3>1. Wired(n) /\ Nodes \subseteq keys[n] \union Pooled(n)
      BY <2>2, AllSign DEF Storers, Verifies
    <3>2. Nodes \subseteq Learned(n, All(s))
      BY <3>1, AllSign DEF Learned
    <3>3. Nodes \subseteq keys'[n]
      BY <1>2, <3>1, <3>2 DEF Store
    <3> QED
      BY <3>3 DEF Has
  <2>3. CASE n \notin Storers(s)
    <3>1. pool'[n] = pool[n]
      BY <1>2, <2>3 DEF Store
    <3> QED
      BY <1>1, <2>1, <3>1
  <2> QED
    BY <2>2, <2>3
<1>3. ASSUME IInv, Next, NEW n \in Nodes, pc'[n] # "off"
      PROVE  \A m \in Nodes : Has(n, m) => Has(n, m)'
  <2> USE DEF IInv
  <2>1. ASSUME NEW q \in Nodes, Ending(q)
        PROVE  pool'[n] = pool[n] /\ keys'[n] = keys[n]
    <3>1. PICK c \in Codes : End(q, c)
      BY <1>3, <2>1, EndingStep
    <3> QED
      BY <1>3, <3>1, EndStep
  <2>2. ASSUME NEW q \in Nodes, NEW k \in Kinds, Post(q, k)
        PROVE  pool[n] \subseteq pool'[n] /\ keys'[n] = keys[n]
    BY <1>3, <2>2 DEF Post, TypeOK
  <2>3. ASSUME NEW q \in Nodes, NEW m \in Nodes,
               \/ Listen(q) \/ Wire(q) \/ EndDelivery(q) \/ Cache(q) \/ LearnInVain(q)
               \/ BeginGenesis(q) \/ SkipGenesis(q) \/ RefuseGenesis(q) \/ AskHeight(q, m)
        PROVE  pool[n] \subseteq pool'[n] /\ keys[n] \subseteq keys'[n]
    <3>1. pool' = pool
      BY <2>3 DEF Listen, Wire, EndDelivery, Cache, LearnInVain, BeginGenesis, SkipGenesis,
                  RefuseGenesis, AskHeight
    <3>2. CASE Cache(q) \/ LearnInVain(q)
      BY <1>3, <3>1, <3>2 DEF TypeOK, Cache, LearnInVain
    <3>3. CASE ~(Cache(q) \/ LearnInVain(q))
      BY <2>3, <3>1, <3>3 DEF Listen, Wire, EndDelivery, BeginGenesis, SkipGenesis,
                              RefuseGenesis, AskHeight
    <3> QED
      BY <3>2, <3>3
  <2>4. ASSUME NEW q \in Nodes, AppendKeys(q)
        PROVE  \A m \in Nodes : Has(n, m) => Has(n, m)'
    <3>1. PICK s \in Trips(q) : Store(s, pool[q])
      BY <2>4 DEF AppendKeys
    <3>2. pool[q] \subseteq Txs
      BY <1>3 DEF TypeOK
    <3> QED
      BY <1>2, <1>3, <3>1, <3>2
  <2>5. ASSUME NEW q \in Nodes, CreateGenesis(q)
        PROVE  \A m \in Nodes : Has(n, m) => Has(n, m)'
    <3>1. PICK s \in Trips(q) : Store(s, {})
      BY <1>3, <2>5, CreateStep
    <3> QED
      BY <1>2, <1>3, <3>1
  <2>6. CASE Expire
    BY <2>6, <1>1 DEF Expire
  <2>7. ASSUME NEW q \in Nodes, PostKey(q) \/ PostCrt(q)
        PROVE  pool[n] \subseteq pool'[n] /\ keys'[n] = keys[n]
    BY <2>2, <2>7, KindsAre DEF PostKey, PostCrt
  <2>8. ASSUME NEW q \in Nodes, NEW m \in Nodes, Deliver(q, m)
        PROVE  pool[n] \subseteq pool'[n] /\ keys'[n] = keys[n]
    BY <1>3, <2>8 DEF TypeOK, Deliver
  <2> QED
    BY <1>1, <1>3, <2>1, <2>3, <2>4, <2>5, <2>6, <2>7, <2>8 DEF Next, Ending
<1>4. IInv /\ [Next]_vars
        => [\A n \in Nodes, m \in Nodes :
              m # n /\ Has(n, m) /\ pc'[n] # "off" => Has(n, m)']_vars
  BY <1>3
<1> QED
  BY <1>4, Invariance, PTL DEF KeysStay, Spec
=============================================================================
