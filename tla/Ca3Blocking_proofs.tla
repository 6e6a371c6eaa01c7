------------------------ MODULE Ca3Blocking_proofs ------------------------
(***************************************************************************)
(* Theorems about the blocks Ca3 stores: the copies of a block agree; as   *)
(* long as no deadline passes, nothing is blocked twice; and when nothing  *)
(* fails, the nodes agree on the chain, and the calls do not all give way  *)
(* to each other, unless the votes are split.                              *)
(***************************************************************************)
EXTENDS Ca3_proofs, Ca3Blocking

-----------------------------------------------------------------------------
(* The copies of a block agree, also when it was signed along two paths *)

\* The trip may still go on.
Active(c) == trip[c].stage # "done" \/ Len(trip[c].path) > 1

\* The call has not packed its next block yet.
Early == {"idle", "snapshot", "declare", "spin"}

HasId(n, id) == \E b \in chain[n] : b.id = id

Copied(c) == \E b \in Copies(c) : b.id = trip[c].block

\* The trip never goes on: its last node has ended, or will for an RPC failed.
Stuck(c) ==
  \/ trip[c].stage = "done" /\ Here(c) \in halted
  \/ trip[c].stage = "add" /\ broken[c]

\* Every node that could store the block of c has done so, or will be told to.
Settled(c) ==
  \A m \in Nodes \ (Abnormal \union Keyless) : Live(m, c) =>
    \/ HasId(m, trip[c].block)
    \/ trip[c].stage = "add" /\ m \in trip[c].left

\* What only depends on the trip.
TripInv(c) ==
  /\ trip[c].block \in 0 .. made
  /\ trip[c].block = 0 => ~Active(c)
  /\ pc[c] \in {"idle", "snapshot"} => trip[c].block = 0
  /\ pc[c] # "idle" => Owner[c] \notin Down
  /\ Range(trip[c].path) \intersect Down = {}
  /\ Active(c) => pc[c] \notin Early

\* What the copies have in common.
AgreeInv(c) ==
  /\ \A b \in Copies(c) :
       /\ b.id \in 1 .. trip[c].block
       /\ b.type = job[c].type /\ b.keys = job[c].keys /\ b.prev = prev[c]
       /\ trip[c].stage = "add" /\ b.id = trip[c].block
            => b.signedby = Range(trip[c].path)
  /\ \A a, b \in Copies(c) : a.id = b.id => a = b
  /\ trip[c].stage = "add" => Copied(c)
  /\ Active(c) /\ Copied(c) => Stuck(c) \/ Settled(c)

CopyInv == \A c \in Calls : TripInv(c) /\ AgreeInv(c)

\* The kinds of steps, as seen by the trip of c.
NothingNew(c) ==
  \A n \in Nodes : \A b \in chain'[n] : b \in chain[n] \/ b.call # c

Untouched(c) ==
  /\ trip'[c] = trip[c]
  /\ pc[c] \notin Early => broken'[c] = broken[c]
  /\ NothingNew(c)

Packs(c) ==
  /\ pc[c] = "declare" /\ asked[c] = {} /\ ~broken[c] /\ ~refused[c]
  /\ pc'[c] = "travel"
  /\ made' = made + 1
  /\ trip'[c].block = made + 1
  /\ Departs(c)
  /\ chain' = chain

Wanders(c) ==
  /\ Active(c)
  /\ ~Stuck(c)
  /\ trip[c].stage = "add" => trip[c].left = {}
  /\ trip'[c].block = trip[c].block
  /\ trip'[c].stage # "add"
  /\ \A m \in Range(trip'[c].path) : m \in Range(trip[c].path) \/ m \notin Down
  /\ chain' = chain

\* The trip stays where it is.
Stays(c) ==
  /\ trip'[c].block = trip[c].block
  /\ trip'[c].path = trip[c].path

StoresHere(c) ==
  /\ Stays(c)
  /\ trip[c].stage = "store"
  /\ trip'[c].stage = "add"
  /\ trip'[c].left = Recipients(c)
  /\ AddBlock(c, Here(c))

StoresThere(c, m) ==
  /\ Stays(c)
  /\ trip[c].stage = "add"
  /\ trip'[c].stage = "add"
  /\ trip[c].left \ {m} \subseteq trip'[c].left
  /\ broken[c] => broken'[c]
  /\ \/ AddBlock(c, m)
     \/ ~Storable(c, m) /\ chain' = chain

Breaks(c) ==
  /\ Stays(c)
  /\ trip[c].stage = "add"
  /\ \/ trip'[c].stage = "add" /\ broken'[c]
     \/ trip'[c].stage = "done" /\ Here(c) \in halted'
  /\ chain' = chain

KindStep ==
  \A c \in Calls :
    \/ Untouched(c)
    \/ Packs(c)
    \/ Wanders(c)
    \/ StoresHere(c)
    \/ \E m \in Nodes : StoresThere(c, m)
    \/ Breaks(c)

\* Another call's step leaves c alone.
Elsewhere(c) ==
  \A d \in Calls \ {c} :
    /\ Untouched(d)
    /\ pc'[d] = pc[d]
    /\ prev'[d] = prev[d]

LEMMA ThrowsElsewhere ==
  ASSUME TypeInv, NEW c \in Calls, NEW i,
         OwnerThrows(c) \/ Throws(c, i)
  PROVE  \A d \in Calls \ {c} : pc'[d] = pc[d]
BY DEF OwnerThrows, Throws, TypeInv, TypeOK

LEMMA PcElsewhere ==
  ASSUME TypeInv, NEW c \in Calls, Start(c) \/ Progress(c) \/ Fault(c)
  PROVE  \A d \in Calls \ {c} : pc'[d] = pc[d]
<1>1. ASSUME NEW st \in {"send", "done"}, Return(c, st)
      PROVE  \A d \in Calls \ {c} : pc'[d] = pc[d]
  BY <1>1, ThrowsElsewhere DEF Return
<1>2. CASE Start(c)
  BY <1>2 DEF Start, StartData, StartParcel, TypeInv, TypeOK
<1>3. CASE Begin(c) \/ \E kept \in BOOLEAN : Retransmit(c, kept)
  BY <1>3 DEF Begin, Retransmit, Declare, TypeInv, TypeOK
<1>4. CASE \/ \E m \in Nodes : \/ \E a \in BOOLEAN : \/ ReceiveDeclare(c, m, a)
                                              \/ ReceiveAdd(c, m, a)
                            \/ DeclareGiveUp(c, m)
                            \/ AddGiveUp(c, m)
                            \/ Sign(c, m)
           \/ AnswerLost(c) \/ Timeout(c)
  BY <1>4 DEF ReceiveDeclare, ReceiveAdd, DeclareGiveUp, AddGiveUp, Sign,
     AnswerLost, Timeout
<1>5. CASE \/ DeclareThrows(c) \/ AddThrows(c)
           \/ \E m \in Nodes : SendThrows(c, m)
           \/ \E i \in DOMAIN trip[c].path : AwaitThrows(c, i)
  BY <1>5, ThrowsElsewhere DEF DeclareThrows, AddThrows, SendThrows, AwaitThrows
<1>6. CASE DeclareFailed(c) \/ DeclareAccepted(c)
  BY <1>6 DEF DeclareFailed, DeclareAccepted, EndCall, TypeInv, TypeOK
<1>7. CASE Prompt(c) \/ Store(c) \/ Answer(c)
  BY <1>1, <1>7 DEF Prompt, Store, Answer
<1>8. CASE Finish(c)
  BY <1>8, ThrowsElsewhere DEF Finish, EndCall, TypeInv, TypeOK
<1> QED
  BY <1>2, <1>3, <1>4, <1>5, <1>6, <1>7, <1>8 DEF Progress, Fault

LEMMA BrokenElsewhere ==
  ASSUME TypeInv, NEW c \in Calls, Start(c) \/ Progress(c) \/ Fault(c)
  PROVE  \A d \in Calls \ {c} : broken'[d] = broken[d] /\ prev'[d] = prev[d]
<1> USE DEF TypeInv, TypeOK
<1>1. CASE Start(c)
  BY <1>1 DEF Start, StartData, StartParcel
<1>2. CASE Begin(c) \/ \E kept \in BOOLEAN : Retransmit(c, kept)
  BY <1>2 DEF Begin, Retransmit, Declare
<1>3. CASE \E m \in Nodes : \/ \E a \in BOOLEAN : \/ ReceiveDeclare(c, m, a)
                                           \/ ReceiveAdd(c, m, a)
                         \/ DeclareGiveUp(c, m)
                         \/ AddGiveUp(c, m)
  BY <1>3 DEF ReceiveDeclare, ReceiveAdd, DeclareGiveUp, AddGiveUp
<1>4. CASE Store(c)
  BY <1>4 DEF Store
<1>5. CASE \/ DeclareThrows(c) \/ AddThrows(c) \/ AnswerLost(c) \/ Timeout(c)
           \/ \E m \in Nodes : SendThrows(c, m) \/ Sign(c, m)
           \/ \E i \in DOMAIN trip[c].path : AwaitThrows(c, i)
           \/ DeclareFailed(c) \/ DeclareAccepted(c)
           \/ Prompt(c) \/ Answer(c) \/ Finish(c)
  BY <1>5 DEF DeclareThrows, AddThrows, AnswerLost, Timeout, SendThrows, Sign,
     AwaitThrows, DeclareFailed, DeclareAccepted, Prompt, Answer, Finish
<1> QED
  BY <1>1, <1>2, <1>3, <1>4, <1>5 DEF Progress, Fault

LEMMA TripElsewhere ==
  ASSUME TypeInv, NEW c \in Calls, Start(c) \/ Progress(c) \/ Fault(c)
  PROVE  \A d \in Calls \ {c} : trip'[d] = trip[d]
<1>0. trip \in [Calls -> Trip]
  BY DEF TypeInv, TypeOK
<1>1. ASSUME NEW st, Return(c, st)
      PROVE  \A d \in Calls \ {c} : trip'[d] = trip[d]
  BY <1>0, <1>1 DEF Return
<1>2. CASE Start(c)
  BY <1>2 DEF Start, StartData, StartParcel
<1>3. CASE \/ Begin(c) \/ \E kept \in BOOLEAN : Retransmit(c, kept)
           \/ Timeout(c) \/ DeclareThrows(c) \/ DeclareFailed(c)
           \/ \E i \in DOMAIN trip[c].path : AwaitThrows(c, i)
  BY <1>3 DEF Begin, Retransmit, Timeout, DeclareThrows, DeclareFailed, AwaitThrows
<1>4. CASE \E m \in Nodes : \/ \E a \in BOOLEAN : \/ ReceiveDeclare(c, m, a)
                                           \/ ReceiveAdd(c, m, a)
                         \/ DeclareGiveUp(c, m)
                         \/ AddGiveUp(c, m)
  BY <1>0, <1>4 DEF ReceiveDeclare, ReceiveAdd, DeclareGiveUp, AddGiveUp
<1>5. CASE \E m \in Nodes : SendThrows(c, m) \/ Sign(c, m)
  BY <1>0, <1>5 DEF SendThrows, Sign
<1>6. CASE AddThrows(c) \/ AnswerLost(c) \/ DeclareAccepted(c) \/ Finish(c)
  BY <1>0, <1>6 DEF AddThrows, AnswerLost, DeclareAccepted, Finish
<1>7. CASE Prompt(c) \/ Store(c) \/ Answer(c)
  BY <1>0, <1>1, <1>7 DEF Prompt, Store, Answer
<1> QED
  BY <1>2, <1>3, <1>4, <1>5, <1>6, <1>7 DEF Progress, Fault

\* Only two actions change a chain.
LEMMA ChainElsewhere ==
  ASSUME TypeInv, NEW c \in Calls, Start(c) \/ Progress(c) \/ Fault(c)
  PROVE  /\ \A d \in Calls \ {c} : NothingNew(d)
         /\ \/ chain' = chain
            \/ Store(c)
            \/ \E m \in Nodes, a \in BOOLEAN : ReceiveAdd(c, m, a)
<1>1. \/ chain' = chain
      \/ Store(c)
      \/ \E m \in Nodes, a \in BOOLEAN : ReceiveAdd(c, m, a)
  <2>1. CASE Start(c)
    BY <2>1 DEF Start, StartData, StartParcel
  <2>2. CASE Begin(c) \/ (\E kept \in BOOLEAN : Retransmit(c, kept)) \/ Timeout(c)
    BY <2>2 DEF Begin, Retransmit, Timeout
  <2>3. CASE \E m \in Nodes : \/ \E a \in BOOLEAN : ReceiveDeclare(c, m, a)
                           \/ DeclareGiveUp(c, m)
                           \/ Sign(c, m)
                           \/ SendThrows(c, m)
                           \/ AddGiveUp(c, m)
    BY <2>3 DEF ReceiveDeclare, DeclareGiveUp, Sign, SendThrows, AddGiveUp
  <2>4. CASE DeclareThrows(c) \/ DeclareFailed(c) \/ DeclareAccepted(c)
    BY <2>4 DEF DeclareThrows, DeclareFailed, DeclareAccepted
  <2>5. CASE \/ Prompt(c) \/ AddThrows(c) \/ Answer(c) \/ AnswerLost(c)
             \/ Finish(c) \/ \E i \in DOMAIN trip[c].path : AwaitThrows(c, i)
    BY <2>5 DEF Prompt, AddThrows, Answer, AnswerLost, Finish, AwaitThrows
  <2> QED
    BY <2>1, <2>2, <2>3, <2>4, <2>5 DEF Progress, Fault
<1>2. ASSUME NEW m, AddBlock(c, m), NEW d \in Calls \ {c}
      PROVE  NothingNew(d)
  BY <1>2 DEF AddBlock, TheBlock, NothingNew, TypeInv, TypeOK
<1>3. ASSUME NEW d \in Calls \ {c} PROVE NothingNew(d)
  <2>1. CASE chain' = chain
    BY <2>1 DEF NothingNew
  <2>2. CASE Store(c) \/ \E m \in Nodes, a \in BOOLEAN : ReceiveAdd(c, m, a)
    BY <1>2, <2>1, <2>2 DEF Store, ReceiveAdd
  <2> QED
    BY <1>1, <2>1, <2>2
<1> QED
  BY <1>1, <1>3

LEMMA StepElsewhere ==
  ASSUME TypeInv, NEW c \in Calls, Start(c) \/ Progress(c) \/ Fault(c)
  PROVE  Elsewhere(c)
BY PcElsewhere, BrokenElsewhere, TripElsewhere, ChainElsewhere
   DEF Elsewhere, Untouched

\* The path shrinks to its front, at a stage other than "add".
LEMMA FrontWanders ==
  ASSUME TypeInv, NEW c \in Calls, NEW stage \in {"send", "done"}, NEW torn \in SUBSET Nodes,
         Len(trip[c].path) > 1, ~Stuck(c), chain' = chain,
         trip[c].stage = "add" => trip[c].left = {},
         trip' = [trip EXCEPT ![c].path = Front(@), ![c].stage = stage,
                              ![c].torn = torn]
  PROVE  Wanders(c)
<1> DEFINE f == Front(trip[c].path)
           t == [trip[c] EXCEPT !.path = f, !.stage = stage, !.torn = torn]
<1>1. trip \in [Calls -> Trip] /\ trip[c] \in Trip /\ trip[c].path \in Seq(Nodes)
  BY DEF TypeInv, TypeOK, Trip
<1>2. f \in Seq(Nodes) /\ Range(f) \subseteq Range(trip[c].path)
  <2>1. /\ f \in Seq(Nodes) /\ Len(f) = Len(trip[c].path) - 1
        /\ \A i \in 1 .. Len(trip[c].path) - 1 : f[i] = trip[c].path[i]
        /\ Len(trip[c].path) \in Nat
    BY <1>1, FrontInSeq, LenProperties
  <2>2. /\ Range(f) = {f[i] : i \in 1 .. Len(f)}
        /\ Range(trip[c].path) = {trip[c].path[i] : i \in 1 .. Len(trip[c].path)}
    BY <1>1, <2>1, RangeEquality
  <2> QED
    BY <2>1, <2>2
<1>3. trip' = [trip EXCEPT ![c] = t]
  OBVIOUS
<1> HIDE DEF f
<1>4. t.path = f /\ t.stage = stage /\ t.block = trip[c].block
  BY <1>1 DEF Trip
<1> HIDE DEF t
<1>5. trip'[c] = t
  BY <1>1, <1>3
<1> QED
  BY <1>2, <1>4, <1>5 DEF Wanders, Active

LEMMA ReturnWanders ==
  ASSUME TypeInv, NEW c \in Calls, NEW st \in {"send", "done"}, Return(c, st),
         Len(trip[c].path) > 1, ~Stuck(c), chain' = chain,
         trip[c].stage = "add" => trip[c].left = {}
  PROVE  Wanders(c)
<1> DEFINE stage == IF Here(c) \in trip[c].torn THEN "done" ELSE st
           torn == trip[c].torn \ {Here(c)}
<1>1. stage \in {"send", "done"} /\ torn \in SUBSET Nodes
  BY DEF TypeInv, TypeOK, Trip
<1>2. trip' = [trip EXCEPT ![c].path = Front(@), ![c].stage = stage,
                           ![c].torn = torn]
  BY DEF Return
<1> HIDE DEF stage, torn
<1> QED
  BY <1>1, <1>2, FrontWanders

\* Nothing but the stage, to one that is not "add", and what is torn changes.
LEMMA StageWanders ==
  ASSUME TypeInv, NEW c \in Calls, NEW stage \in {"send", "store", "done"},
         NEW torn \in SUBSET Nodes, Active(c), ~Stuck(c), chain' = chain,
         trip[c].stage = "add" => trip[c].left = {},
         trip' = [trip EXCEPT ![c].stage = stage, ![c].torn = torn]
  PROVE  Wanders(c)
<1>1. trip \in [Calls -> Trip] /\ trip[c] \in Trip
  BY DEF TypeInv, TypeOK
<1>2. /\ trip'[c].stage = stage
      /\ trip'[c].path = trip[c].path
      /\ trip'[c].block = trip[c].block
  BY <1>1 DEF Trip
<1> QED
  BY <1>2 DEF Wanders

LEMMA AnsweringMoves ==
  ASSUME TypeInv, NEW c \in Calls, Answering(c)
  PROVE  /\ Active(c) /\ ~Stuck(c)
         /\ trip[c].stage = "add" => trip[c].left = {}
BY DEF Answering, Active, Stuck, Runs

LEMMA ReceiveAddKind ==
  ASSUME TypeInv, NEW c \in Calls, NEW m \in Nodes, NEW a \in BOOLEAN, ReceiveAdd(c, m, a)
  PROVE  StoresThere(c, m)
<1>0. /\ trip \in [Calls -> Trip] /\ trip[c] \in Trip
      /\ broken \in [Calls -> BOOLEAN]
  BY DEF TypeInv, TypeOK
<1>1. trip' = trip \/ trip' = [trip EXCEPT ![c].left = @ \ {m}]
  BY DEF ReceiveAdd
<1>2. /\ Stays(c) /\ trip[c].left \ {m} \subseteq trip'[c].left
      /\ trip'[c].stage = trip[c].stage
  <2>1. CASE trip' = trip
    BY <2>1 DEF Stays
  <2>2. CASE trip' = [trip EXCEPT ![c].left = @ \ {m}]
    BY <1>0, <2>2 DEF Stays, Trip
  <2> QED
    BY <1>1, <2>1, <2>2
<1>3. broken[c] => broken'[c]
  BY <1>0 DEF ReceiveAdd
<1>4. \/ AddBlock(c, m)
      \/ ~Storable(c, m) /\ chain' = chain
  BY DEF ReceiveAdd, Storable
<1> QED
  BY <1>2, <1>3, <1>4 DEF ReceiveAdd, StoresThere

LEMMA OwnStep ==
  ASSUME TypeInv, NEW c \in Calls, Start(c) \/ Progress(c) \/ Fault(c)
  PROVE  \/ Untouched(c) \/ Packs(c) \/ Wanders(c) \/ StoresHere(c)
         \/ \E m \in Nodes : StoresThere(c, m)
         \/ Breaks(c)
<1>0. /\ trip \in [Calls -> Trip] /\ trip[c] \in Trip
      /\ trip[c].torn \in SUBSET Nodes
      /\ broken \in [Calls -> BOOLEAN]
      /\ halted \in SUBSET Nodes
  BY DEF TypeInv, TypeOK, Trip
<1>1. trip' = trip /\ chain' = chain /\ (pc[c] \in Early \/ broken' = broken)
        => Untouched(c)
  BY DEF Untouched, NothingNew
<1>2. CASE Start(c)
  BY <1>1, <1>2 DEF Start, StartData, StartParcel, Early
<1>3. CASE Begin(c) \/ (\E kept \in BOOLEAN : Retransmit(c, kept)) \/ Timeout(c)
  BY <1>1, <1>3 DEF Begin, Retransmit, Timeout, Early
<1>4. CASE \/ \E m \in Nodes : \/ \E a \in BOOLEAN : ReceiveDeclare(c, m, a)
                            \/ DeclareGiveUp(c, m)
           \/ DeclareThrows(c) \/ DeclareFailed(c)
           \/ \E i \in DOMAIN trip[c].path : AwaitThrows(c, i)
  BY <1>1, <1>4 DEF ReceiveDeclare, DeclareGiveUp, DeclareThrows, DeclareFailed,
     AwaitThrows, Early
<1>5. CASE DeclareAccepted(c)
  <2>1. Packs(c)
    BY <1>0, <1>5 DEF DeclareAccepted, DeclareDone, Packs, Departs, TypeInv, TypeOK
  <2> QED
    BY <2>1
<1>6. ASSUME NEW m \in Nodes, Sign(c, m) PROVE Untouched(c) \/ Wanders(c)
  <2> DEFINE p == Append(trip[c].path, m)
             st == Signed(Len(trip[c].path) + 1)
  <2>1. \/ trip' = trip
        \/ trip' = [trip EXCEPT ![c].path = p, ![c].stage = st]
    BY <1>6 DEF Sign
  <2>2. chain' = chain /\ broken' = broken /\ m \notin Down /\ trip[c].stage = "send"
    BY <1>6 DEF Sign, Up
  <2>3. Range(p) = Range(trip[c].path) \union {m} /\ st # "add"
    BY <1>0, AppendInSeq DEF Trip, Signed
  <2>4. CASE trip' = [trip EXCEPT ![c].path = p, ![c].stage = st]
    <3> HIDE DEF p, st
    <3>1. trip'[c].path = p /\ trip'[c].stage = st /\ trip'[c].block = trip[c].block
      BY <1>0, <2>4 DEF Trip
    <3> QED
      BY <2>2, <2>3, <3>1 DEF Wanders, Active, Stuck
  <2> QED
    BY <1>1, <2>1, <2>2, <2>4
<1>7. ASSUME NEW m \in Nodes, SendThrows(c, m) PROVE Wanders(c)
  <2>1. trip' = [trip EXCEPT ![c].stage = "done", ![c].torn = trip[c].torn]
    BY <1>0, <1>7 DEF SendThrows, Trip
  <2> QED
    BY <1>0, <1>7, <2>1, StageWanders DEF SendThrows, Active, Stuck
<1>8. CASE Prompt(c)
  <2>1. /\ Active(c) /\ ~Stuck(c) /\ Len(trip[c].path) > 1 /\ chain' = chain
        /\ trip[c].stage = "send"
    BY <1>8 DEF Prompt, Active, Stuck
  <2>2. CASE trip' = [trip EXCEPT ![c].stage = "store"]
    <3>1. trip' = [trip EXCEPT ![c].stage = "store", ![c].torn = trip[c].torn]
      BY <1>0, <2>2 DEF Trip
    <3> QED
      BY <1>0, <2>1, <3>1, StageWanders
  <2>3. CASE Return(c, "send")
    BY <2>1, <2>3, ReturnWanders
  <2> QED
    BY <1>8, <2>2, <2>3 DEF Prompt
<1>9. CASE Store(c)
  <2>1. CASE Return(c, "send") /\ UNCHANGED chain
    BY <1>9, <2>1, ReturnWanders DEF Store, Stuck, TypeInv, OnItsWay
  <2>2. CASE /\ AddBlock(c, Here(c))
             /\ trip' = [trip EXCEPT ![c].stage = "add", ![c].left = Recipients(c)]
    <3>1. StoresHere(c)
      BY <1>0, <1>9, <2>2 DEF Store, StoresHere, Stays, Trip
    <3> QED
      BY <3>1
  <2> QED
    BY <1>9, <2>1, <2>2 DEF Store
<1>10. ASSUME NEW m \in Nodes, NEW a \in BOOLEAN, ReceiveAdd(c, m, a)
       PROVE  StoresThere(c, m)
  BY <1>10, ReceiveAddKind
<1>11. ASSUME NEW m \in Nodes, AddGiveUp(c, m) PROVE Breaks(c)
  BY <1>0, <1>11 DEF AddGiveUp, Breaks, Stays, Trip
<1>12. CASE AddThrows(c)
  <2> DEFINE n == Len(trip[c].path)
  <2>1. /\ trip[c].stage = "add" /\ n > 1 /\ n \in Nat /\ chain' = chain
        /\ Throws(c, n)
    BY <1>0, <1>12, LenProperties DEF AddThrows, TypeInv, OnItsWay, Trip
  <2>2. Here(c) = trip[c].path[n]
    BY DEF Here, Last
  <2>3. Here(c) \in halted'
    BY <2>1, <2>2 DEF Throws
  <2>4. Stays(c) /\ trip'[c].stage = "done"
    BY <1>0, <1>12 DEF AddThrows, Stays, Trip
  <2> QED
    BY <2>1, <2>3, <2>4 DEF Breaks
<1>13. CASE Answer(c)
  BY <1>13, AnsweringMoves, ReturnWanders DEF Answer, Answering
<1>14. CASE AnswerLost(c)
  <2>1. PICK st \in {"done", Signed(Len(trip[c].path))} :
          trip' = [trip EXCEPT ![c].stage = st, ![c].torn = @ \union {Here(c)}]
    BY <1>14 DEF AnswerLost
  <2>2. Here(c) \in Nodes
    <3>1. trip[c].path \in Seq(Nodes) /\ Len(trip[c].path) > 0
      BY <1>0, <1>14, LenProperties DEF AnswerLost, Answering, Trip
    <3> QED
      BY <3>1, LastInSet DEF Here
  <2> DEFINE torn == trip[c].torn \union {Here(c)}
  <2>3. torn \in SUBSET Nodes /\ st \in {"send", "store", "done"}
    BY <1>0, <2>2 DEF Signed
  <2>4. trip' = [trip EXCEPT ![c].stage = st, ![c].torn = torn]
    BY <2>1
  <2> HIDE DEF torn
  <2> QED
    BY <1>14, <2>3, <2>4, AnsweringMoves, StageWanders DEF AnswerLost
<1>15. CASE Finish(c)
  <2>1. trip' = [trip EXCEPT ![c].path = Front(@), ![c].stage = "done",
                             ![c].torn = trip[c].torn]
    BY <1>0, <1>15 DEF Finish, Trip
  <2> QED
    BY <1>0, <1>15, <2>1, AnsweringMoves, FrontWanders DEF Finish, Answering
<1> QED
  BY <1>2, <1>3, <1>4, <1>5, <1>6, <1>7, <1>8, <1>9, <1>10, <1>11, <1>12, <1>13,
     <1>14, <1>15 DEF Progress, Fault

LEMMA KindStepAlways == TypeInv /\ [Next]_vars => KindStep
<1> SUFFICES ASSUME TypeInv, [Next]_vars PROVE KindStep
  OBVIOUS
<1>1. ASSUME NEW c \in Calls, Start(c) \/ Progress(c) \/ Fault(c)
      PROVE  KindStep
  BY <1>1, OwnStep, StepElsewhere DEF KindStep, Elsewhere
<1>2. CASE UNCHANGED vars
  BY <1>2 DEF vars, KindStep, Untouched, NothingNew
<1> QED
  BY <1>1, <1>2 DEF Next

\* What a step does to the program counter of a call.
PcStep(c) ==
  /\ pc'[c] \in {"idle", "snapshot"} => pc[c] \in {"idle", "snapshot"}
  /\ pc'[c] # "idle" => pc[c] # "idle" \/ Owner[c] \notin Down \/ Active(c)
  /\ pc'[c] \in Early => pc[c] \in Early \/ ~Active(c)'
  /\ prev'[c] = prev[c] \/ pc[c] = "snapshot"

LEMMA ThrowsPc ==
  ASSUME TypeInv, NEW c \in Calls, NEW i, OwnerThrows(c) \/ Throws(c, i)
  PROVE  pc'[c] \in {pc[c], "threw"}
BY DEF OwnerThrows, Throws, TypeInv, TypeOK

LEMMA OwnPc ==
  ASSUME TypeInv, NEW c \in Calls, Start(c) \/ Progress(c) \/ Fault(c)
  PROVE  PcStep(c)
<1>0. pc \in [Calls -> PCs]
  BY DEF TypeInv, TypeOK
<1>1. prev'[c] = prev[c] /\ pc'[c] \in {pc[c], "threw", "travel"} \union Ended
        /\ (pc'[c] # pc[c] => pc[c] # "idle")
        => PcStep(c)
  BY DEF PcStep, Early, Ended
<1>2. CASE Start(c)
  BY <1>0, <1>2 DEF Start, StartData, StartParcel, Up, PcStep, Early
<1>3. CASE Begin(c) \/ \E kept \in BOOLEAN : Retransmit(c, kept)
  <2>1. pc[c] \in Early \ {"idle"} /\ pc'[c] \in {"skipped", "declare"}
    BY <1>0, <1>3 DEF Begin, Retransmit, Declare, Early
  <2>2. prev'[c] = prev[c] \/ pc[c] = "snapshot"
    BY <1>3 DEF Begin, Retransmit
  <2> QED
    BY <2>1, <2>2 DEF PcStep
<1>4. CASE \/ \E m \in Nodes : \/ \E a \in BOOLEAN : \/ ReceiveDeclare(c, m, a)
                                              \/ ReceiveAdd(c, m, a)
                            \/ DeclareGiveUp(c, m)
                            \/ AddGiveUp(c, m)
                            \/ Sign(c, m)
           \/ AnswerLost(c) \/ Timeout(c)
  BY <1>1, <1>4, ZenonT(60) DEF ReceiveDeclare, ReceiveAdd, DeclareGiveUp, AddGiveUp, Sign,
     AnswerLost, Timeout
<1>5. ASSUME NEW st \in {"send", "done"}, Return(c, st)
      PROVE  pc'[c] \in {pc[c], "threw"}
  BY <1>5, ThrowsPc DEF Return
<1>6. CASE DeclareThrows(c)
  BY <1>1, <1>6, ThrowsPc DEF DeclareThrows, DeclareDone
<1>7. CASE DeclareFailed(c) \/ DeclareAccepted(c)
  BY <1>0, <1>1, <1>7 DEF DeclareFailed, DeclareAccepted, DeclareDone, EndCall, Ended
<1>8. CASE \/ AddThrows(c) \/ (\E m \in Nodes : SendThrows(c, m)) \/ Prompt(c)
           \/ Store(c) \/ Answer(c)
           \/ \E i \in DOMAIN trip[c].path : AwaitThrows(c, i)
  <2>1. pc'[c] \in {pc[c], "threw"} /\ prev' = prev
    BY <1>5, <1>8, ThrowsPc DEF AddThrows, SendThrows, Prompt, Store, Answer, AwaitThrows
  <2>2. Active(c)
    <3>1. trip[c].path \in Seq(Nodes)
      BY DEF TypeInv, TypeOK, Trip
    <3>2. ASSUME NEW i \in DOMAIN trip[c].path, AwaitThrows(c, i)
          PROVE  Len(trip[c].path) > 1
      BY <3>1, <3>2, LenProperties DEF AwaitThrows
    <3> QED
      BY <1>8, <3>2 DEF AddThrows, SendThrows, Prompt, Store, Answer, Answering, Active
  <2> QED
    BY <2>1, <2>2 DEF PcStep, Early
<1>9. CASE Finish(c)
  <2>1. pc'[c] \in {"threw", "spin"} \union Ended /\ prev' = prev /\ pc[c] = "travel"
    BY <1>0, <1>9 DEF Finish, OwnerThrows, EndCall, Ended
  <2>2. ~Active(c)'
    <3> DEFINE f == Front(trip[c].path)
    <3>1. /\ trip[c] \in Trip /\ trip \in [Calls -> Trip]
          /\ trip[c].path \in Seq(Nodes)
      BY DEF TypeInv, TypeOK, Trip
    <3>2. /\ trip' = [trip EXCEPT ![c].path = f, ![c].stage = "done"]
          /\ Len(trip[c].path) = 2
      BY <1>9 DEF Finish
    <3>3. Len(trip[c].path) > 0 /\ Len(trip[c].path) - 1 = 1
      BY <3>2
    <3>4. ~(Len(f) > 1)
      BY <3>1, <3>3, FrontInSeq
    <3> HIDE DEF f
    <3>5. trip'[c].path = f /\ trip'[c].stage = "done"
      BY <3>1, <3>2 DEF Trip
    <3> QED
      BY <3>4, <3>5 DEF Active
  <2> QED
    BY <2>1, <2>2 DEF PcStep, Early, Ended
<1> QED
  BY <1>2, <1>3, <1>4, <1>6, <1>7, <1>8, <1>9 DEF Progress, Fault

LEMMA PcStepAlways == TypeInv /\ [Next]_vars => \A c \in Calls : PcStep(c)
<1> SUFFICES ASSUME TypeInv, [Next]_vars, NEW c \in Calls PROVE PcStep(c)
  OBVIOUS
<1>1. pc'[c] = pc[c] /\ prev'[c] = prev[c] => PcStep(c)
  BY DEF PcStep
<1>2. ASSUME NEW d \in Calls, Start(d) \/ Progress(d) \/ Fault(d)
      PROVE  PcStep(c)
  BY <1>1, <1>2, OwnPc, StepElsewhere DEF Elsewhere
<1>3. CASE UNCHANGED vars
  BY <1>1, <1>3 DEF vars
<1> QED
  BY <1>2, <1>3 DEF Next

\* An entry is made, or its deadline renewed, only while its call is early.
EntryKept ==
  \A m \in Nodes, c \in Calls : reg'[m][c].state # "absent" =>
    \/ Known(m, c) /\ reg'[m][c].gen = reg[m][c].gen
    \/ pc[c] \in Early

LEMMA EntryKeptDeclare ==
  ASSUME TypeInv, NEW c \in Calls, NEW kept \in BOOLEAN, Declare(c, kept),
         pc[c] \in Early
  PROVE  EntryKept
<1> DEFINE table == SetUp(c, kept)
<1>1. Owner[c] \in Nodes /\ reg \in [Nodes -> [Calls -> Entry]]
  BY ConstantsOK DEF TypeInv, TypeOK
<1>2. \/ reg' = [reg EXCEPT ![Owner[c]] = table]
      \/ reg' = [reg EXCEPT ![Owner[c]] = [table EXCEPT ![c] = NoEntry]]
  BY DEF Declare
<1>3. table \in [Calls -> Entry]
  BY SetUpType DEF TypeInv
<1>4. \A d \in Calls \ {c} : table[d] = reg[Owner[c]][d] \/ table[d] = NoEntry
  BY DEF SetUp
<1> HIDE DEF table
<1>5. ASSUME NEW m \in Nodes, NEW d \in Calls, reg'[m][d].state # "absent", d # c
      PROVE  reg'[m][d] = reg[m][d]
  <2>1. CASE m # Owner[c]
    BY <1>1, <1>2, <2>1
  <2>2. CASE m = Owner[c]
    <3>1. reg'[m][d] = table[d]
      BY <1>1, <1>2, <1>3, <1>5, <2>2
    <3> QED
      BY <1>4, <1>5, <2>2, <3>1 DEF NoEntry
  <2> QED
    BY <2>1, <2>2
<1> QED
  BY <1>5 DEF EntryKept, Known

\* An entry's state is changed, if it is there at all.
LEMMA EntryKeptUpdate ==
  ASSUME TypeInv, NEW c \in Calls, NEW m \in Nodes, NEW e \in Entry,
         reg' = [reg EXCEPT ![m][c] = e],
         \/ pc[c] \in Early
         \/ e.state = "absent"
         \/ Known(m, c) /\ e.gen = reg[m][c].gen
  PROVE  EntryKept
<1>1. \A n \in Nodes, d \in Calls :
        reg'[n][d] = IF n = m /\ d = c THEN e ELSE reg[n][d]
  BY DEF TypeInv, TypeOK
<1> QED
  BY <1>1 DEF EntryKept, Known

LEMMA EntryKeptAlways == TypeInv /\ [Next]_vars => EntryKept
<1> SUFFICES ASSUME TypeInv, [Next]_vars PROVE EntryKept
  OBVIOUS
<1>0. /\ NoEntry \in Entry /\ NoEntry.state = "absent"
      /\ \A m \in Nodes, c \in Calls : reg[m][c] \in Entry
      /\ \A c \in Calls : Owner[c] \in Nodes /\ attempt[c] \in Nat
  BY ConstantsOK DEF NoEntry, Entry, TypeInv, TypeOK
<1>1. CASE reg' = reg
  BY <1>1 DEF EntryKept, Known
<1>2. ASSUME NEW c \in Calls, NEW how, EndCall(c, how)
      PROVE  EntryKept
  BY <1>0, <1>2, EntryKeptUpdate DEF EndCall
<1>3. ASSUME NEW c \in Calls, NEW m \in Nodes, Known(m, c),
             reg' = [reg EXCEPT ![m][c].state = "arrived"]
      PROVE  EntryKept
  <2> DEFINE e == [reg[m][c] EXCEPT !.state = "arrived"]
  <2>1. reg[m][c] \in Entry
    BY <1>0
  <2>2. e \in Entry /\ e.gen = reg[m][c].gen
    BY <2>1 DEF Entry
  <2>3. reg' = [reg EXCEPT ![m][c] = e] /\ Known(m, c)
    BY <1>3
  <2> HIDE DEF e
  <2> QED
    BY <2>2, <2>3, EntryKeptUpdate
<1>4. ASSUME NEW c \in Calls, DeclareAccepted(c)
      PROVE  EntryKept
  <2> DEFINE e == [reg[Owner[c]][c] EXCEPT !.state = "underway"]
  <2>1. reg[Owner[c]][c] \in Entry
    BY <1>0
  <2>2. e \in Entry
    BY <2>1 DEF Entry
  <2>3. reg' = [reg EXCEPT ![Owner[c]][c] = e] /\ pc[c] \in Early
    BY <1>4 DEF DeclareAccepted, DeclareDone, Early
  <2> HIDE DEF e
  <2> QED
    BY <1>0, <2>2, <2>3, EntryKeptUpdate
<1>5. ASSUME NEW c \in Calls, NEW m \in Nodes, NEW answered \in BOOLEAN,
             ReceiveAdd(c, m, answered)
      PROVE  EntryKept
  <2> DEFINE e == [reg[m][c] EXCEPT !.state = "arrived", !.stored = TRUE]
  <2>1. \/ Known(m, c) /\ reg' = [reg EXCEPT ![m][c] = e]
        \/ Known(m, c) /\ reg' = [reg EXCEPT ![m][c].state = "arrived"]
        \/ reg' = reg
    BY <1>5 DEF ReceiveAdd, AddBlock, Storable, Live
  <2>2. reg[m][c] \in Entry
    BY <1>0
  <2>3. e \in Entry /\ e.gen = reg[m][c].gen
    BY <2>2 DEF Entry
  <2> HIDE DEF e
  <2> QED
    BY <1>1, <1>3, <2>1, <2>3, EntryKeptUpdate
<1>6. ASSUME NEW c \in Calls, NEW m \in Nodes, NEW answered \in BOOLEAN,
             ReceiveDeclare(c, m, answered)
      PROVE  EntryKept
  <2> DEFINE e == [reg[m][c] EXCEPT !.gen = attempt[c]]
             f == [state |-> "underway", stored |-> FALSE, gen |-> attempt[c]]
  <2>1. e \in Entry /\ f \in Entry /\ pc[c] \in Early
    BY <1>0, <1>6, EntryUpdates DEF ReceiveDeclare, Early
  <2>2. \/ reg' = reg
        \/ reg' = [reg EXCEPT ![m][c] = e]
        \/ reg' = [reg EXCEPT ![m][c] = f]
    BY <1>6 DEF ReceiveDeclare
  <2> HIDE DEF e, f
  <2> QED
    BY <1>1, <2>1, <2>2, EntryKeptUpdate
<1>7. ASSUME NEW c \in Calls, Start(c) \/ Progress(c) \/ Fault(c)
      PROVE  EntryKept
  <2>1. CASE Start(c) \/ Prompt(c) \/ Store(c) \/ Answer(c)
    BY <1>1, <2>1 DEF Start, StartData, StartParcel, Prompt, Store, Answer
  <2>2. CASE Begin(c) \/ \E kept \in BOOLEAN : Retransmit(c, kept)
    BY <2>2, EntryKeptDeclare DEF Begin, Retransmit, Early
  <2>3. CASE DeclareFailed(c) \/ Finish(c)
    BY <1>1, <1>2, <2>3 DEF DeclareFailed, Finish
  <2>4. CASE \/ \E m \in Nodes : \/ DeclareGiveUp(c, m)
                              \/ SendThrows(c, m)
                              \/ AddGiveUp(c, m)
             \/ DeclareThrows(c)
             \/ AddThrows(c)
             \/ \E i \in DOMAIN trip[c].path : AwaitThrows(c, i)
    BY <1>1, <2>4 DEF DeclareGiveUp, SendThrows, AddGiveUp, DeclareThrows,
       AddThrows, AwaitThrows
  <2>5. CASE AnswerLost(c) \/ Timeout(c)
    BY <1>1, <2>5 DEF AnswerLost, Timeout
  <2>6. CASE \E m \in Nodes : Sign(c, m)
    BY <1>3, <2>6 DEF Sign, Live
  <2> QED
    BY <1>4, <1>5, <1>6, <1>7, <2>1, <2>2, <2>3, <2>4, <2>5, <2>6
    DEF Progress, Fault
<1> QED
  BY <1>1, <1>7 DEF Next, vars

\* Deadlines stay passed, ended processes stay ended, numbers grow.
Onward ==
  /\ \A c \in Calls : dead'[c] >= dead[c]
  /\ halted \subseteq halted'
  /\ made' >= made

LEMMA OnwardAlways == TypeInv /\ [Next]_vars => Onward
<1> SUFFICES ASSUME TypeInv, [Next]_vars PROVE Onward
  OBVIOUS
<1>0. /\ dead \in [Calls -> Nat] /\ attempt \in [Calls -> Nat] /\ made \in Nat
  BY DEF TypeInv, TypeOK
<1>1. dead' = dead /\ made' = made /\ halted \subseteq halted' => Onward
  BY <1>0 DEF Onward
<1>2. ASSUME NEW c \in Calls, NEW i, OwnerThrows(c) \/ Throws(c, i)
      PROVE  halted \subseteq halted'
  BY <1>2 DEF OwnerThrows, Throws
<1>3. ASSUME NEW c \in Calls, NEW st, Return(c, st)
      PROVE  halted \subseteq halted'
  BY <1>2, <1>3 DEF Return
<1>4. ASSUME NEW c \in Calls, Start(c) \/ Progress(c) \/ Fault(c)
      PROVE  Onward
  <2>1. CASE Start(c)
    BY <1>1, <2>1 DEF Start, StartData, StartParcel
  <2>2. CASE Timeout(c)
    BY <1>0, <2>2 DEF Timeout, Onward
  <2>3. CASE DeclareAccepted(c)
    BY <1>0, <2>3 DEF DeclareAccepted, Onward
  <2>4. CASE \/ Begin(c) \/ \E kept \in BOOLEAN : Retransmit(c, kept)
             \/ DeclareFailed(c) \/ AnswerLost(c)
             \/ \E m \in Nodes : \/ \E a \in BOOLEAN : \/ ReceiveDeclare(c, m, a)
                                                \/ ReceiveAdd(c, m, a)
                              \/ DeclareGiveUp(c, m)
                              \/ AddGiveUp(c, m)
                              \/ Sign(c, m)
    BY <1>1, <2>4, ZenonT(60) DEF Begin, Retransmit, DeclareFailed, AnswerLost, ReceiveDeclare,
       ReceiveAdd, DeclareGiveUp, AddGiveUp, Sign
  <2>5. CASE \/ DeclareThrows(c) \/ AddThrows(c)
             \/ \E m \in Nodes : SendThrows(c, m)
             \/ \E i \in DOMAIN trip[c].path : AwaitThrows(c, i)
    BY <1>1, <1>2, <2>5 DEF DeclareThrows, AddThrows, SendThrows, AwaitThrows
  <2>6. CASE Prompt(c) \/ Store(c) \/ Answer(c)
    BY <1>1, <1>3, <2>6 DEF Prompt, Store, Answer
  <2>7. CASE Finish(c)
    BY <1>1, <1>2, <2>7 DEF Finish
  <2> QED
    BY <1>4, <2>1, <2>2, <2>3, <2>4, <2>5, <2>6, <2>7 DEF Progress, Fault
<1>5. CASE UNCHANGED vars
  BY <1>1, <1>5 DEF vars
<1> QED
  BY <1>4, <1>5 DEF Next

\* A node that may act for c now could do so before, unless c is early.
LEMMA LiveBefore ==
  ASSUME TypeInv, EntryKept, Onward, TypeOK', NEW m \in Nodes, NEW c \in Calls,
         pc[c] \notin Early, Live(m, c)'
  PROVE  Live(m, c)
<1>1. Known(m, c) /\ reg'[m][c].gen = reg[m][c].gen
  BY DEF EntryKept, Live, Known
<1>2. /\ reg[m][c].gen \in Nat /\ dead[c] \in Nat /\ dead'[c] \in Nat
      /\ dead'[c] >= dead[c]
  BY DEF TypeInv, TypeOK, Entry, Onward
<1>3. reg'[m][c].gen > dead'[c]
  BY <1>1, <1>2 DEF Live, TimedOut
<1> QED
  BY <1>1, <1>2, <1>3 DEF Live, TimedOut

\* The last node of a path that is still active is one of its signers.
LEMMA HereSigned ==
  ASSUME TypeInv, NEW c \in Calls, Len(trip[c].path) > 0
  PROVE  Here(c) \in Nodes /\ Here(c) \in Range(trip[c].path)
<1>1. trip[c].path \in Seq(Nodes) /\ Len(trip[c].path) \in Nat
  BY LenProperties DEF TypeInv, TypeOK, Trip
<1>2. Here(c) = trip[c].path[Len(trip[c].path)]
  BY DEF Here, Last
<1>3. Len(trip[c].path) \in 1 .. Len(trip[c].path)
  BY <1>1
<1> QED
  BY <1>1, <1>2, <1>3, RangeEquality, ElementOfSeq

LEMMA CopyInit == Init => CopyInv
<1> SUFFICES ASSUME Init, NEW c \in Calls PROVE TripInv(c) /\ AgreeInv(c)
  BY DEF CopyInv
<1>1. /\ trip[c] = [block |-> 0, path |-> <<>>, stage |-> "done",
                    left |-> {}, torn |-> {}]
      /\ Copies(c) = {} /\ pc[c] = "idle" /\ made = 0
  BY DEF Init, Copies
<1>2. Len(trip[c].path) = 0 /\ Range(trip[c].path) = {}
  BY <1>1 DEF Range
<1>3. ~Active(c)
  BY <1>1, <1>2 DEF Active
<1> QED
  BY <1>1, <1>2, <1>3 DEF TripInv, AgreeInv, Copied

LEMMA TripInvStep ==
  ASSUME TypeInv, CopyInv, [Next]_vars, NEW c \in Calls
  PROVE  TripInv(c)'
<1>0. /\ TripInv(c) /\ PcStep(c) /\ Onward
      /\ trip[c].block \in Nat /\ made \in Nat /\ made' \in Nat
  BY PcStepAlways, OnwardAlways, TypeStep DEF CopyInv, TypeInv, TypeOK, Trip
<1>1. CASE Untouched(c)
  <2>1. trip'[c] = trip[c] /\ Active(c)' = Active(c)
    BY <1>1 DEF Untouched, Active
  <2>2. trip'[c].block \in 0 .. made'
    BY <1>0, <2>1 DEF TripInv, Onward
  <2>3. Active(c) => pc[c] # "idle"
    BY <1>0 DEF TripInv, Early
  <2> QED
    BY <1>0, <2>1, <2>2, <2>3 DEF TripInv, PcStep
<1>2. CASE Packs(c)
  <2>1. Owner[c] \notin Down
    BY <1>0, <1>2 DEF Packs, TripInv
  <2>2. Range(<<Owner[c]>>) = {Owner[c]}
    <3> DEFINE q == <<Owner[c]>>
    <3>1. q \in Seq(Nodes) /\ Len(q) = 1 /\ q[1] = Owner[c]
      BY ConstantsOK
    <3>2. Range(q) = {q[i] : i \in 1 .. 1}
      BY <3>1, RangeEquality
    <3> QED
      BY <3>1, <3>2
  <2>3. trip'[c].block \in 0 .. made' /\ trip'[c].block # 0
    BY <1>0, <1>2 DEF Packs
  <2> QED
    BY <1>2, <2>1, <2>2, <2>3 DEF Packs, Departs, TripInv, Early
<1>3. ASSUME Active(c), trip'[c].block = trip[c].block,
             \A m \in Range(trip'[c].path) : m \in Range(trip[c].path) \/ m \notin Down
      PROVE  TripInv(c)'
  <2>1. pc[c] \notin Early /\ trip[c].block # 0
    BY <1>0, <1>3 DEF TripInv
  <2>2. trip'[c].block \in 0 .. made'
    BY <1>0, <1>3 DEF TripInv, Onward
  <2>3. Active(c)' => pc'[c] \notin Early
    BY <1>0, <2>1 DEF PcStep
  <2>4. pc'[c] \notin {"idle", "snapshot"}
    BY <1>0, <2>1 DEF PcStep, Early
  <2>5. Owner[c] \notin Down
    BY <1>0, <2>1 DEF TripInv, Early
  <2>6. Range(trip'[c].path) \intersect Down = {}
    BY <1>0, <1>3 DEF TripInv
  <2> QED
    BY <1>3, <2>1, <2>2, <2>3, <2>4, <2>5, <2>6 DEF TripInv
<1>4. CASE Wanders(c)
  BY <1>3, <1>4 DEF Wanders
<1>5. CASE StoresHere(c) \/ (\E m \in Nodes : StoresThere(c, m)) \/ Breaks(c)
  BY <1>3, <1>5 DEF StoresHere, StoresThere, Breaks, Stays, Active
<1> QED
  BY <1>1, <1>2, <1>4, <1>5, KindStepAlways DEF KindStep

LEMMA IdsStay ==
  ASSUME ChainStep, NEW n \in Nodes, NEW id, HasId(n, id)
  PROVE  \E b \in chain'[n] : b.id = id
BY DEF ChainStep, HasId

LEMMA CopiesStay ==
  ASSUME ChainStep, NEW c \in Calls
  PROVE  Copies(c) \subseteq Copies(c)'
BY DEF ChainStep, Copies

LEMMA NoNewCopies ==
  ASSUME NEW c \in Calls, NothingNew(c)
  PROVE  Copies(c)' \subseteq Copies(c)
BY DEF NothingNew, Copies

LEMMA CopiesAdded ==
  ASSUME TypeInv, NEW c \in Calls, NEW m \in Nodes, AddBlock(c, m)
  PROVE  /\ Copies(c)' = Copies(c) \union {TheBlock(c)}
         /\ \E b \in chain'[m] : b.id = trip[c].block
         /\ TheBlock(c).id = trip[c].block /\ TheBlock(c).type = job[c].type
         /\ TheBlock(c).keys = job[c].keys /\ TheBlock(c).prev = prev[c]
         /\ TheBlock(c).signedby = Range(trip[c].path) /\ TheBlock(c).call = c
<1> DEFINE b == TheBlock(c)
<1>1. /\ b.id = trip[c].block /\ b.type = job[c].type /\ b.keys = job[c].keys
      /\ b.prev = prev[c] /\ b.signedby = Range(trip[c].path) /\ b.call = c
  BY DEF TheBlock
<1> HIDE DEF b
<1>2. chain' = [chain EXCEPT ![m] = @ \union {b}] /\ chain \in [Nodes -> SUBSET Block]
  BY DEF AddBlock, TypeInv, TypeOK, b
<1>3. Copies(c)' = Copies(c) \union {b}
  BY <1>1, <1>2 DEF Copies
<1>4. b \in chain'[m]
  BY <1>2
<1> QED
  BY <1>1, <1>3, <1>4 DEF b

\* What all copies have in common is fixed once there are some.
LEMMA CopiesFixed ==
  ASSUME TypeInv, NEW c \in Calls, TripInv(c), AgreeInv(c), PcStep(c), JobsFixed,
         NEW b \in Copies(c)
  PROVE  /\ b.id \in Nat /\ b.id # 0 /\ b.id <= trip[c].block
         /\ b.type = job'[c].type /\ b.keys = job'[c].keys /\ b.prev = prev'[c]
<1>1. b.id \in 1 .. trip[c].block /\ trip[c].block \in Nat
  BY DEF AgreeInv, TypeInv, TypeOK, Trip
<1>2. pc[c] \notin {"idle", "snapshot"}
  BY <1>1 DEF TripInv
<1>3. job'[c] = job[c] /\ prev'[c] = prev[c]
  BY <1>2 DEF JobsFixed, PcStep
<1> QED
  BY <1>1, <1>3 DEF AgreeInv

\* No copy was made in this step, and the trip is not at "add" unless it was.
LEMMA AgreeKept ==
  ASSUME TypeInv, TypeInv', CopyInv, NEW c \in Calls, PcStep(c), JobsFixed, ChainStep,
         Copies(c)' \subseteq Copies(c), trip'[c].block = trip[c].block,
         trip'[c].stage = "add" => trip[c].stage = "add" /\ trip'[c].path = trip[c].path,
         Active(c)' /\ Copied(c) => Stuck(c)' \/ Settled(c)'
  PROVE  AgreeInv(c)'
<1>1. TripInv(c) /\ AgreeInv(c)
  BY DEF CopyInv
<1>2. Copies(c)' = Copies(c)
  BY CopiesStay
<1>3. Copied(c)' = Copied(c)
  BY <1>2 DEF Copied
<1>4. ASSUME NEW b \in Copies(c)
      PROVE  /\ b.id \in 1 .. trip'[c].block
             /\ b.type = job'[c].type /\ b.keys = job'[c].keys /\ b.prev = prev'[c]
             /\ trip'[c].stage = "add" /\ b.id = trip'[c].block
                  => b.signedby = Range(trip'[c].path)
  <2>1. b.id \in 1 .. trip'[c].block
    BY <1>1, <1>4 DEF AgreeInv
  <2>2. b.type = job'[c].type /\ b.keys = job'[c].keys /\ b.prev = prev'[c]
    BY <1>1, <1>4, CopiesFixed
  <2> QED
    BY <1>1, <2>1, <2>2 DEF AgreeInv
<1>5. \A a, b \in Copies(c) : a.id = b.id => a = b
  BY <1>1 DEF AgreeInv
<1>6. trip'[c].stage = "add" => Copied(c)'
  BY <1>1, <1>3 DEF AgreeInv
<1> QED
  BY <1>2, <1>3, <1>4, <1>5, <1>6 DEF AgreeInv

\* Settled nodes stay so, as long as those left are.
LEMMA SettledKept ==
  ASSUME TypeInv, TypeInv', NEW c \in Calls, ChainStep, EntryKept, Onward,
         pc[c] \notin Early, Settled(c), trip'[c].block = trip[c].block,
         trip[c].stage = "add" =>
           \A m \in trip[c].left :
             \/ trip'[c].stage = "add" /\ m \in trip'[c].left
             \/ Live(m, c)' /\ m \notin Keyless => \E b \in chain'[m] : b.id = trip[c].block
  PROVE  Settled(c)'
<1> SUFFICES ASSUME NEW m \in Nodes \ (Abnormal \union Keyless), Live(m, c)'
             PROVE  \/ HasId(m, trip[c].block)'
                    \/ trip'[c].stage = "add" /\ m \in trip'[c].left
  BY DEF Settled
<1>1. Live(m, c)
  BY LiveBefore DEF TypeInv
<1>2. HasId(m, trip[c].block) \/ (trip[c].stage = "add" /\ m \in trip[c].left)
  BY <1>1 DEF Settled
<1>3. ASSUME HasId(m, trip[c].block) PROVE HasId(m, trip[c].block)'
  <2>1. \E b \in chain'[m] : b.id = trip[c].block
    BY <1>3, IdsStay
  <2> QED
    BY <2>1 DEF HasId
<1>4. ASSUME trip[c].stage = "add", m \in trip[c].left
      PROVE  \/ HasId(m, trip[c].block)'
             \/ trip'[c].stage = "add" /\ m \in trip'[c].left
  BY <1>4 DEF HasId
<1> QED
  BY <1>2, <1>3, <1>4

LEMMA AgreeInvStep ==
  ASSUME TypeInv, SignedInv, CopyInv, [Next]_vars, NEW c \in Calls
  PROVE  AgreeInv(c)'
<1>0. /\ PcStep(c) /\ Onward /\ EntryKept /\ JobsFixed /\ ChainStep /\ TypeInv'
      /\ TripInv(c) /\ AgreeInv(c)
  BY PcStepAlways, OnwardAlways, EntryKeptAlways, JobsFixedStep, ChainStepAlways,
     TypeStep DEF CopyInv, TypeInv
<1>1. CASE Untouched(c)
  <2>1. trip'[c] = trip[c] /\ Active(c)' = Active(c) /\ NothingNew(c)
    BY <1>1 DEF Untouched, Active
  <2>2. ASSUME Active(c), Copied(c) PROVE Stuck(c)' \/ Settled(c)'
    <3>1. pc[c] \notin Early
      BY <1>0, <2>2 DEF TripInv
    <3>2. CASE Stuck(c)
      <4>1. broken'[c] = broken[c] /\ Here(c)' = Here(c)
        BY <1>1, <2>1, <3>1 DEF Untouched, Here
      <4> QED
        BY <1>0, <2>1, <3>2, <4>1 DEF Stuck, Onward
    <3>3. CASE Settled(c)
      BY <1>0, <2>1, <3>1, <3>3, SettledKept
    <3> QED
      BY <1>0, <2>2, <3>2, <3>3 DEF AgreeInv
  <2> QED
    BY <1>0, <2>1, <2>2, NoNewCopies, AgreeKept
<1>2. CASE Packs(c)
  <2>1. /\ chain' = chain /\ trip'[c].block = made + 1 /\ trip'[c].stage = "send"
        /\ trip[c].block \in 0 .. made /\ made \in Nat
    BY <1>0, <1>2 DEF Packs, Departs, TripInv, TypeInv, TypeOK
  <2>2. Copies(c)' = Copies(c)
    BY <2>1 DEF Copies
  <2>3. ASSUME NEW b \in Copies(c)
        PROVE  /\ b.id \in 1 .. trip'[c].block /\ b.id # trip'[c].block
               /\ b.type = job'[c].type /\ b.keys = job'[c].keys /\ b.prev = prev'[c]
    <3>1. /\ b.id \in Nat /\ b.id # 0 /\ b.id <= trip[c].block
          /\ b.type = job'[c].type /\ b.keys = job'[c].keys /\ b.prev = prev'[c]
      BY <1>0, <2>3, CopiesFixed
    <3> QED
      BY <2>1, <3>1
  <2>4. ~Copied(c)'
    BY <2>2, <2>3 DEF Copied
  <2>5. \A a, b \in Copies(c) : a.id = b.id => a = b
    BY <1>0 DEF AgreeInv
  <2> QED
    BY <2>1, <2>2, <2>3, <2>4, <2>5 DEF AgreeInv
<1>3. CASE Wanders(c)
  <2>1. NothingNew(c) /\ pc[c] \notin Early
    BY <1>0, <1>3 DEF Wanders, NothingNew, TripInv
  <2>2. ASSUME Copied(c) PROVE Settled(c)'
    <3>1. Settled(c)
      BY <1>0, <1>3, <2>2 DEF Wanders, AgreeInv
    <3> QED
      BY <1>0, <1>3, <2>1, <3>1, SettledKept DEF Wanders
  <2> QED
    BY <1>0, <1>3, <2>1, <2>2, NoNewCopies, AgreeKept DEF Wanders
<1>4. CASE StoresHere(c)
  <2> DEFINE h == Here(c)
             new == TheBlock(c)
  <2>1. h \in Nodes /\ h \in Range(trip[c].path)
    <3>1. Len(trip[c].path) > 1 /\ Len(trip[c].path) \in Nat
      BY <1>4, LenProperties DEF StoresHere, TypeInv, TypeOK, OnItsWay, Trip
    <3> QED
      BY <3>1, HereSigned
  <2>2. /\ trip[c].stage = "store" /\ AddBlock(c, h) /\ Storable(c, h)
        /\ trip'[c].block = trip[c].block /\ trip'[c].path = trip[c].path
        /\ trip'[c].stage = "add" /\ trip'[c].left = Recipients(c)
    BY <1>4 DEF StoresHere, Stays, AddBlock
  <2>3. Active(c) /\ pc[c] \notin Early /\ trip[c].block # 0 /\ trip[c].block \in Nat
    BY <1>0, <2>2 DEF Active, TripInv, TypeInv, TypeOK, Trip
  <2>4. h \notin Abnormal \union Keyless /\ Live(h, c) /\ ~HasId(h, trip[c].block)
    BY <1>0, <2>1, <2>2, ConstantsOK DEF TripInv, Storable, HasId
  <2>5. ~Copied(c)
    BY <1>0, <2>1, <2>2, <2>3, <2>4 DEF AgreeInv, Stuck, Settled
  <2>6. /\ Copies(c)' = Copies(c) \union {new}
        /\ new.id = trip[c].block /\ new.type = job[c].type
        /\ new.keys = job[c].keys /\ new.prev = prev[c]
        /\ new.signedby = Range(trip[c].path)
        /\ \E b \in chain'[h] : b.id = trip[c].block
    BY <2>1, <2>2, CopiesAdded
  <2>7. job'[c] = job[c] /\ prev'[c] = prev[c]
    BY <1>0, <2>3 DEF JobsFixed, PcStep, Early
  <2> HIDE DEF new
  <2>8. \A b \in Copies(c) :
          /\ b.id \in 1 .. trip'[c].block /\ b.id # trip'[c].block
          /\ b.type = job'[c].type /\ b.keys = job'[c].keys /\ b.prev = prev'[c]
    BY <1>0, <2>2, <2>5, <2>7 DEF AgreeInv, Copied
  <2>9. new.id \in 1 .. trip'[c].block
    BY <2>2, <2>3, <2>6
  <2>10. \A a, b \in Copies(c)' : a.id = b.id => a = b
    BY <1>0, <2>2, <2>6, <2>8 DEF AgreeInv
  <2>11. Copied(c)'
    BY <2>2, <2>6 DEF Copied
  <2>12. Settled(c)'
    <3> SUFFICES ASSUME NEW m \in Nodes \ (Abnormal \union Keyless)
                 PROVE  HasId(m, trip[c].block)' \/ m \in trip'[c].left
      BY <2>2 DEF Settled
    <3>1. CASE m = h
      <4>1. \E b \in chain'[m] : b.id = trip'[c].block
        BY <2>2, <2>6, <3>1
      <4> QED
        BY <4>1 DEF HasId
    <3>2. CASE m # h
      BY <2>2, <3>2 DEF Recipients
    <3> QED
      BY <3>1, <3>2
  <2> QED
    BY <2>2, <2>6, <2>7, <2>8, <2>9, <2>10, <2>11, <2>12 DEF AgreeInv
<1>5. ASSUME NEW m \in Nodes, StoresThere(c, m) PROVE AgreeInv(c)'
  <2> DEFINE new == TheBlock(c)
  <2>1. /\ trip[c].stage = "add" /\ trip'[c].stage = "add"
        /\ trip'[c].block = trip[c].block /\ trip'[c].path = trip[c].path
        /\ trip[c].left \ {m} \subseteq trip'[c].left
        /\ broken[c] => broken'[c]
    BY <1>5 DEF StoresThere, Stays
  <2>2. Active(c) /\ pc[c] \notin Early /\ Copied(c)
    BY <1>0, <2>1 DEF Active, TripInv, AgreeInv
  <2>3. ASSUME Live(m, c)', m \notin Keyless
        PROVE  \E b \in chain'[m] : b.id = trip[c].block
    <3>1. Live(m, c)
      BY <1>0, <2>2, <2>3, LiveBefore DEF TypeInv
    <3>2. CASE AddBlock(c, m)
      BY <3>2, CopiesAdded
    <3>3. CASE ~Storable(c, m) /\ chain' = chain
      BY <2>3, <3>1, <3>3 DEF Storable
    <3> QED
      BY <1>5, <3>2, <3>3 DEF StoresThere
  <2>4. Stuck(c)' \/ Settled(c)'
    <3>1. CASE Stuck(c)
      BY <2>1, <3>1 DEF Stuck
    <3>2. CASE Settled(c)
      BY <1>0, <2>1, <2>2, <2>3, <3>2, SettledKept
    <3> QED
      BY <1>0, <2>2, <3>1, <3>2 DEF AgreeInv
  <2>5. CASE chain' = chain
    <3>1. NothingNew(c)
      BY <2>5 DEF NothingNew
    <3> QED
      BY <1>0, <2>1, <2>4, <3>1, NoNewCopies, AgreeKept
  <2>6. CASE AddBlock(c, m)
    <3>1. /\ Copies(c)' = Copies(c) \union {new}
          /\ new.id = trip[c].block /\ new.type = job[c].type
          /\ new.keys = job[c].keys /\ new.prev = prev[c]
          /\ new.signedby = Range(trip[c].path) /\ new.call = c
      BY <2>6, CopiesAdded
    <3>2. new \in Block
      BY TheBlockType DEF TypeInv
    <3>3. job'[c] = job[c] /\ prev'[c] = prev[c]
      BY <1>0, <2>2 DEF JobsFixed, PcStep, Early
    <3> HIDE DEF new
    <3>4. ASSUME NEW b \in Copies(c), b.id = trip[c].block PROVE b = new
      <4>1. b \in Block /\ b.call = c
        BY <3>4 DEF Copies, TypeInv, TypeOK
      <4>2. /\ b.type = job[c].type /\ b.keys = job[c].keys /\ b.prev = prev[c]
            /\ b.signedby = Range(trip[c].path)
        BY <1>0, <2>1, <3>4 DEF AgreeInv
      <4> QED
        BY <3>1, <3>2, <3>4, <4>1, <4>2 DEF Block
    <3>5. new \in Copies(c)
      BY <2>2, <3>4 DEF Copied
    <3>6. Copies(c)' = Copies(c)
      BY <3>1, <3>5
    <3> QED
      BY <1>0, <2>1, <2>4, <3>6, AgreeKept
  <2> QED
    BY <1>5, <2>5, <2>6 DEF StoresThere
<1>6. CASE Breaks(c)
  <2>1. NothingNew(c)
    BY <1>6 DEF Breaks, NothingNew
  <2>2. Here(c)' = Here(c)
    BY <1>6 DEF Breaks, Stays, Here
  <2>3. Stuck(c)'
    BY <1>6, <2>2 DEF Breaks, Stuck
  <2> QED
    BY <1>0, <1>6, <2>1, <2>3, NoNewCopies, AgreeKept DEF Breaks, Stays
<1> QED
  BY <1>1, <1>2, <1>3, <1>4, <1>5, <1>6, KindStepAlways DEF KindStep

\* All copies of a block on all nodes are the same, signatures included: though
\* a repeated request may have the block signed along two paths, the second is
\* never stored, for by then every node that could store it holds the first.
THEOREM CopiesTheSame == Spec => []CopiesAgree
<1>1. Init => TypeInv /\ SignedInv /\ CopyInv
  BY TypeInit, SignedInit, CopyInit
<1>2. TypeInv /\ SignedInv /\ CopyInv /\ [Next]_vars
        => TypeInv' /\ SignedInv' /\ CopyInv'
  BY TypeStep, SignedStep, TripInvStep, AgreeInvStep DEF CopyInv
<1>3. CopyInv => CopiesAgree
  BY DEF CopyInv, AgreeInv, CopiesAgree
<1> QED
  BY <1>1, <1>2, <1>3, PTL DEF Spec
-----------------------------------------------------------------------------
(* While no deadline passes, overlapping calls never both pack a block *)

\* Any two nodes have a third one that both ask.
ThirdNode == \A m, n \in Nodes : \E k \in Nodes \ Abnormal : k # m /\ k # n

\* The nodes whose consent c needs.
Voters(c) == Nodes \ ({Owner[c]} \union Abnormal)

\* The nodes that c has asked without hearing a refusal know it.
Told(c) ==
  Won(c) \/ (pc[c] = "declare" /\ ~broken[c] /\ ~refused[c]) =>
    \A m \in Voters(c) : Known(m, c) \/ (~Won(c) /\ m \in asked[c])

ExclusiveInv ==
  /\ \A c \in Calls : dead[c] = 0
  /\ \A m \in Nodes, c \in Calls : Known(m, c) => reg[m][c].gen > 0
  /\ \A c \in Calls :
       /\ pc[c] = "declare" => attempt[c] > 0
       /\ pc[c] = "spin" => Known(Owner[c], c)
       /\ pc[c] \in {"idle", "snapshot", "declare"} => ~Won(c)
       /\ \A b \in Copies(c) : b.id = trip[c].block
       /\ Told(c)

\* Registrations stay: a node forgets only its own call, and when that ends.
Registered ==
  \A m \in Nodes, c \in Calls :
    /\ Known(m, c) => Known(m, c)' \/ (m = Owner[c] /\ pc'[c] \in Ended)
    /\ Known(m, c)' => reg'[m][c].gen > 0

LEMMA RegisteredUpdate ==
  ASSUME TypeInv, ExclusiveInv, NEW c \in Calls, NEW m \in Nodes, NEW e \in Entry,
         reg' = [reg EXCEPT ![m][c] = e],
         e.state = "absent" => m = Owner[c] /\ pc'[c] \in Ended,
         e.state # "absent" => e.gen > 0
  PROVE  Registered
<1>1. \A n \in Nodes, d \in Calls :
        reg'[n][d] = IF n = m /\ d = c THEN e ELSE reg[n][d]
  BY DEF TypeInv, TypeOK
<1> QED
  BY <1>1 DEF Registered, Known, ExclusiveInv

LEMMA RegisteredDeclare ==
  ASSUME TypeInv, ExclusiveInv, NEW c \in Calls, NEW kept \in BOOLEAN,
         Declare(c, kept), kept => Known(Owner[c], c)
  PROVE  Registered
<1> DEFINE table == SetUp(c, kept)
           n == Owner[c]
<1>1. n \in Nodes /\ reg \in [Nodes -> [Calls -> Entry]] /\ attempt[c] + 1 > 0
  BY ConstantsOK DEF TypeInv, TypeOK
<1>2. \/ reg' = [reg EXCEPT ![n] = table]
      \/ /\ reg' = [reg EXCEPT ![n] = [table EXCEPT ![c] = NoEntry]]
         /\ pc'[c] \in Ended
  BY DEF Declare, TypeInv, TypeOK, Ended
<1>3. table \in [Calls -> Entry]
  BY SetUpType DEF TypeInv
<1>4. ASSUME NEW d \in Calls \ {c}
      PROVE  Known(n, d) => table[d] = reg[n][d]
  <2>1. Known(n, d) => reg[n][d].gen > 0 /\ dead[d] = 0 /\ reg[n][d].gen \in Nat
    BY <1>1 DEF ExclusiveInv, Entry
  <2>2. Known(n, d) => ~TimedOut(n, d)
    BY <2>1 DEF TimedOut
  <2> QED
    BY <2>2 DEF SetUp
<1>5. ASSUME NEW d \in Calls \ {c}
      PROVE  table[d].state # "absent" => table[d] = reg[n][d]
  BY DEF SetUp, NoEntry
<1>6. table[c].state # "absent" /\ table[c].gen > 0
  <2>1. reg[n][c] \in Entry /\ attempt[c] + 1 \in Nat
    BY <1>1 DEF TypeInv, TypeOK
  <2>2. CASE kept
    <3>1. table[c] = [reg[n][c] EXCEPT !.gen = attempt[c] + 1]
      BY <2>2 DEF SetUp
    <3> QED
      BY <1>1, <2>1, <2>2, <3>1 DEF Entry, Known
  <2>3. CASE ~kept
    <3>1. table[c] = [state |-> "preparation", stored |-> FALSE, gen |-> attempt[c] + 1]
      BY <2>3 DEF SetUp
    <3> QED
      BY <1>1, <3>1
  <2> QED
    BY <2>2, <2>3
<1> HIDE DEF table
<1> SUFFICES ASSUME NEW m \in Nodes, NEW d \in Calls
             PROVE  /\ Known(m, d) => Known(m, d)' \/ (m = Owner[d] /\ pc'[d] \in Ended)
                    /\ Known(m, d)' => reg'[m][d].gen > 0
  BY DEF Registered
<1>7. CASE m # n
  <2>1. reg'[m][d] = reg[m][d]
    BY <1>1, <1>2, <1>7
  <2> QED
    BY <2>1 DEF Known, ExclusiveInv
<1>8. CASE m = n /\ d # c
  <2>1. reg'[m][d] = table[d]
    BY <1>1, <1>2, <1>3, <1>8
  <2> QED
    BY <1>4, <1>5, <1>8, <2>1 DEF Known, ExclusiveInv
<1>9. CASE m = n /\ d = c
  <2>1. reg'[m][d] = table[c] \/ (reg'[m][d] = NoEntry /\ pc'[c] \in Ended)
    BY <1>1, <1>2, <1>3, <1>9
  <2> QED
    BY <1>6, <1>9, <2>1 DEF Known, NoEntry
<1> QED
  BY <1>7, <1>8, <1>9

LEMMA RegisteredAlways ==
  ASSUME TypeInv, ExclusiveInv, [Next]_vars
  PROVE  Registered
<1>0. /\ NoEntry \in Entry /\ NoEntry.state = "absent"
      /\ \A m \in Nodes, c \in Calls : reg[m][c] \in Entry
      /\ \A c \in Calls : Owner[c] \in Nodes /\ attempt[c] \in Nat
  BY ConstantsOK DEF NoEntry, Entry, TypeInv, TypeOK
<1>1. CASE reg' = reg
  BY <1>1 DEF Registered, Known, ExclusiveInv
<1>2. ASSUME NEW c \in Calls, NEW how \in Ended, EndCall(c, how)
      PROVE  Registered
  <2>1. reg' = [reg EXCEPT ![Owner[c]][c] = NoEntry] /\ pc'[c] \in Ended
    BY <1>2 DEF EndCall, TypeInv, TypeOK
  <2> QED
    BY <1>0, <2>1, RegisteredUpdate
<1>3. ASSUME NEW c \in Calls, NEW m \in Nodes, Known(m, c),
             NEW st \in {"underway", "arrived"}, reg' = [reg EXCEPT ![m][c].state = st]
      PROVE  Registered
  <2> DEFINE e == [reg[m][c] EXCEPT !.state = st]
  <2>1. reg[m][c] \in Entry /\ reg[m][c].gen > 0
    BY <1>0, <1>3 DEF ExclusiveInv
  <2>2. e \in Entry /\ e.gen > 0 /\ e.state # "absent"
    BY <2>1 DEF Entry
  <2>3. reg' = [reg EXCEPT ![m][c] = e]
    BY <1>3
  <2> HIDE DEF e
  <2> QED
    BY <2>2, <2>3, RegisteredUpdate
<1>4. ASSUME NEW c \in Calls, NEW m \in Nodes, NEW answered \in BOOLEAN,
             ReceiveAdd(c, m, answered)
      PROVE  Registered
  <2> DEFINE e == [reg[m][c] EXCEPT !.state = "arrived", !.stored = TRUE]
  <2>1. \/ Known(m, c) /\ reg' = [reg EXCEPT ![m][c] = e]
        \/ Known(m, c) /\ reg' = [reg EXCEPT ![m][c].state = "arrived"]
        \/ reg' = reg
    BY <1>4 DEF ReceiveAdd, AddBlock, Storable, Live
  <2>2. reg[m][c] \in Entry /\ (Known(m, c) => reg[m][c].gen > 0)
    BY <1>0 DEF ExclusiveInv
  <2>3. e \in Entry /\ e.gen = reg[m][c].gen /\ e.state # "absent"
    BY <2>2 DEF Entry
  <2> HIDE DEF e
  <2> QED
    BY <1>1, <1>3, <2>1, <2>2, <2>3, RegisteredUpdate
<1>5. ASSUME NEW c \in Calls, NEW m \in Nodes, NEW answered \in BOOLEAN,
             ReceiveDeclare(c, m, answered)
      PROVE  Registered
  <2> DEFINE e == [reg[m][c] EXCEPT !.gen = attempt[c]]
             f == [state |-> "underway", stored |-> FALSE, gen |-> attempt[c]]
  <2>1. reg[m][c] \in Entry /\ attempt[c] \in Nat /\ attempt[c] > 0
    BY <1>0, <1>5 DEF ReceiveDeclare, ExclusiveInv
  <2>2. /\ e \in Entry /\ e.state = reg[m][c].state /\ e.gen > 0
        /\ f \in Entry /\ f.state # "absent" /\ f.gen > 0
    BY <2>1 DEF Entry
  <2>3. \/ reg' = reg
        \/ Known(m, c) /\ reg' = [reg EXCEPT ![m][c] = e]
        \/ reg' = [reg EXCEPT ![m][c] = f]
    BY <1>5 DEF ReceiveDeclare
  <2> HIDE DEF e, f
  <2> QED
    BY <1>1, <2>2, <2>3, RegisteredUpdate DEF Known
<1>6. ASSUME NEW c \in Calls, Start(c) \/ Progress(c) \/ Fault(c)
      PROVE  Registered
  <2>1. CASE Start(c) \/ Prompt(c) \/ Store(c) \/ Answer(c)
    BY <1>1, <2>1 DEF Start, StartData, StartParcel, Prompt, Store, Answer
  <2>2. CASE Begin(c)
    BY <2>2, RegisteredDeclare DEF Begin
  <2>3. ASSUME NEW kept \in BOOLEAN, Retransmit(c, kept) PROVE Registered
    BY <2>3, RegisteredDeclare DEF Retransmit, ExclusiveInv
  <2>4. CASE DeclareFailed(c) \/ Finish(c)
    BY <1>1, <1>2, <2>4 DEF DeclareFailed, Finish, Ended
  <2>5. CASE \/ \E m \in Nodes : \/ DeclareGiveUp(c, m)
                              \/ SendThrows(c, m)
                              \/ AddGiveUp(c, m)
             \/ DeclareThrows(c)
             \/ AddThrows(c)
             \/ \E i \in DOMAIN trip[c].path : AwaitThrows(c, i)
    BY <1>1, <2>5 DEF DeclareGiveUp, SendThrows, AddGiveUp, DeclareThrows,
       AddThrows, AwaitThrows
  <2>6. CASE AnswerLost(c) \/ Timeout(c)
    BY <1>1, <2>6 DEF AnswerLost, Timeout
  <2>7. CASE \E m \in Nodes : Sign(c, m)
    BY <1>3, <2>7 DEF Sign, Live
  <2>8. CASE DeclareAccepted(c)
    BY <1>0, <1>3, <2>8 DEF DeclareAccepted, Live
  <2> QED
    BY <1>4, <1>5, <1>6, <2>1, <2>2, <2>3, <2>4, <2>5, <2>6, <2>7, <2>8
    DEF Progress, Fault
<1> QED
  BY <1>1, <1>6 DEF Next, vars

LEMMA NoneExpires ==
  ASSUME TypeInv, ExclusiveInv, MaxExpiries = 0, [Next]_vars
  PROVE  dead' = dead
<1>1. expiries = 0
  BY DEF TypeInv, TypeOK
<1>2. ASSUME NEW c \in Calls PROVE ~Timeout(c)
  BY <1>1 DEF Timeout
<1>3. ASSUME NEW c \in Calls, Start(c) \/ Progress(c) \/ Fault(c)
      PROVE  dead' = dead
  <2>1. CASE Start(c)
    BY <2>1 DEF Start, StartData, StartParcel
  <2>2. CASE Begin(c) \/ \E kept \in BOOLEAN : Retransmit(c, kept)
    BY <2>2 DEF Begin, Retransmit
  <2>3. CASE \E m \in Nodes : \/ \E a \in BOOLEAN : \/ ReceiveDeclare(c, m, a)
                                             \/ ReceiveAdd(c, m, a)
                           \/ DeclareGiveUp(c, m)
                           \/ AddGiveUp(c, m)
                           \/ Sign(c, m)
                           \/ SendThrows(c, m)
    BY <2>3 DEF ReceiveDeclare, ReceiveAdd, DeclareGiveUp, AddGiveUp, Sign, SendThrows
  <2>4. CASE \/ DeclareThrows(c) \/ DeclareFailed(c) \/ DeclareAccepted(c)
             \/ Prompt(c) \/ Store(c) \/ AddThrows(c)
    BY <2>4 DEF DeclareThrows, DeclareFailed, DeclareAccepted, Prompt, Store, AddThrows
  <2>5. CASE \/ Answer(c) \/ AnswerLost(c) \/ Finish(c)
             \/ \E i \in DOMAIN trip[c].path : AwaitThrows(c, i)
    BY <2>5 DEF Answer, AnswerLost, Finish, AwaitThrows
  <2> QED
    BY <1>2, <1>3, <2>1, <2>2, <2>3, <2>4, <2>5 DEF Progress, Fault
<1> QED
  BY <1>3 DEF Next, vars

\* As long as no deadline passes no call starts a second round.
LEMMA NoRetransmit ==
  ASSUME TypeInv, ExclusiveInv, NEW c \in Calls, NEW kept \in BOOLEAN
  PROVE  ~Retransmit(c, kept)
<1>1. Owner[c] \in Nodes /\ reg[Owner[c]][c].gen \in Nat
  BY ConstantsOK DEF TypeInv, TypeOK, Entry
<1>2. pc[c] = "spin" => reg[Owner[c]][c].gen > 0 /\ dead[c] = 0
  BY <1>1 DEF ExclusiveInv
<1> QED
  BY <1>1, <1>2 DEF Retransmit, TimedOut

\* What a step does to a declaration under way.
Asking(c) ==
  pc'[c] = "declare" =>
    \/ asked'[c] = Voters(c) /\ attempt'[c] > 0 /\ pc[c] = "snapshot"
    \/ /\ pc[c] = "declare" /\ attempt'[c] = attempt[c]
       /\ \/ broken'[c]
          \/ refused'[c]
          \/ /\ ~broken[c] /\ ~refused[c]
             /\ \A m \in asked[c] : m \in asked'[c] \/ Known(m, c)'

LEMMA AskingAlways ==
  ASSUME TypeInv, CopyInv, ExclusiveInv, [Next]_vars, NEW c \in Calls
  PROVE  Asking(c)
<1>0. /\ pc \in [Calls -> PCs]
      /\ attempt \in [Calls -> Nat] /\ asked \in [Calls -> SUBSET Nodes]
      /\ refused \in [Calls -> BOOLEAN] /\ broken \in [Calls -> BOOLEAN]
  BY DEF TypeInv, TypeOK
<1>1. ASSUME pc'[c] = "declare" => pc[c] = "declare",
             asked' = asked, refused' = refused, attempt' = attempt,
             broken'[c] \/ broken'[c] = broken[c]
      PROVE  Asking(c)
  BY <1>0, <1>1 DEF Asking
<1>2. ASSUME NEW d \in Calls, Start(d) \/ Progress(d) \/ Fault(d)
      PROVE  Asking(c)
  <2>0. d # c => pc'[c] = pc[c] /\ broken'[c] = broken[c]
    BY <1>2, PcElsewhere, BrokenElsewhere
  <2>1. CASE Start(d)
    BY <1>0, <1>1, <2>1 DEF Start, StartData, StartParcel
  <2>2. CASE Begin(d)
    <3>1. CASE d = c
      <4>1. attempt'[c] > 0 /\ pc[c] = "snapshot"
        BY <1>0, <2>2, <3>1 DEF Begin, Declare
      <4>2. pc'[c] = "declare" => asked'[c] = Voters(c)
        BY <1>0, <2>2, <3>1 DEF Begin, Declare, Voters
      <4> QED
        BY <4>1, <4>2 DEF Asking
    <3>2. CASE d # c
      BY <1>0, <2>0, <2>2, <3>2 DEF Begin, Declare, Asking
    <3> QED
      BY <3>1, <3>2
  <2>3. ASSUME NEW m \in Nodes, NEW a \in BOOLEAN, ReceiveDeclare(d, m, a)
        PROVE  Asking(c)
    <3>1. CASE d = c
      <4>0. c \in Calls /\ m \in Nodes /\ pc' = pc /\ attempt' = attempt /\ m \in asked[c]
        BY <2>3, <3>1 DEF ReceiveDeclare
      <4>1. CASE ~a
        BY <1>0, <2>3, <3>1, <4>0, <4>1 DEF ReceiveDeclare, Asking
      <4>2. CASE a /\ ~Known(m, c) /\ Conflict(c, m)
        BY <1>0, <2>3, <3>1, <4>0, <4>2 DEF ReceiveDeclare, Asking
      <4>3. CASE a /\ ~(~Known(m, c) /\ Conflict(c, m))
        <5>1. /\ refused' = refused /\ broken' = broken
              /\ asked'[c] = asked[c] \ {m}
          BY <1>0, <2>3, <3>1, <4>3 DEF ReceiveDeclare
        <5>2. Known(m, c)'
          <6>1. \/ Known(m, c) /\ reg' = [reg EXCEPT ![m][c].gen = attempt[c]]
                \/ reg' = [reg EXCEPT ![m][c] = [state |-> "underway", stored |-> FALSE,
                                                gen |-> attempt[c]]]
            BY <2>3, <3>1, <4>3 DEF ReceiveDeclare
          <6>2. reg \in [Nodes -> [Calls -> Entry]] /\ reg[m][c] \in Entry
            BY <4>0 DEF TypeInv, TypeOK
          <6>3. \/ reg'[m][c].state = "underway"
                \/ Known(m, c) /\ reg'[m][c].state = reg[m][c].state
            BY <4>0, <6>1, <6>2 DEF Entry
          <6> QED
            BY <6>3 DEF Known
        <5> QED
          BY <1>0, <4>0, <5>1, <5>2 DEF Asking
      <4> QED
        BY <4>1, <4>2, <4>3
    <3>2. CASE d # c
      BY <1>0, <2>0, <2>3, <3>2 DEF ReceiveDeclare, Asking
    <3> QED
      BY <3>1, <3>2
  <2>4. ASSUME NEW m \in Nodes, DeclareGiveUp(d, m) PROVE Asking(c)
    BY <1>0, <2>0, <2>4 DEF DeclareGiveUp, Asking
  <2>5. CASE DeclareThrows(d) \/ DeclareFailed(d) \/ DeclareAccepted(d)
    <3>1. pc'[d] # "declare"
      BY <1>0, <2>5 DEF DeclareThrows, DeclareFailed, DeclareAccepted, OwnerThrows, EndCall
    <3> QED
      BY <1>1, <2>0, <2>5, <3>1 DEF DeclareThrows, DeclareFailed, DeclareAccepted
  <2>6. ASSUME asked' = asked, refused' = refused, attempt' = attempt,
               broken'[d] \/ broken'[d] = broken[d],
               pc'[d] = pc[d] \/ pc'[d] # "declare"
        PROVE  Asking(c)
    BY <1>1, <2>0, <2>6
  <2>7. ASSUME NEW st \in {"send", "done"}, Return(d, st)
        PROVE  pc'[d] = pc[d] \/ pc'[d] # "declare"
    BY <2>7, ThrowsPc DEF Return
  <2>8. CASE Store(d)
    <3>1. CASE UNCHANGED broken
      BY <2>6, <2>7, <2>8, <3>1 DEF Store
    <3>2. CASE pc' = pc
      <4>1. pc[d] # "declare"
        BY <2>8 DEF Store, CopyInv, TripInv, Active, Early
      <4> QED
        BY <2>0, <2>6, <2>8, <3>2, <4>1, <1>0 DEF Store, Asking
    <3> QED
      BY <2>8, <3>1, <3>2 DEF Store
  <2>9. CASE Prompt(d) \/ Answer(d)
    BY <2>6, <2>7, <2>9 DEF Prompt, Answer
  <2>10. CASE \/ AddThrows(d) \/ (\E m \in Nodes : SendThrows(d, m))
              \/ \E i \in DOMAIN trip[d].path : AwaitThrows(d, i)
    BY <2>6, <2>10, ThrowsPc DEF AddThrows, SendThrows, AwaitThrows
  <2>11. CASE \E m \in Nodes : \/ \E a \in BOOLEAN : ReceiveAdd(d, m, a)
                            \/ AddGiveUp(d, m)
                            \/ Sign(d, m)
    BY <1>0, <2>6, <2>11 DEF ReceiveAdd, AddGiveUp, Sign
  <2>12. CASE AnswerLost(d) \/ Timeout(d)
    BY <2>6, <2>12 DEF AnswerLost, Timeout
  <2>13. CASE Finish(d)
    BY <1>0, <2>6, <2>13 DEF Finish, OwnerThrows, EndCall
  <2> QED
    BY <1>2, <2>1, <2>2, <2>3, <2>4, <2>5, <2>8, <2>9, <2>10, <2>11, <2>12, <2>13,
       NoRetransmit DEF Progress, Fault
<1>3. CASE UNCHANGED vars
  BY <1>1, <1>3 DEF vars
<1> QED
  BY <1>2, <1>3 DEF Next

\* A call that is early in its course stays so until it packs a block, and one
\* that waits for its deadline is registered at its own node.
LEMMA EarlyBefore ==
  ASSUME TypeInv, CopyInv, ExclusiveInv, [Next]_vars, NEW c \in Calls
  PROVE  /\ pc'[c] \in {"idle", "snapshot", "declare"}
              => pc[c] \in {"idle", "snapshot", "declare"}
         /\ pc'[c] = "snapshot" => pc[c] = "snapshot" \/ Start(c)
         /\ pc'[c] = "spin" => Known(Owner[c], c)
<1>0. pc \in [Calls -> PCs]
  BY DEF TypeInv, TypeOK
<1>1. CASE pc'[c] = pc[c]
  BY <1>1 DEF ExclusiveInv
<1>2. CASE pc'[c] \in Ended \union {"travel"}
  BY <1>2 DEF Ended
<1>3. CASE Start(c)
  BY <1>0, <1>3 DEF Start, StartData, StartParcel
<1>4. CASE Begin(c)
  BY <1>0, <1>4 DEF Begin, Declare
<1>5. CASE DeclareThrows(c) \/ DeclareFailed(c) \/ DeclareAccepted(c)
  BY <1>0, <1>2, <1>5 DEF DeclareThrows, DeclareFailed, DeclareAccepted, OwnerThrows,
     EndCall, Ended
<1>6. ASSUME NEW st \in {"send", "done"}, Return(c, st)
      PROVE  pc'[c] = pc[c] \/ pc'[c] \in Ended
  BY <1>6, ThrowsPc DEF Return, Ended
<1>7. CASE \/ Prompt(c) \/ Store(c) \/ Answer(c) \/ AddThrows(c)
           \/ (\E m \in Nodes : SendThrows(c, m))
           \/ \E i \in DOMAIN trip[c].path : AwaitThrows(c, i)
  <2>1. pc'[c] = pc[c] \/ pc'[c] \in Ended
    BY <1>6, <1>7, ThrowsPc DEF Prompt, Store, Answer, AddThrows, SendThrows,
       AwaitThrows, Ended
  <2> QED
    BY <1>1, <1>2, <2>1
<1>8. CASE \/ \E m \in Nodes : \/ \E a \in BOOLEAN : \/ ReceiveDeclare(c, m, a)
                                              \/ ReceiveAdd(c, m, a)
                            \/ DeclareGiveUp(c, m)
                            \/ AddGiveUp(c, m)
                            \/ Sign(c, m)
           \/ AnswerLost(c) \/ Timeout(c)
  BY <1>1, <1>8 DEF ReceiveDeclare, ReceiveAdd, DeclareGiveUp, AddGiveUp, Sign,
     AnswerLost, Timeout
<1>9. CASE Finish(c)
  <2>1. CASE pc'[c] = "spin"
    <3>1. ~OwnerThrows(c) /\ ~EndCall(c, "blocked") /\ ~EndCall(c, "failed")
      BY <1>0, <2>1 DEF OwnerThrows, EndCall
    <3> QED
      BY <1>9, <2>1, <3>1 DEF Finish, Known
  <2>2. pc'[c] \in Ended \union {"spin"}
    BY <1>0, <1>9 DEF Finish, OwnerThrows, EndCall, Ended
  <2> QED
    BY <1>2, <2>1, <2>2
<1>10. CASE UNCHANGED vars
  BY <1>1, <1>10 DEF vars
<1>11. ASSUME NEW d \in Calls, d # c, Start(d) \/ Progress(d) \/ Fault(d)
       PROVE  pc'[c] = pc[c]
  BY <1>11, PcElsewhere
<1>12. CASE Start(c) \/ Progress(c) \/ Fault(c)
  BY <1>3, <1>4, <1>5, <1>7, <1>8, <1>9, <1>12, NoRetransmit DEF Progress, Fault
<1> QED
  BY <1>1, <1>10, <1>11, <1>12 DEF Next

LEMMA ExclusiveInit == Init => ExclusiveInv
<1> SUFFICES ASSUME Init PROVE ExclusiveInv
  OBVIOUS
<1>1. \A m \in Nodes, c \in Calls : ~Known(m, c)
  BY DEF Init, Known, NoEntry
<1>2. ASSUME NEW c \in Calls
      PROVE  dead[c] = 0 /\ pc[c] = "idle" /\ ~Won(c) /\ Copies(c) = {}
  BY DEF Init, Won, Copies
<1> QED
  BY <1>1, <1>2 DEF ExclusiveInv, Told

\* Copies carry the id of the trip, for there is only one.
LEMMA IdsStep ==
  ASSUME TypeInv, CopyInv, ExclusiveInv, KindStep, NEW c \in Calls
  PROVE  \A b \in Copies(c)' : b.id = trip'[c].block
<1>0. \A b \in Copies(c) : b.id = trip[c].block
  BY DEF ExclusiveInv
<1>1. ASSUME trip'[c].block = trip[c].block, NothingNew(c)
      PROVE  \A b \in Copies(c)' : b.id = trip'[c].block
  BY <1>0, <1>1, NoNewCopies
<1>2. ASSUME NEW m \in Nodes, AddBlock(c, m), trip'[c].block = trip[c].block
      PROVE  \A b \in Copies(c)' : b.id = trip'[c].block
  BY <1>0, <1>2, CopiesAdded
<1>3. chain' = chain => NothingNew(c)
  BY DEF NothingNew
<1>4. CASE Packs(c)
  <2>1. trip[c].block = 0
    BY <1>4 DEF Packs, ExclusiveInv, Won
  <2>2. Copies(c) = {}
    BY <2>1 DEF CopyInv, AgreeInv
  <2> QED
    BY <1>3, <1>4, <2>2, NoNewCopies DEF Packs
<1>5. CASE Untouched(c) \/ Wanders(c) \/ Breaks(c)
  BY <1>1, <1>3, <1>5 DEF Untouched, Wanders, Breaks, Stays
<1>6. CASE StoresHere(c)
  <2>1. Here(c) \in Nodes
    <3>1. trip[c].path \in Seq(Nodes) /\ Len(trip[c].path) > 1
      BY <1>6 DEF StoresHere, TypeInv, TypeOK, OnItsWay, Trip
    <3>2. Len(trip[c].path) > 0
      BY <3>1, LenProperties
    <3> QED
      BY <3>2, HereSigned
  <2> QED
    BY <1>2, <1>6, <2>1 DEF StoresHere, Stays
<1>7. ASSUME NEW m \in Nodes, StoresThere(c, m)
      PROVE  \A b \in Copies(c)' : b.id = trip'[c].block
  BY <1>1, <1>2, <1>3, <1>7 DEF StoresThere, Stays
<1> QED
  BY <1>4, <1>5, <1>6, <1>7 DEF KindStep

LEMMA WonBefore ==
  ASSUME TypeInv, KindStep, NEW c \in Calls
  PROVE  trip'[c].block = trip[c].block \/ Packs(c)
BY DEF KindStep, Untouched, Wanders, StoresHere, StoresThere, Breaks, Stays

LEMMA ToldStep ==
  ASSUME TypeInv, CopyInv, ExclusiveInv, KindStep, Registered, NEW c \in Calls, Asking(c)
  PROVE  Told(c)'
<1>0. Told(c) /\ (pc[c] = "declare" => ~Won(c))
  BY DEF ExclusiveInv
<1>1. ASSUME NEW m \in Voters(c), Known(m, c) PROVE Known(m, c)'
  BY <1>1 DEF Registered, Voters
<1>2. CASE Won(c)'
  <2>1. \A m \in Voters(c) : Known(m, c)
    <3>1. CASE Won(c)
      BY <1>0, <3>1 DEF Told
    <3>2. CASE Packs(c)
      BY <1>0, <3>2 DEF Told, Packs
    <3> QED
      BY <1>2, <3>1, <3>2, WonBefore DEF Won
  <2> QED
    BY <1>1, <2>1 DEF Told, Voters
<1>3. CASE ~Won(c)' /\ pc'[c] = "declare" /\ ~broken'[c] /\ ~refused'[c]
  <2>1. CASE asked'[c] = Voters(c)
    BY <1>3, <2>1 DEF Told, Voters
  <2>2. CASE /\ pc[c] = "declare" /\ ~broken[c] /\ ~refused[c]
             /\ \A m \in asked[c] : m \in asked'[c] \/ Known(m, c)'
    <3>1. \A m \in Voters(c) : Known(m, c) \/ m \in asked[c]
      BY <1>0, <2>2 DEF Told
    <3> QED
      BY <1>1, <1>3, <2>2, <3>1 DEF Told, Voters
  <2> QED
    BY <1>3, <2>1, <2>2 DEF Asking
<1> QED
  BY <1>2, <1>3 DEF Told

LEMMA ExclusiveStep ==
  ASSUME TypeInv, CopyInv, ExclusiveInv, MaxExpiries = 0, [Next]_vars
  PROVE  ExclusiveInv'
<1>1. dead' = dead /\ KindStep /\ Registered /\ \A c \in Calls : Asking(c)
  BY NoneExpires, KindStepAlways, RegisteredAlways, AskingAlways
<1>2. ASSUME NEW c \in Calls
      PROVE  /\ dead'[c] = 0
             /\ pc'[c] = "declare" => attempt'[c] > 0
             /\ pc'[c] = "spin" => Known(Owner[c], c)'
             /\ pc'[c] \in {"idle", "snapshot", "declare"} => ~Won(c)'
             /\ \A b \in Copies(c)' : b.id = trip'[c].block
             /\ Told(c)'
  <2>1. dead'[c] = 0
    BY <1>1 DEF ExclusiveInv
  <2>2. pc'[c] = "declare" => attempt'[c] > 0
    BY <1>1 DEF Asking, ExclusiveInv
  <2>3. pc'[c] = "spin" => Known(Owner[c], c)'
    BY <1>1, EarlyBefore, ConstantsOK DEF Registered, Ended
  <2>4. pc'[c] \in {"idle", "snapshot", "declare"} => ~Won(c)'
    BY <1>1, EarlyBefore, WonBefore DEF Packs, ExclusiveInv, Won
  <2> QED
    BY <1>1, <2>1, <2>2, <2>3, <2>4, IdsStep, ToldStep
<1>3. \A m \in Nodes, c \in Calls : Known(m, c)' => reg'[m][c].gen > 0
  BY <1>1 DEF Registered
<1> QED
  BY <1>2, <1>3 DEF ExclusiveInv

\* Two calls that overlap never both pack a block: a third node has consented
\* to each.
Exclusive ==
  \A c, d \in Calls : c # d /\ Won(c) /\ Won(d) => ~Overlap(c, d)

LEMMA WonExclusive ==
  ASSUME ThirdNode, TypeInv, GrantInv, ExclusiveInv
  PROVE  Exclusive
<1> SUFFICES ASSUME NEW c \in Calls, NEW d \in Calls, c # d, Won(c), Won(d)
             PROVE  ~Overlap(c, d)
  BY DEF Exclusive
<1>1. Owner[c] \in Nodes /\ Owner[d] \in Nodes
  BY ConstantsOK
<1>2. PICK k \in Nodes \ Abnormal : k # Owner[c] /\ k # Owner[d]
  BY <1>1 DEF ThirdNode
<1>3. Known(k, c) /\ Known(k, d)
  BY <1>2 DEF ExclusiveInv, Told, Voters
<1> QED
  BY <1>2, <1>3 DEF GrantInv, NoDoubleGrant

LEMMA OneBlockEach ==
  ASSUME TypeInv, CopyInv, ExclusiveInv, Exclusive
  PROVE  AtMostOnce
<1> SUFFICES ASSUME NEW n \in Nodes, NEW a \in chain[n], NEW b \in chain[n],
                    a # b, a.type = b.type
             PROVE  a.keys \intersect b.keys = {}
  BY DEF AtMostOnce
<1>1. a.call \in Calls /\ b.call \in Calls
  BY DEF TypeInv, TypeOK, Block
<1>2. a \in Copies(a.call) /\ b \in Copies(b.call)
  BY DEF Copies
<1>3. a.call # b.call
  BY <1>1, <1>2 DEF ExclusiveInv, CopyInv, AgreeInv
<1>4. ASSUME NEW c \in Calls, NEW e \in Copies(c)
      PROVE  Won(c) /\ e.type = job[c].type /\ e.keys = job[c].keys
  BY <1>4 DEF CopyInv, AgreeInv, TripInv, Won
<1> QED
  BY <1>1, <1>2, <1>3, <1>4 DEF Exclusive, Overlap

\* No chain holds a transaction in two blocks, or two blocks that open or close
\* the same parcel, as long as no deadline passes and any two nodes have a third
\* one that answers both; whatever RPCs are lost, and whatever processes end.
THEOREM BlockedOnce ==
  ASSUME MaxExpiries = 0, ThirdNode
  PROVE  Spec => []AtMostOnce
<1> DEFINE Inv == TypeInv /\ SignedInv /\ GrantInv /\ CopyInv /\ ExclusiveInv
<1>1. Init => Inv
  BY TypeInit, SignedInit, GrantInit, CopyInit, ExclusiveInit
<1>2. Inv /\ [Next]_vars => Inv'
  <2> SUFFICES ASSUME Inv, [Next]_vars PROVE Inv'
    OBVIOUS
  <2>1. TypeInv' /\ SignedInv' /\ GrantInv'
    BY TypeStep, SignedStep, GrantStep DEF TypeInv
  <2>2. CopyInv'
    BY TripInvStep, AgreeInvStep DEF CopyInv
  <2>3. ExclusiveInv'
    BY ExclusiveStep
  <2> QED
    BY <2>1, <2>2, <2>3
<1>3. Inv => AtMostOnce
  BY WonExclusive, OneBlockEach
<1> QED
  BY <1>1, <1>2, <1>3, PTL DEF Spec
-----------------------------------------------------------------------------
(* Ca3 implements Blocking *)

Winners == {c \in Calls : Won(c)}

\* What a call is asked to block is something, and can be blocked.
JobOK(c) ==
  /\ ItemsOf(job[c].type, job[c].keys) \subseteq Items
  /\ Won(c) \/ pc[c] \in {"snapshot", "declare"} => job[c].keys # {}

\* There are as many block ids as calls that packed a block.
CountInv ==
  /\ made = Cardinality(Winners)
  /\ \A c \in Calls : JobOK(c)

LEMMA MadeStep ==
  ASSUME TypeInv, NEW c \in Calls, Start(c) \/ Progress(c) \/ Fault(c)
  PROVE  /\ made' = made \/ DeclareAccepted(c)
         /\ job' = job \/ Start(c)
<1>1. CASE Start(c)
  BY <1>1 DEF Start, StartData, StartParcel
<1>2. CASE Begin(c) \/ \E kept \in BOOLEAN : Retransmit(c, kept)
  BY <1>2 DEF Begin, Retransmit
<1>3. CASE \E m \in Nodes : \/ \E a \in BOOLEAN : \/ ReceiveDeclare(c, m, a)
                                           \/ ReceiveAdd(c, m, a)
                         \/ DeclareGiveUp(c, m)
                         \/ AddGiveUp(c, m)
                         \/ Sign(c, m)
                         \/ SendThrows(c, m)
  BY <1>3 DEF ReceiveDeclare, ReceiveAdd, DeclareGiveUp, AddGiveUp, Sign, SendThrows
<1>4. CASE \/ DeclareThrows(c) \/ DeclareFailed(c) \/ DeclareAccepted(c)
           \/ Prompt(c) \/ Store(c) \/ AddThrows(c)
  BY <1>4 DEF DeclareThrows, DeclareFailed, DeclareAccepted, Prompt, Store, AddThrows
<1>5. CASE \/ Answer(c) \/ AnswerLost(c) \/ Finish(c) \/ Timeout(c)
           \/ \E i \in DOMAIN trip[c].path : AwaitThrows(c, i)
  BY <1>5 DEF Answer, AnswerLost, Finish, Timeout, AwaitThrows
<1> QED
  BY <1>1, <1>2, <1>3, <1>4, <1>5 DEF Progress, Fault

LEMMA WinnersStep ==
  ASSUME TypeInv, ExclusiveInv, NEW c \in Calls, Start(c) \/ Progress(c) \/ Fault(c)
  PROVE  \/ Winners' = Winners /\ made' = made
         \/ Packs(c) /\ c \notin Winners /\ Winners' = Winners \union {c} /\ made' = made + 1
<1>1. \A d \in Calls \ {c} : Won(d)' = Won(d)
  BY StepElsewhere DEF Elsewhere, Untouched, Won
<1>2. CASE Packs(c)
  <2>1. ~Won(c) /\ Won(c)' /\ made' = made + 1
    BY <1>2 DEF Packs, ExclusiveInv, Won, TypeInv, TypeOK
  <2> QED
    BY <1>1, <1>2, <2>1 DEF Winners
<1>3. CASE ~Packs(c)
  <2>1. Won(c)' = Won(c)
    BY <1>3, OwnStep DEF Won, Untouched, Wanders, StoresHere, StoresThere, Breaks, Stays
  <2>2. ~DeclareAccepted(c)
    BY <1>3, ConstantsOK DEF DeclareAccepted, DeclareDone, Packs, Departs, TypeInv, TypeOK, Trip
  <2> QED
    BY <1>1, <2>1, <2>2, MadeStep DEF Winners
<1> QED
  BY <1>2, <1>3

LEMMA JobStep ==
  ASSUME TypeInv, CopyInv, ExclusiveInv, NEW c \in Calls, JobOK(c), [Next]_vars
  PROVE  JobOK(c)'
<1>0. job \in [Calls -> [type : Types, keys : SUBSET Keys]] /\ pool \in [Nodes -> SUBSET Txs]
  BY DEF TypeInv, TypeOK
<1>1. CASE job'[c] = job[c] /\ ~Start(c)
  <2>1. Won(c)' => Won(c) \/ pc[c] = "declare"
    BY KindStepAlways, WonBefore DEF Won, Packs
  <2>2. pc'[c] \in {"snapshot", "declare"} => pc[c] \in {"snapshot", "declare"}
    BY <1>1, EarlyBefore, AskingAlways DEF Asking
  <2> QED
    BY <1>1, <2>1, <2>2 DEF JobOK
<1>2. CASE StartData(c)
  <2>1. /\ job'[c] = [type |-> data, keys |-> pool[Owner[c]]]
        /\ pool[Owner[c]] # {} /\ pool[Owner[c]] \subseteq Txs
    BY <1>0, <1>2, ConstantsOK DEF StartData
  <2> QED
    BY <2>1 DEF JobOK, ItemsOf, Items
<1>3. ASSUME NEW p \in Parcels, StartParcel(c, p) PROVE JobOK(c)'
  <2>1. job'[c] = [type |-> p[1], keys |-> {p[2]}]
    BY <1>0, <1>3 DEF StartParcel
  <2>2. \A i \in {p[1]} \X {p[2]} : i = p
    BY ConstantsOK
  <2> QED
    BY <2>1, <2>2 DEF JobOK, ItemsOf, Items
<1>4. CASE ~Start(c)
  <2>1. ASSUME NEW d \in Calls, Start(d) \/ Progress(d) \/ Fault(d)
        PROVE  job'[c] = job[c]
    BY <1>0, <1>4, <2>1, MadeStep DEF Start, StartData, StartParcel
  <2>2. job'[c] = job[c]
    BY <2>1 DEF Next, vars
  <2> QED
    BY <1>1, <1>4, <2>2
<1> QED
  BY <1>2, <1>3, <1>4 DEF Start

LEMMA CountInit == Init => CountInv
<1> SUFFICES ASSUME Init PROVE CountInv
  OBVIOUS
<1>1. Winners = {} /\ made = 0
  BY DEF Init, Winners, Won
<1>2. ASSUME NEW c \in Calls PROVE JobOK(c)
  BY DEF Init, JobOK, ItemsOf, Won
<1> QED
  BY <1>1, <1>2, FS_EmptySet DEF CountInv

LEMMA CountStep ==
  ASSUME TypeInv, CopyInv, ExclusiveInv, CountInv, IsFiniteSet(Calls), [Next]_vars
  PROVE  CountInv'
<1>1. ASSUME NEW c \in Calls PROVE JobOK(c)'
  BY JobStep DEF CountInv
<1>2. IsFiniteSet(Winners)
  BY FS_Subset DEF Winners
<1>3. ASSUME NEW c \in Calls, Start(c) \/ Progress(c) \/ Fault(c)
      PROVE  made' = Cardinality(Winners')
  BY <1>2, <1>3, WinnersStep, FS_AddElement DEF CountInv
<1>4. ASSUME UNCHANGED vars PROVE made' = Cardinality(Winners')
  <2>1. Winners' = Winners /\ made' = made
    BY <1>4 DEF vars, Winners, Won
  <2> QED
    BY <2>1 DEF CountInv
<1> QED
  BY <1>1, <1>3, <1>4 DEF CountInv, Next

LEMMA BlockIdsSuffice ==
  ASSUME TypeInv, CopyInv, CountInv, IsFiniteSet(Calls), NEW c \in Calls, Won(c)
  PROVE  trip[c].block \in BlockIds
<1>1. trip[c].block \in 1 .. made
  BY DEF CopyInv, TripInv, Won, TypeInv, TypeOK
<1>2. made <= Cardinality(Calls) /\ Cardinality(Calls) \in Nat
  BY FS_Subset, FS_CardinalityType DEF CountInv, Winners
<1>3. made \in Nat /\ MaxAttempts \in Nat /\ MaxAttempts >= 1
  BY ConstantsOK DEF TypeInv, TypeOK
<1>4. \A k, a \in Nat : a >= 1 => k * a \in Nat /\ k <= k * a
  <2> SUFFICES ASSUME NEW k \in Nat, NEW a \in Nat, a >= 1
               PROVE  k * a \in Nat /\ k <= k * a
    OBVIOUS
  <2>1. PICK e \in Nat : a = e + 1
    <3> WITNESS a - 1 \in Nat
    <3> QED
      OBVIOUS
  <2>2. k * (e + 1) = k * e + k /\ k * e \in Nat
    OBVIOUS
  <2> QED
    BY <2>1, <2>2
<1> QED
  BY <1>1, <1>2, <1>3, <1>4 DEF BlockIds

\* What is claimed, pair by pair.
LEMMA ClaimedPairs ==
  ASSUME NEW c \in Calls, NEW i
  PROVE  <<i, c>> \in claimedBar <=> Won(c) /\ i \in ItemsOf(job[c].type, job[c].keys)
BY DEF claimedBar

\* A call that packs a block claims what it was asked for, which is free.
LEMMA PacksClaims ==
  ASSUME TypeInv, CopyInv, ExclusiveInv, CountInv, Exclusive', [Next]_vars,
         NEW c \in Calls, Packs(c), Winners' = Winners \union {c}, c \notin Winners,
         job' = job
  PROVE  B!Next
<1> DEFINE items == ItemsOf(job[c].type, job[c].keys)
<1>1. items \in SUBSET Items
  BY DEF CountInv, JobOK
<1>2. ASSUME NEW i \in items, NEW d \in Calls, <<i, d>> \in claimedBar
      PROVE  FALSE
  <2>1. Won(d) /\ i \in ItemsOf(job[d].type, job[d].keys)
    BY <1>2, ClaimedPairs
  <2>2. d # c /\ d \in Winners' /\ c \in Winners'
    BY <2>1 DEF Winners
  <2>3. Won(c)' /\ Won(d)'
    BY <2>2 DEF Winners
  <2>4. ~Overlap(c, d)'
    BY <2>2, <2>3 DEF Exclusive
  <2>5. Overlap(c, d)
    BY <1>2, <2>1 DEF ItemsOf, Overlap
  <2> QED
    BY <2>4, <2>5 DEF Overlap
<1>3. claimedBar' = claimedBar \union (items \X {c})
  <2>1. /\ claimedBar = UNION {ItemsOf(job[d].type, job[d].keys) \X {d} : d \in Winners}
        /\ claimedBar' = UNION {ItemsOf(job[d].type, job[d].keys) \X {d} : d \in Winners'}
    BY DEF claimedBar, Winners
  <2> QED
    BY <2>1
<1>4. ledgerBar' = ledgerBar
  BY DEF Packs, ledgerBar
<1>5. B!Claim(c, items)
  BY <1>2, <1>3, <1>4 DEF B!Claim
<1> QED
  BY <1>1, <1>5 DEF B!Next

\* A node that stores a block records what the call has claimed, which it has
\* not recorded before.
LEMMA StoringRecords ==
  ASSUME TypeInv, CopyInv, ExclusiveInv, CountInv, Exclusive, IsFiniteSet(Calls),
         NEW c \in Calls, NEW n \in Nodes, AddBlock(c, n), Won(c),
         Winners' = Winners, job' = job
  PROVE  B!Next
<1> DEFINE items == ItemsOf(job[c].type, job[c].keys)
           b == trip[c].block
           claims == {i \in Items : <<i, c>> \in claimedBar}
<1>1. items = claims /\ items # {}
  <2>1. items \subseteq Items /\ job[c].keys # {}
    BY DEF CountInv, JobOK
  <2>2. PICK k \in job[c].keys : TRUE
    BY <2>1
  <2>3. <<job[c].type, k>> \in items
    BY DEF ItemsOf
  <2> QED
    BY <2>1, <2>3, ClaimedPairs
<1>2. ASSUME NEW i \in items, NEW a \in BlockIds, <<i, a>> \in ledgerBar[n]
      PROVE  FALSE
  <2>1. PICK k \in chain[n] : i \in ItemsOf(k.type, k.keys)
    BY <1>2 DEF ledgerBar
  <2>2. k.call \in Calls /\ k \in Copies(k.call)
    BY DEF TypeInv, TypeOK, Block, Copies
  <2>3. /\ k.type = job[k.call].type /\ k.keys = job[k.call].keys
        /\ k.id = trip[k.call].block /\ Won(k.call)
    BY <2>2 DEF CopyInv, AgreeInv, TripInv, ExclusiveInv, Won
  <2>4. Overlap(c, k.call)
    BY <1>2, <2>1, <2>3 DEF ItemsOf, Overlap
  <2>5. k.call = c
    BY <2>2, <2>3, <2>4 DEF Exclusive
  <2> QED
    BY <2>3, <2>5 DEF AddBlock, Storable
<1>3. b \in BlockIds
  BY BlockIdsSuffice
<1>4. claimedBar' = claimedBar
  <2>1. /\ claimedBar = UNION {ItemsOf(job[d].type, job[d].keys) \X {d} : d \in Winners}
        /\ claimedBar' = UNION {ItemsOf(job[d].type, job[d].keys) \X {d} : d \in Winners'}
    BY DEF claimedBar, Winners
  <2> QED
    BY <2>1
<1>5. ledgerBar' = [ledgerBar EXCEPT ![n] = @ \union (items \X {b})]
  <2> DEFINE new == TheBlock(c)
  <2>1. /\ chain' = [chain EXCEPT ![n] = @ \union {new}]
        /\ chain \in [Nodes -> SUBSET Block]
    BY DEF AddBlock, TypeInv, TypeOK
  <2>2. ItemsOf(new.type, new.keys) = items /\ new.id = b
    BY DEF TheBlock
  <2> HIDE DEF new, items, b
  <2>3. ASSUME NEW m \in Nodes
        PROVE  ledgerBar'[m] = IF m = n THEN ledgerBar[m] \union (items \X {b})
                               ELSE ledgerBar[m]
    <3>1. CASE m = n
      <4>1. chain'[m] = chain[m] \union {new}
        BY <2>1, <3>1
      <4> QED
        BY <2>2, <3>1, <4>1 DEF ledgerBar
    <3>2. CASE m # n
      BY <2>1, <3>2 DEF ledgerBar
    <3> QED
      BY <3>1, <3>2
  <2>4. /\ ledgerBar = [m \in Nodes |-> ledgerBar[m]]
        /\ ledgerBar' = [m \in Nodes |-> ledgerBar'[m]]
    BY DEF ledgerBar
  <2> HIDE DEF ledgerBar
  <2> QED
    BY <2>3, <2>4
<1>6. B!Record(n, c, b)
  <2> HIDE DEF b
  <2> QED
    BY <1>1, <1>2, <1>4, <1>5 DEF B!Record
<1> QED
  BY <1>3, <1>6 DEF B!Next

LEMMA StepBlocks ==
  ASSUME TypeInv, CopyInv, ExclusiveInv, CountInv, Exclusive, Exclusive',
         IsFiniteSet(Calls), NEW c \in Calls, Start(c) \/ Progress(c) \/ Fault(c)
  PROVE  B!Next \/ UNCHANGED <<claimedBar, ledgerBar>>
<1>0. [Next]_vars
  BY DEF Next
<1>1. CASE Packs(c)
  <2>1. ~Start(c)
    BY <1>1 DEF Packs, Start, StartData, StartParcel
  <2>2. made' # made
    BY <1>1 DEF Packs, TypeInv, TypeOK
  <2>3. /\ c \notin Winners /\ Winners' = Winners \union {c}
        /\ job' = job
    BY <2>1, <2>2, WinnersStep, MadeStep
  <2>4. B!Next
    BY <1>0, <1>1, <2>3, PacksClaims
  <2> QED
    BY <2>4
<1>2. ASSUME NEW n \in Nodes, AddBlock(c, n), StoresHere(c) \/ StoresThere(c, n)
      PROVE  B!Next
  <2>1. Active(c) /\ trip'[c].block = trip[c].block
    BY <1>2 DEF StoresHere, StoresThere, Stays, Active
  <2>2. Won(c) /\ pc[c] # "idle"
    BY <2>1 DEF CopyInv, TripInv, Won, Early
  <2>3. ~Packs(c) /\ ~Start(c)
    BY <2>1, <2>2 DEF Packs, CopyInv, TripInv, Early, Start, StartData, StartParcel
  <2> QED
    BY <1>2, <2>2, <2>3, WinnersStep, MadeStep, StoringRecords
<1>3. CASE chain' = chain /\ ~Packs(c)
  <2>1. Winners' = Winners
    BY <1>3, WinnersStep
  <2>2. ASSUME NEW d \in Winners PROVE job'[d] = job[d]
    <3>1. pc[d] # "idle" /\ d \in Calls
      BY DEF Winners, Won, CopyInv, TripInv
    <3> QED
      BY <1>0, <3>1, JobsFixedStep DEF JobsFixed, TypeInv
  <2>3. claimedBar' = claimedBar
    <3>1. /\ claimedBar = UNION {ItemsOf(job[d].type, job[d].keys) \X {d} : d \in Winners}
          /\ claimedBar' = UNION {ItemsOf(job'[d].type, job'[d].keys) \X {d} : d \in Winners'}
      BY DEF claimedBar, Winners
    <3> QED
      BY <2>1, <2>2, <3>1
  <2>4. ledgerBar' = ledgerBar
    BY <1>3 DEF ledgerBar
  <2> QED
    BY <2>3, <2>4
<1>4. CASE Store(c)
  <2>1. CASE AddBlock(c, Here(c)) /\ trip' = [trip EXCEPT ![c].stage = "add",
                                                        ![c].left = Recipients(c)]
    <3>1. trip[c].path \in Seq(Nodes) /\ Len(trip[c].path) > 1
      BY <1>4 DEF Store, TypeInv, TypeOK, OnItsWay, Trip
    <3>2. Here(c) \in Nodes
      BY <3>1, LenProperties, HereSigned
    <3>3. trip \in [Calls -> Trip] /\ trip[c] \in Trip
      BY DEF TypeInv, TypeOK
    <3>4. StoresHere(c)
      BY <1>4, <2>1, <3>3 DEF Store, StoresHere, Stays, Trip
    <3> QED
      BY <1>2, <2>1, <3>2, <3>4
  <2>2. CASE chain' = chain
    BY <1>1, <1>3, <2>2
  <2> QED
    BY <1>4, <2>1, <2>2 DEF Store
<1>5. ASSUME NEW m \in Nodes, NEW a \in BOOLEAN, ReceiveAdd(c, m, a)
      PROVE  B!Next \/ UNCHANGED <<claimedBar, ledgerBar>>
  <2>1. chain' = chain \/ AddBlock(c, m)
    BY <1>5 DEF ReceiveAdd
  <2>2. CASE AddBlock(c, m)
    <3>1. StoresThere(c, m)
      BY <1>5, <2>2, ReceiveAddKind
    <3> QED
      BY <1>2, <2>2, <3>1
  <2> QED
    BY <1>1, <1>3, <2>1, <2>2
<1> QED
  BY <1>1, <1>3, <1>4, <1>5, ChainElsewhere

LEMMA InitBlocks == Init => B!Init
<1> SUFFICES ASSUME Init PROVE B!Init
  OBVIOUS
<1>1. claimedBar = {}
  BY DEF Init, claimedBar, Won
<1>2. ledgerBar = [n \in Nodes |-> {}]
  BY DEF Init, ledgerBar
<1> QED
  BY <1>1, <1>2 DEF B!Init

\* CA3 keeps the promise of Blocking, as long as no deadline passes and any two
\* nodes have a third one that answers both: packing a block claims what is in
\* it, which no one has claimed, and requestToAddBlock records exactly that, once
\* per node; every other step changes neither.
THEOREM BlockingImplemented ==
  ASSUME MaxExpiries = 0, ThirdNode, IsFiniteSet(Calls)
  PROVE  Spec => ImplementsBlocking
<1> DEFINE Inv == TypeInv /\ SignedInv /\ GrantInv /\ CopyInv /\ ExclusiveInv /\ CountInv
<1>1. Init => Inv /\ B!Init
  BY TypeInit, SignedInit, GrantInit, CopyInit, ExclusiveInit, CountInit, InitBlocks
<1>2. Inv /\ [Next]_vars => Inv'
  <2> SUFFICES ASSUME Inv, [Next]_vars PROVE Inv'
    OBVIOUS
  <2>1. TypeInv' /\ SignedInv' /\ GrantInv'
    BY TypeStep, SignedStep, GrantStep DEF TypeInv
  <2>2. CopyInv'
    BY TripInvStep, AgreeInvStep DEF CopyInv
  <2>3. ExclusiveInv' /\ CountInv'
    BY ExclusiveStep, CountStep
  <2> QED
    BY <2>1, <2>2, <2>3
<1>3. Inv => Exclusive
  BY WonExclusive
<1>4. Inv /\ Exclusive /\ Inv' /\ Exclusive' /\ [Next]_vars
        => [B!Next]_<<claimedBar, ledgerBar>>
  <2> SUFFICES ASSUME Inv, Exclusive, Exclusive', [Next]_vars
               PROVE  B!Next \/ UNCHANGED <<claimedBar, ledgerBar>>
    OBVIOUS
  <2>1. CASE Next
    BY <2>1, StepBlocks DEF Next
  <2>2. CASE UNCHANGED vars
    BY <2>2 DEF vars, claimedBar, ledgerBar, Won
  <2> QED
    BY <2>1, <2>2
<1> QED
  BY <1>1, <1>2, <1>3, <1>4, PTL DEF Spec, ImplementsBlocking, B!Spec
-----------------------------------------------------------------------------
(* When nothing fails, the nodes agree, and someone wins *)

\* Every node can be reached and has the keys, and no RPC is lost and no deadline
\* passes: what the property says, "when nothing was lost".
Undisturbed == Down = {} /\ Keyless = {} /\ MaxLosses = 0 /\ MaxExpiries = 0

BlocksOf(n, c) == {b \in chain[n] : b.call = c}

Marked(n, c) == reg[n][c].state = "arrived" /\ reg[n][c].stored

\* All nodes have the same block of c.
Everywhere(c) == \E b \in Block : \A n \in Nodes : BlocksOf(n, c) = {b}

Nowhere(c) == \A n \in Nodes : BlocksOf(n, c) = {}

\* Where the block of c has got to.
Carried(c) ==
  \/ trip[c].stage \in {"send", "store"} /\ Nowhere(c)
  \/ /\ trip[c].stage = "add"
     /\ Here(c) \notin trip[c].left
     /\ \A n \in trip[c].left : BlocksOf(n, c) = {}
     /\ \A n \in Nodes \ trip[c].left :
          BlocksOf(n, c) = {TheBlock(c)} /\ (n = Here(c) \/ Marked(n, c))
  \/ trip[c].stage = "done" /\ Marked(Owner[c], c) /\ Everywhere(c)

\* No trace of a failure
Clean(c) ==
  /\ ~broken[c]
  /\ trip[c].torn = {}
  /\ pc[c] \notin {"spin", "threw"}
  /\ pc[c] = "failed" => Alone(Owner[c])

\* Who has registered c
Listed(c) ==
  /\ pc[c] \in {"idle", "snapshot"} => \A n \in Nodes : ~Known(n, c)
  /\ Known(Owner[c], c) <=> pc[c] \in {"declare", "travel"}
  /\ pc[c] = "declare" => /\ asked[c] \subseteq Nodes \ {Owner[c]}
                          /\ reg[Owner[c]][c].state = "preparation"
  /\ pc[c] = "travel" => \A n \in Nodes : Known(n, c)

\* Who has its block
Spread(c) ==
  /\ Won(c) <=> pc[c] \in {"travel", "blocked"}
  /\ Active(c) => pc[c] = "travel"
  /\ ~Won(c) => Nowhere(c)
  /\ pc[c] = "travel" => Carried(c)
  /\ pc[c] = "blocked" => Everywhere(c)
  /\ pc[c] \notin {"idle", "snapshot"}
       => prev[c] \in {0} \union {b.id : b \in chain[Owner[c]]}

CallInv(c) == Clean(c) /\ Listed(c) /\ Spread(c)

DistinctIds ==
  \A c, d \in Calls : c # d /\ Won(c) /\ Won(d) => trip[c].block # trip[d].block

OutOfPool ==
  \A n \in Nodes : \A b \in chain[n] : b.type = data => b.keys \intersect pool[n] = {}

CalmInv == halted = {} /\ (\A c \in Calls : CallInv(c)) /\ DistinctIds /\ OutOfPool

\* What the proofs below take for granted.
Ground ==
  TypeInv /\ SignedInv /\ GrantInv /\ CopyInv /\ ExclusiveInv

-----------------------------------------------------------------------------
(* What happens when nothing fails *)

\* A step of another call
Alike(c) ==
  /\ pc'[c] = pc[c] /\ job'[c] = job[c] /\ prev'[c] = prev[c]
  /\ asked'[c] = asked[c] /\ refused'[c] = refused[c] /\ broken'[c] = broken[c]
  /\ trip'[c] = trip[c]
  /\ \A n \in Nodes : /\ Known(n, c)' <=> Known(n, c)
                      /\ Known(n, c) => reg'[n][c] = reg[n][c]
  /\ \A n \in Nodes : BlocksOf(n, c)' = BlocksOf(n, c)

\* c's part of the state, but for what is named
SameRegs(c) == \A n \in Nodes : reg'[n][c] = reg[n][c]
SameTrip(c) == trip'[c] = trip[c]
SameJob(c) == job'[c] = job[c] /\ prev'[c] = prev[c]

Starts(c) ==
  /\ pc[c] = "idle" /\ pc'[c] = "snapshot"
  /\ job'[c].type = data => ~AppendLocked(Owner[c])
  /\ SameRegs(c) /\ SameTrip(c) /\ chain' = chain

Declares(c) ==
  /\ pc[c] = "snapshot" /\ pc'[c] = "declare"
  /\ asked'[c] = Nodes \ {Owner[c]} /\ ~refused'[c]
  /\ \A n \in Nodes \ {Owner[c]} : reg'[n][c] = reg[n][c]
  /\ reg'[Owner[c]][c].state = "preparation"
  /\ job'[c] = job[c] /\ prev'[c] \in {0} \union {b.id : b \in chain[Owner[c]]}
  /\ SameTrip(c) /\ chain' = chain

\* An overlapping call is registered here already.
Yields(c) ==
  /\ pc[c] = "snapshot" /\ pc'[c] = "skipped"
  /\ \E d \in Calls \ {c} : Known(Owner[c], d) /\ Overlap(c, d)
  /\ job[c].type = data
  /\ \A n \in Nodes \ {Owner[c]} : reg'[n][c] = reg[n][c]
  /\ ~Known(Owner[c], c)'
  /\ job'[c] = job[c] /\ prev'[c] \in {0} \union {b.id : b \in chain[Owner[c]]}
  /\ SameTrip(c) /\ chain' = chain

\* m answers the declaration.
Answers(c, m) ==
  /\ pc[c] = "declare" /\ pc'[c] = "declare"
  /\ m \in asked[c] /\ asked'[c] = asked[c] \ {m}
  /\ \A n \in Nodes \ {m} : reg'[n][c] = reg[n][c]
  /\ \/ Known(m, c)' /\ refused'[c] = refused[c]
     \/ /\ ~Known(m, c) /\ Conflict(c, m)
        /\ reg'[m][c] = reg[m][c] /\ refused'[c]
  /\ SameJob(c) /\ SameTrip(c) /\ chain' = chain

Withdraws(c) ==
  /\ pc[c] = "declare"
  /\ asked[c] = {}
  /\ \/ refused[c] /\ pc'[c] = "skipped"
     \/ Alone(Owner[c]) /\ pc'[c] = "failed"
  /\ \A n \in Nodes \ {Owner[c]} : reg'[n][c] = reg[n][c]
  /\ ~Known(Owner[c], c)'
  /\ SameJob(c) /\ SameTrip(c) /\ chain' = chain

Sets(c) ==
  /\ pc[c] = "declare" /\ asked[c] = {} /\ ~refused[c]
  /\ pc'[c] = "travel"
  /\ \A n \in Nodes \ {Owner[c]} : reg'[n][c] = reg[n][c]
  /\ Known(Owner[c], c)'
  /\ SameJob(c) /\ trip'[c].block = made + 1 /\ trip'[c].stage = "send"
  /\ chain' = chain

\* The block goes from node to node.
Goes(c) ==
  /\ trip[c].stage \in {"send", "store"} /\ trip'[c].stage \in {"send", "store"}
  /\ trip'[c].block = trip[c].block
  /\ pc'[c] = pc[c]
  /\ \A n \in Nodes : Known(n, c)' <=> Known(n, c)
  /\ SameJob(c) /\ chain' = chain

Puts(c) ==
  /\ trip[c].stage = "store" /\ trip'[c].stage = "add"
  /\ Stays(c) /\ trip'[c].left = Nodes \ {Here(c)}
  /\ pc'[c] = pc[c]
  /\ AddBlock(c, Here(c))
  /\ SameJob(c) /\ SameRegs(c)

Tells(c, m) ==
  /\ trip[c].stage = "add" /\ trip'[c].stage = "add"
  /\ m \in trip[c].left
  /\ Stays(c) /\ trip'[c].left = trip[c].left \ {m}
  /\ pc'[c] = pc[c]
  /\ AddBlock(c, m) /\ Marked(m, c)'
  /\ \A n \in Nodes \ {m} : reg'[n][c] = reg[n][c]
  /\ SameJob(c)

Returned(c) ==
  /\ trip[c].stage = "done" \/ (trip[c].stage = "add" /\ trip[c].left = {})
  /\ Len(trip[c].path) > 1
  /\ trip'[c].block = trip[c].block /\ trip'[c].stage = "done"

GoesBack(c) ==
  /\ Returned(c)
  /\ pc'[c] = pc[c]
  /\ SameJob(c) /\ SameRegs(c) /\ chain' = chain

Ends(c) ==
  /\ Returned(c)
  /\ pc[c] = "travel" /\ pc'[c] = "blocked" /\ Len(trip'[c].path) = 1
  /\ \A n \in Nodes \ {Owner[c]} : reg'[n][c] = reg[n][c]
  /\ ~Known(Owner[c], c)'
  /\ SameJob(c) /\ chain' = chain

Moves(c) ==
  \/ Starts(c) \/ Declares(c) \/ Yields(c) \/ Withdraws(c) \/ Sets(c)
  \/ \E m \in Nodes : Answers(c, m) \/ Tells(c, m)
  \/ Goes(c) \/ Puts(c) \/ GoesBack(c) \/ Ends(c)

\* One call moves, and nothing fails.
CalmStep(c) ==
  /\ halted' = {}
  /\ broken'[c] = FALSE /\ trip'[c].torn = {}
  /\ Moves(c)
  /\ \A d \in Calls \ {c} : Alike(d)

-----------------------------------------------------------------------------
(* Such a step keeps the invariant *)

LEMMA OwnerNotHere ==
  ASSUME Ground, NEW c \in Calls, Len(trip[c].path) > 1
  PROVE  Here(c) \in Nodes /\ Here(c) # Owner[c]
<1>1. trip[c].path \in Seq(Nodes) /\ Len(trip[c].path) \in Nat
  BY LenProperties DEF Ground, TypeInv, TypeOK, Trip
<1>2. IsInjective(trip[c].path) /\ trip[c].path[1] = Owner[c]
  BY <1>1 DEF Ground, SignedInv, PathOK
<1>3. 1 \in DOMAIN trip[c].path /\ Len(trip[c].path) \in DOMAIN trip[c].path
  BY <1>1, LenProperties
<1>4. trip[c].path[1] # trip[c].path[Len(trip[c].path)]
  BY <1>1, <1>2, <1>3 DEF IsInjective
<1> QED
  BY <1>1, <1>2, <1>4, HereSigned DEF Here, Last, Ground

\* The blocks of c after it is stored at m
LEMMA BlocksAdded ==
  ASSUME Ground, NEW c \in Calls, NEW m \in Nodes, AddBlock(c, m)
  PROVE  /\ BlocksOf(m, c)' = BlocksOf(m, c) \union {TheBlock(c)}
         /\ \A n \in Nodes \ {m} : BlocksOf(n, c)' = BlocksOf(n, c)
         /\ \A d \in Calls \ {c} : \A n \in Nodes : BlocksOf(n, d)' = BlocksOf(n, d)
<1>1. TheBlock(c).call = c
  BY DEF TheBlock
<1>2. \A n \in Nodes : chain'[n] = IF n = m THEN chain[m] \union {TheBlock(c)} ELSE chain[n]
  BY DEF AddBlock, Ground, TypeInv, TypeOK
<1> HIDE DEF TheBlock
<1> QED
  BY <1>1, <1>2 DEF BlocksOf

LEMMA SameBlock ==
  ASSUME NEW c \in Calls, Stays(c), SameJob(c)
  PROVE  TheBlock(c)' = TheBlock(c) /\ Here(c)' = Here(c)
BY DEF Stays, SameJob, TheBlock, Here

LEMMA SameBlocks ==
  ASSUME chain' = chain, NEW c \in Calls
  PROVE  /\ \A n \in Nodes : BlocksOf(n, c)' = BlocksOf(n, c)
         /\ Nowhere(c)' <=> Nowhere(c)
         /\ Everywhere(c)' <=> Everywhere(c)
BY DEF BlocksOf, Nowhere, Everywhere

\* The previous block stays where it was.
LEMMA PrevStays ==
  ASSUME Ground, [Next]_vars, NEW n \in Nodes,
         NEW i \in {0} \union {b.id : b \in chain[n]}
  PROVE  i \in {0} \union {b.id : b \in chain'[n]}
<1>1. chain[n] \subseteq chain'[n]
  BY ChainStepAlways DEF Ground, ChainStep
<1> QED
  BY <1>1

LEMMA AlikeInv ==
  ASSUME Ground, [Next]_vars, NEW c \in Calls, CallInv(c), Alike(c)
  PROVE  CallInv(c)'
<1>0. Owner[c] \in Nodes
  BY ConstantsOK
<1>1. Clean(c)'
  BY DEF CallInv, Clean, Alike, Alone
<1>2. Listed(c)'
  <2>1. pc[c] = "declare" => reg'[Owner[c]][c] = reg[Owner[c]][c]
    BY <1>0 DEF CallInv, Listed, Alike
  <2> QED
    BY <1>0, <2>1 DEF CallInv, Listed, Alike
<1>3. Spread(c)'
  <2>1. Nowhere(c)' <=> Nowhere(c)
    BY DEF Alike, Nowhere
  <2>2. Everywhere(c)' <=> Everywhere(c)
    BY DEF Alike, Everywhere
  <2>3. Active(c)' <=> Active(c)
    BY DEF Alike, Active
  <2>4. Won(c)' <=> Won(c)
    BY DEF Alike, Won
  <2>5. ASSUME pc[c] = "travel" PROVE Carried(c)'
    <3>1. \A n \in Nodes : Marked(n, c) => Marked(n, c)'
      BY <2>5 DEF CallInv, Listed, Alike, Marked
    <3>2. TheBlock(c)' = TheBlock(c) /\ Here(c)' = Here(c)
      BY DEF Alike, TheBlock, Here
    <3>3. trip'[c] = trip[c] /\ \A n \in Nodes : BlocksOf(n, c)' = BlocksOf(n, c)
      BY DEF Alike
    <3>4. Carried(c) /\ trip[c].left \subseteq Nodes
      BY <2>5 DEF CallInv, Spread, Ground, TypeInv, TypeOK, Trip
    <3> QED
      BY <1>0, <2>1, <2>2, <3>1, <3>2, <3>3, <3>4 DEF Carried
  <2>6. prev[c] \in {0} \union {b.id : b \in chain[Owner[c]]}
          => prev[c] \in {0} \union {b.id : b \in chain'[Owner[c]]}
    BY <1>0, PrevStays
  <2> QED
    BY <2>1, <2>2, <2>3, <2>4, <2>5, <2>6 DEF CallInv, Spread, Alike
<1> QED
  BY <1>1, <1>2, <1>3 DEF CallInv

\* The block of c is not on any chain before c is told to store it there.
LEMMA OwnClean ==
  ASSUME NEW c \in Calls, Clean(c), Moves(c), broken'[c] = FALSE, trip'[c].torn = {}
  PROVE  Clean(c)'
<1>1. \/ pc'[c] = pc[c] \/ pc'[c] \in {"snapshot", "declare", "skipped", "travel", "blocked"}
      \/ pc'[c] = "failed" /\ Alone(Owner[c])
  BY DEF Moves, Starts, Declares, Yields, Withdraws, Sets, Answers, Tells, Goes, Puts,
     GoesBack, Ends
<1> QED
  BY <1>1 DEF Clean, Alone

LEMMA OwnListed ==
  ASSUME Undisturbed, Ground, NEW c \in Calls, CallInv(c), Moves(c)
  PROVE  Listed(c)'
<1>0. Owner[c] \in Nodes /\ Abnormal = {} /\ Listed(c) /\ (Active(c) => pc[c] = "travel")
  BY ConstantsOK DEF Undisturbed, CallInv, Spread
<1>1. CASE Starts(c)
  BY <1>0, <1>1 DEF Starts, SameRegs, Listed, Known
<1>2. CASE Declares(c)
  BY <1>0, <1>2 DEF Declares, Listed, Known
<1>3. CASE Yields(c) \/ Withdraws(c)
  BY <1>0, <1>3 DEF Yields, Withdraws, Listed
<1>4. ASSUME NEW m \in Nodes, Answers(c, m) PROVE Listed(c)'
  BY <1>0, <1>4 DEF Answers, Listed, Known
<1>5. CASE Sets(c)
  <2>1. \A n \in Nodes \ {Owner[c]} : Known(n, c)
    BY <1>0, <1>5 DEF Sets, Ground, ExclusiveInv, Told, Voters, CallInv, Clean
  <2> QED
    BY <1>0, <1>5, <2>1 DEF Sets, Listed, Known
<1>6. CASE Goes(c)
  <2>1. pc[c] = "travel" /\ pc'[c] = "travel"
    BY <1>0, <1>6 DEF Goes, Active
  <2> QED
    BY <1>0, <1>6, <2>1 DEF Goes, Listed
<1>7. CASE Puts(c) \/ GoesBack(c)
  <2>1. pc[c] = "travel" /\ pc'[c] = "travel" /\ SameRegs(c)
    BY <1>0, <1>7 DEF Puts, GoesBack, Returned, Active
  <2> QED
    BY <1>0, <2>1 DEF SameRegs, Listed, Known
<1>8. ASSUME NEW m \in Nodes, Tells(c, m) PROVE Listed(c)'
  <2>1. pc[c] = "travel" /\ pc'[c] = "travel"
    BY <1>0, <1>8 DEF Tells, Active
  <2> QED
    BY <1>0, <1>8, <2>1 DEF Tells, Listed, Known, Marked
<1>9. CASE Ends(c)
  BY <1>0, <1>9 DEF Ends, Listed
<1> QED
  BY <1>1, <1>2, <1>3, <1>4, <1>5, <1>6, <1>7, <1>8, <1>9 DEF Moves

\* The block has been returned: all nodes have it.
LEMMA ReturnedEverywhere ==
  ASSUME Ground, NEW c \in Calls, Spread(c), Returned(c)
  PROVE  pc[c] = "travel" /\ Marked(Owner[c], c) /\ Everywhere(c)
<1>0. Owner[c] \in Nodes
  BY ConstantsOK
<1>1. pc[c] = "travel" /\ Carried(c)
  BY DEF Returned, Active, Spread
<1>2. CASE trip[c].stage = "done"
  BY <1>1, <1>2 DEF Carried
<1>3. CASE trip[c].stage = "add" /\ trip[c].left = {}
  <2>1. \A n \in Nodes : BlocksOf(n, c) = {TheBlock(c)} /\ (n = Here(c) \/ Marked(n, c))
    BY <1>1, <1>3 DEF Carried
  <2>2. Here(c) # Owner[c]
    BY OwnerNotHere DEF Returned
  <2>3. TheBlock(c) \in Block
    BY TheBlockType DEF Ground, TypeInv
  <2> HIDE DEF TheBlock
  <2> QED
    BY <1>0, <1>1, <2>1, <2>2, <2>3 DEF Everywhere
<1> QED
  BY <1>2, <1>3 DEF Returned

LEMMA OwnSpread ==
  ASSUME Undisturbed, Ground, [Next]_vars, NEW c \in Calls, CallInv(c), Moves(c)
  PROVE  Spread(c)'
<1>a. Owner[c] \in Nodes /\ Spread(c) /\ made \in Nat
  BY ConstantsOK DEF CallInv, Ground, TypeInv, TypeOK
<1>b. chain' = chain => (Nowhere(c)' <=> Nowhere(c)) /\ (Everywhere(c)' <=> Everywhere(c))
  BY SameBlocks
<1>0. /\ Owner[c] \in Nodes /\ Spread(c) /\ made \in Nat
      /\ chain' = chain => (Nowhere(c)' <=> Nowhere(c)) /\ (Everywhere(c)' <=> Everywhere(c))
  BY <1>a, <1>b
<1>1. prev[c] \in {0} \union {b.id : b \in chain[Owner[c]]}
        => prev[c] \in {0} \union {b.id : b \in chain'[Owner[c]]}
  BY <1>0, PrevStays
<1>2. CASE Starts(c)
  BY <1>0, <1>2 DEF Starts, SameTrip, Spread, Won, Active
<1>3. CASE Declares(c) \/ Yields(c)
  BY <1>0, <1>3 DEF Declares, Yields, SameTrip, Spread, Won, Active
<1>4. CASE Withdraws(c) \/ \E m \in Nodes : Answers(c, m)
  BY <1>0, <1>1, <1>4 DEF Withdraws, Answers, SameTrip, SameJob, Spread, Won, Active
<1>5. CASE Sets(c)
  <2>1. Won(c)' /\ made + 1 # 0 /\ Nowhere(c) /\ pc'[c] = "travel"
    BY <1>0, <1>5 DEF Sets, Spread, Won
  <2>2. Carried(c)'
    BY <1>0, <1>5, <2>1 DEF Sets, Carried
  <2> QED
    BY <1>0, <1>1, <1>5, <2>1, <2>2 DEF Sets, SameJob, Spread
<1>6. CASE Goes(c)
  <2>1. pc[c] = "travel" /\ pc'[c] = "travel" /\ Nowhere(c) /\ Won(c) /\ Won(c)'
    BY <1>0, <1>6 DEF Goes, Spread, Active, Carried, Won
  <2>2. Carried(c)'
    BY <1>0, <1>6, <2>1 DEF Goes, Carried
  <2> QED
    BY <1>0, <1>1, <1>6, <2>1, <2>2 DEF Goes, SameJob, Spread
<1>7. CASE Puts(c)
  <2>1. pc[c] = "travel" /\ pc'[c] = "travel" /\ Nowhere(c) /\ Won(c) /\ Won(c)'
    BY <1>0, <1>7 DEF Puts, Stays, Spread, Active, Carried, Won
  <2>2. Here(c) \in Nodes
    <3>1. Len(trip[c].path) > 1
      BY <1>7 DEF Puts, Ground, TypeInv, OnItsWay
    <3> QED
      BY <3>1, OwnerNotHere
  <2>3. TheBlock(c)' = TheBlock(c) /\ Here(c)' = Here(c)
    BY <1>7, SameBlock DEF Puts
  <2>4. \A n \in Nodes : BlocksOf(n, c)' = IF n = Here(c) THEN {TheBlock(c)} ELSE {}
    <3>1. PICK h \in Nodes : h = Here(c)
      BY <2>2
    <3>2. AddBlock(c, h)
      BY <1>7, <3>1 DEF Puts
    <3> QED
      BY <2>1, <3>1, <3>2, BlocksAdded DEF Nowhere
  <2>5. Carried(c)'
    BY <1>7, <2>2, <2>3, <2>4 DEF Puts, Carried
  <2> QED
    BY <1>1, <1>7, <2>1, <2>5, <1>0 DEF Puts, SameJob, Spread
<1>8. ASSUME NEW m \in Nodes, Tells(c, m) PROVE Spread(c)'
  <2>1. pc[c] = "travel" /\ pc'[c] = "travel" /\ Carried(c) /\ Won(c) /\ Won(c)'
    BY <1>0, <1>8 DEF Tells, Stays, Spread, Active, Won
  <2>2. TheBlock(c)' = TheBlock(c) /\ Here(c)' = Here(c)
    BY <1>8, SameBlock DEF Tells
  <2>3. /\ BlocksOf(m, c)' = {TheBlock(c)}
        /\ \A n \in Nodes \ {m} : BlocksOf(n, c)' = BlocksOf(n, c)
    BY <1>8, <2>1, BlocksAdded DEF Tells, Carried
  <2>4. \A n \in Nodes \ {m} : Marked(n, c)' = Marked(n, c)
    BY <1>8 DEF Tells, Marked
  <2>5. Carried(c)'
    <3>1. Here(c)' \notin trip'[c].left /\ trip'[c].stage = "add"
      BY <1>8, <2>1, <2>2 DEF Tells, Carried
    <3>2. \A n \in trip'[c].left : BlocksOf(n, c)' = {}
      <4>1. trip[c].left \subseteq Nodes
        BY DEF Ground, TypeInv, TypeOK, Trip
      <4> QED
        BY <1>8, <2>1, <2>3, <4>1 DEF Tells, Carried
    <3>3. ASSUME NEW n \in Nodes \ trip'[c].left
          PROVE  BlocksOf(n, c)' = {TheBlock(c)} /\ (n = Here(c) \/ Marked(n, c)')
      <4>1. n = m \/ n \in Nodes \ trip[c].left
        BY <1>8 DEF Tells
      <4> HIDE DEF TheBlock, Here
      <4> QED
        BY <1>8, <2>1, <2>3, <2>4, <4>1 DEF Tells, Carried
    <3> QED
      BY <2>2, <3>1, <3>2, <3>3 DEF Carried
  <2> QED
    BY <1>0, <1>1, <1>8, <2>1, <2>5 DEF Tells, SameJob, Spread
<1>9. CASE GoesBack(c)
  <2>1. pc[c] = "travel" /\ Marked(Owner[c], c) /\ Everywhere(c)
    BY <1>0, <1>9, ReturnedEverywhere DEF GoesBack
  <2>2. Marked(Owner[c], c)'
    BY <1>0, <1>9, <2>1 DEF GoesBack, SameRegs, Marked
  <2>3. Carried(c)' /\ Won(c) /\ Won(c)'
    BY <1>0, <1>9, <2>1, <2>2 DEF GoesBack, Returned, Carried, Spread, Won
  <2> QED
    BY <1>0, <1>1, <1>9, <2>1, <2>3 DEF GoesBack, SameJob, Spread
<1>10. CASE Ends(c)
  <2>1. pc[c] = "travel" /\ Everywhere(c)
    BY <1>0, <1>10, ReturnedEverywhere DEF Ends
  <2>2. Won(c) /\ Won(c)' /\ ~Active(c)'
    BY <1>0, <1>10, <2>1 DEF Ends, Returned, Active, Spread, Won
  <2> QED
    BY <1>0, <1>1, <1>10, <2>1, <2>2 DEF Ends, SameJob, Spread
<1> QED
  BY <1>2, <1>3, <1>4, <1>5, <1>6, <1>7, <1>8, <1>9, <1>10 DEF Moves

-----------------------------------------------------------------------------
(* Without failures every step is such a step *)

LEMMA NoFault ==
  ASSUME Undisturbed, TypeInv, halted = {}, NEW c \in Calls
  PROVE  /\ ~Fault(c)
         /\ \A i : ~AwaitThrows(c, i)
<1>1. losses = 0 /\ expiries = 0 /\ MaxLosses = 0 /\ MaxExpiries = 0
  BY DEF Undisturbed, TypeInv, TypeOK
<1>2. ~Lose /\ ~Timeout(c)
  BY <1>1 DEF Lose, Timeout
<1>3. \A n : ~Fail(n)
  BY <1>2 DEF Fail, Reachable, Undisturbed
<1> QED
  BY <1>2, <1>3 DEF Fault, ReceiveDeclare, DeclareGiveUp, SendThrows, ReceiveAdd, AddGiveUp,
     AnswerLost, AwaitThrows

\* The registrations of others stay when c begins.
LEMMA RegsDeclare ==
  ASSUME Ground, NEW c \in Calls, Declare(c, FALSE)
  PROVE  /\ \A n \in Nodes \ {Owner[c]}, d \in Calls : reg'[n][d] = reg[n][d]
         /\ \A d \in Calls \ {c} :
              /\ Known(Owner[c], d)' <=> Known(Owner[c], d)
              /\ Known(Owner[c], d) => reg'[Owner[c]][d] = reg[Owner[c]][d]
         /\ pc' = [pc EXCEPT ![c] = "declare"] => reg'[Owner[c]][c].state = "preparation"
         /\ pc' = [pc EXCEPT ![c] = "skipped"] =>
              /\ ~Known(Owner[c], c)' /\ job[c].type = data
              /\ \E d \in Calls \ {c} : Known(Owner[c], d) /\ Overlap(c, d)
<1> DEFINE table == SetUp(c, FALSE)
           n == Owner[c]
<1>1. n \in Nodes /\ reg \in [Nodes -> [Calls -> Entry]] /\ table \in [Calls -> Entry]
  BY ConstantsOK, SetUpType DEF Ground, TypeInv, TypeOK
<1>2. \A d \in Calls \ {c} : table[d] = IF TimedOut(n, d) THEN NoEntry ELSE reg[n][d]
  BY DEF SetUp
<1>3. table[c].state = "preparation"
  BY DEF SetUp
<1>5. pc \in [Calls -> PCs]
  BY DEF Ground, TypeInv, TypeOK
<1>6. \/ /\ AlreadyStarted(c, table)
         /\ pc' = [pc EXCEPT ![c] = "skipped"]
         /\ reg' = [reg EXCEPT ![n] = [table EXCEPT ![c] = NoEntry]]
      \/ /\ pc' = [pc EXCEPT ![c] = "declare"]
         /\ reg' = [reg EXCEPT ![n] = table]
  BY DEF Declare
<1> HIDE DEF table
<1>4. ASSUME NEW d \in Calls \ {c}
      PROVE  /\ table[d].state # "absent" <=> Known(n, d)
             /\ Known(n, d) => table[d] = reg[n][d]
  <2>1. Known(n, d) => reg[n][d].gen > 0 /\ dead[d] = 0 /\ reg[n][d].gen \in Nat
    BY <1>1 DEF Ground, ExclusiveInv, Entry
  <2>2. Known(n, d) => ~TimedOut(n, d)
    BY <2>1 DEF TimedOut
  <2>3. table[d] = IF TimedOut(n, d) THEN NoEntry ELSE reg[n][d]
    BY <1>2
  <2>4. Known(n, d) => table[d] = reg[n][d]
    BY <2>2, <2>3
  <2>5. ~Known(n, d) => table[d].state = "absent"
    BY <2>3 DEF Known, NoEntry
  <2> QED
    BY <2>4, <2>5 DEF Known, NoEntry
<1>7. CASE /\ AlreadyStarted(c, table)
           /\ pc' = [pc EXCEPT ![c] = "skipped"]
           /\ reg' = [reg EXCEPT ![n] = [table EXCEPT ![c] = NoEntry]]
  <2>1. /\ \A m \in Nodes \ {n} : reg'[m] = reg[m]
        /\ reg'[n][c] = NoEntry
        /\ \A d \in Calls \ {c} : reg'[n][d] = table[d]
        /\ pc'[c] = "skipped"
    BY <1>1, <1>5, <1>7
  <2>2. pc' # [pc EXCEPT ![c] = "declare"]
    BY <1>5, <2>1
  <2>3. job[c].type = data /\ \E d \in Calls \ {c} : Known(n, d) /\ Overlap(c, d)
    BY <1>4, <1>7 DEF AlreadyStarted
  <2> QED
    BY <1>4, <2>1, <2>2, <2>3 DEF Known, NoEntry
<1>8. CASE /\ pc' = [pc EXCEPT ![c] = "declare"]
           /\ reg' = [reg EXCEPT ![n] = table]
  <2>1. /\ \A m \in Nodes \ {n} : reg'[m] = reg[m]
        /\ \A d \in Calls : reg'[n][d] = table[d]
        /\ pc'[c] = "declare"
    BY <1>1, <1>5, <1>8
  <2>2. pc' # [pc EXCEPT ![c] = "skipped"]
    BY <1>5, <2>1
  <2> QED
    BY <1>3, <1>4, <2>1, <2>2 DEF Known
<1> QED
  BY <1>6, <1>7, <1>8

LEMMA BeginMoves ==
  ASSUME Undisturbed, Ground, CalmInv, NEW c \in Calls, Begin(c)
  PROVE  CalmStep(c)
<1>0. /\ pc \in [Calls -> PCs] /\ asked \in [Calls -> SUBSET Nodes]
      /\ refused \in [Calls -> BOOLEAN] /\ broken \in [Calls -> BOOLEAN]
      /\ prev \in [Calls -> Nat]
      /\ Abnormal = {} /\ halted = {} /\ Clean(c)
  BY ConstantsOK DEF Undisturbed, Ground, TypeInv, TypeOK, CalmInv, CallInv
<1>1. /\ Declare(c, FALSE) /\ pc[c] = "snapshot"
      /\ UNCHANGED <<pool, chain, job, dead, trip, made, halted, losses, expiries>>
      /\ \E id \in 0 .. made : /\ IsLastBlock(Owner[c], id)
                              /\ prev' = [prev EXCEPT ![c] = id]
  BY DEF Begin
<1>2. prev'[c] \in {0} \union {b.id : b \in chain[Owner[c]]}
  BY <1>0, <1>1 DEF IsLastBlock
<1>r. /\ \A n \in Nodes \ {Owner[c]}, d \in Calls : reg'[n][d] = reg[n][d]
      /\ \A d \in Calls \ {c} :
           /\ Known(Owner[c], d)' <=> Known(Owner[c], d)
           /\ Known(Owner[c], d) => reg'[Owner[c]][d] = reg[Owner[c]][d]
      /\ pc' = [pc EXCEPT ![c] = "declare"] => reg'[Owner[c]][c].state = "preparation"
      /\ pc' = [pc EXCEPT ![c] = "skipped"] =>
           /\ ~Known(Owner[c], c)' /\ job[c].type = data
           /\ \E d \in Calls \ {c} : Known(Owner[c], d) /\ Overlap(c, d)
  BY <1>1, RegsDeclare
<1>3. \A d \in Calls \ {c} :
        /\ pc'[d] = pc[d] /\ prev'[d] = prev[d]
        /\ asked'[d] = asked[d] /\ refused'[d] = refused[d] /\ broken'[d] = broken[d]
  BY <1>0, <1>1 DEF Declare
<1>4. \A d \in Calls \ {c} : Alike(d)
  <2> SUFFICES ASSUME NEW d \in Calls \ {c} PROVE Alike(d)
    OBVIOUS
  <2>1. \A n \in Nodes : /\ Known(n, d)' <=> Known(n, d)
                         /\ Known(n, d) => reg'[n][d] = reg[n][d]
    <3>1. ASSUME NEW n \in Nodes \ {Owner[c]}
          PROVE  (Known(n, d)' <=> Known(n, d)) /\ reg'[n][d] = reg[n][d]
      BY <1>r DEF Known
    <3> QED
      BY <1>r, <3>1
  <2> QED
    BY <1>1, <1>3, <2>1, SameBlocks DEF Alike
<1>5. Moves(c) /\ broken'[c] = FALSE
  <2>1. CASE pc' = [pc EXCEPT ![c] = "skipped"]
    <3>1. Yields(c)
      <4>1. pc'[c] = "skipped"
        BY <1>0, <2>1
      <4> QED
        BY <1>r, <1>1, <1>2, <2>1, <4>1 DEF Yields, SameTrip
    <3>2. broken' = broken
      <4>1. pc'[c] # "declare"
        BY <1>0, <2>1
      <4> QED
        BY <1>0, <1>1, <4>1 DEF Declare
    <3> QED
      BY <1>0, <3>1, <3>2 DEF Moves, Clean
  <2>2. CASE pc' = [pc EXCEPT ![c] = "declare"]
    <3>1. asked'[c] = Nodes \ {Owner[c]} /\ ~refused'[c] /\ broken'[c] = FALSE
      <4>1. pc'[c] # "skipped"
        BY <1>0, <2>2
      <4> QED
        BY <1>0, <1>1, <4>1 DEF Declare
    <3>2. Declares(c)
      <4>1. pc'[c] = "declare"
        BY <1>0, <2>2
      <4> QED
        BY <1>r, <1>1, <1>2, <2>2, <3>1, <4>1 DEF Declares, SameTrip
    <3> QED
      BY <3>1, <3>2 DEF Moves
  <2> QED
    BY <1>1, <2>1, <2>2 DEF Declare
<1> QED
  BY <1>0, <1>1, <1>4, <1>5 DEF CalmStep, Clean

\* Steps that change no table but at m the entry of c
LEMMA OneReg ==
  ASSUME Ground, NEW c \in Calls, NEW m \in Nodes, NEW e \in Entry,
         reg' = [reg EXCEPT ![m][c] = e]
  PROVE  /\ reg'[m][c] = e
         /\ \A n \in Nodes \ {m} : reg'[n][c] = reg[n][c]
         /\ \A d \in Calls \ {c}, n \in Nodes : reg'[n][d] = reg[n][d]
BY DEF Ground, TypeInv, TypeOK

LEMMA AlikeWhen ==
  ASSUME NEW c \in Calls, NEW d \in Calls \ {c},
         pc'[d] = pc[d], job' = job, prev' = prev, asked'[d] = asked[d],
         refused'[d] = refused[d], broken'[d] = broken[d], trip'[d] = trip[d],
         \A n \in Nodes : reg'[n][d] = reg[n][d],
         \A n \in Nodes : BlocksOf(n, d)' = BlocksOf(n, d)
  PROVE  Alike(d)
BY DEF Alike, Known

LEMMA StartMoves ==
  ASSUME Ground, CalmInv, NEW c \in Calls, Start(c)
  PROVE  CalmStep(c)
<1>0. pc \in [Calls -> PCs] /\ job \in [Calls -> [type : Types, keys : SUBSET Keys]]
      /\ halted = {} /\ Clean(c)
  BY DEF Ground, TypeInv, TypeOK, CalmInv, CallInv
<1>1. /\ pc[c] = "idle" /\ pc' = [pc EXCEPT ![c] = "snapshot"]
      /\ \A d \in Calls \ {c} : job'[d] = job[d]
      /\ UNCHANGED <<pool, chain, reg, prev, attempt, dead, asked, refused, broken,
                     trip, made, halted, losses, expiries>>
  BY <1>0 DEF Start, StartData, StartParcel
<1>2. Starts(c)
  <2>1. job'[c].type = data => ~AppendLocked(Owner[c])
    BY <1>0, ConstantsOK DEF Start, StartData, StartParcel, data
  <2> QED
    BY <1>0, <1>1, <2>1 DEF Starts, SameRegs, SameTrip
<1>3. \A d \in Calls \ {c} : Alike(d)
  BY <1>0, <1>1, SameBlocks DEF Alike, Known
<1> QED
  BY <1>0, <1>1, <1>2, <1>3 DEF CalmStep, Moves, Clean

LEMMA AskMoves ==
  ASSUME Undisturbed, Ground, CalmInv, NEW c \in Calls, NEW m \in Nodes,
         ReceiveDeclare(c, m, TRUE)
  PROVE  CalmStep(c)
<1>0. /\ asked \in [Calls -> SUBSET Nodes] /\ refused \in [Calls -> BOOLEAN]
      /\ attempt[c] \in Nat /\ reg[m][c] \in Entry
      /\ halted = {} /\ Clean(c)
  BY DEF Ground, TypeInv, TypeOK, CalmInv, CallInv
<1>1. /\ pc[c] = "declare" /\ m \in asked[c]
      /\ asked' = [asked EXCEPT ![c] = @ \ {m}]
      /\ UNCHANGED <<broken, losses>>
      /\ UNCHANGED <<pool, chain, pc, job, prev, attempt, dead, trip, made, halted, expiries>>
  BY DEF ReceiveDeclare
<1>2. \/ /\ refused' = refused
         /\ \E e \in Entry : e.state # "absent" /\ reg' = [reg EXCEPT ![m][c] = e]
      \/ /\ ~Known(m, c) /\ Conflict(c, m)
         /\ refused' = [refused EXCEPT ![c] = @ \/ TRUE]
         /\ reg' = reg
  <2> DEFINE e == [state |-> "underway", stored |-> FALSE, gen |-> attempt[c]]
             f == [reg[m][c] EXCEPT !.gen = attempt[c]]
  <2>1. e \in Entry /\ e.state # "absent" /\ f \in Entry /\ f.state = reg[m][c].state
    BY <1>0 DEF Entry
  <2>2. \/ /\ Known(m, c) /\ refused' = refused /\ reg' = [reg EXCEPT ![m][c] = f]
        \/ /\ refused' = refused /\ reg' = [reg EXCEPT ![m][c] = e]
        \/ /\ ~Known(m, c) /\ Conflict(c, m)
           /\ refused' = [refused EXCEPT ![c] = @ \/ TRUE]
           /\ reg' = reg
    BY DEF ReceiveDeclare
  <2> HIDE DEF e, f
  <2> QED
    BY <2>1, <2>2 DEF Known
<1>3. \A n \in Nodes \ {m} : reg'[n][c] = reg[n][c]
  BY <1>2, OneReg
<1>4. Answers(c, m)
  <2>1. asked'[c] = asked[c] \ {m} /\ SameJob(c) /\ SameTrip(c)
    BY <1>0, <1>1 DEF SameJob, SameTrip
  <2>2. \/ Known(m, c)' /\ refused'[c] = refused[c]
        \/ ~Known(m, c) /\ Conflict(c, m) /\ reg'[m][c] = reg[m][c] /\ refused'[c]
    <3>1. CASE /\ ~Known(m, c) /\ Conflict(c, m) /\ reg' = reg
               /\ refused' = [refused EXCEPT ![c] = @ \/ TRUE]
      BY <1>0, <3>1
    <3>2. CASE refused' = refused /\ \E e \in Entry : e.state # "absent" /\ reg' = [reg EXCEPT ![m][c] = e]
      <4>1. PICK e \in Entry : e.state # "absent" /\ reg' = [reg EXCEPT ![m][c] = e]
        BY <3>2
      <4>2. reg'[m][c] = e
        BY <4>1 DEF Ground, TypeInv, TypeOK
      <4> QED
        BY <3>2, <4>1, <4>2 DEF Known
    <3> QED
      BY <1>2, <3>1, <3>2
  <2> QED
    BY <1>1, <1>3, <2>1, <2>2 DEF Answers
<1>5. ASSUME NEW d \in Calls \ {c} PROVE Alike(d)
  <2>1. \A n \in Nodes : reg'[n][d] = reg[n][d]
    BY <1>2, OneReg
  <2>2. asked'[d] = asked[d] /\ refused'[d] = refused[d]
    BY <1>0, <1>1, <1>2
  <2> QED
    BY <1>1, <2>1, <2>2, AlikeWhen, SameBlocks
<1> QED
  BY <1>0, <1>1, <1>4, <1>5 DEF CalmStep, Moves, Clean

LEMMA EndCallRegs ==
  ASSUME Ground, NEW c \in Calls, NEW how \in PCs, EndCall(c, how)
  PROVE  /\ pc'[c] = how /\ \A d \in Calls \ {c} : pc'[d] = pc[d]
         /\ ~Known(Owner[c], c)'
         /\ \A n \in Nodes \ {Owner[c]} : reg'[n][c] = reg[n][c]
         /\ \A d \in Calls \ {c}, n \in Nodes : reg'[n][d] = reg[n][d]
<1>1. NoEntry \in Entry /\ NoEntry.state = "absent" /\ Owner[c] \in Nodes
  BY ConstantsOK DEF NoEntry, Entry
<1>2. reg' = [reg EXCEPT ![Owner[c]][c] = NoEntry]
  BY DEF EndCall
<1>3. pc'[c] = how /\ \A d \in Calls \ {c} : pc'[d] = pc[d]
  BY DEF EndCall, Ground, TypeInv, TypeOK
<1>4. /\ reg'[Owner[c]][c] = NoEntry
      /\ \A n \in Nodes \ {Owner[c]} : reg'[n][c] = reg[n][c]
      /\ \A d \in Calls \ {c}, n \in Nodes : reg'[n][d] = reg[n][d]
  BY <1>1, <1>2, OneReg
<1> QED
  BY <1>1, <1>3, <1>4 DEF Known

LEMMA DeclaredMoves ==
  ASSUME Undisturbed, Ground, CalmInv, NEW c \in Calls,
         DeclareThrows(c) \/ DeclareFailed(c) \/ DeclareAccepted(c)
  PROVE  CalmStep(c)
<1>0. /\ pc \in [Calls -> PCs] /\ trip \in [Calls -> Trip] /\ reg[Owner[c]][c] \in Entry
      /\ Owner[c] \in Nodes
      /\ "skipped" \in PCs /\ "failed" \in PCs
      /\ halted = {} /\ Clean(c) /\ Listed(c)
  BY ConstantsOK DEF Ground, TypeInv, TypeOK, CalmInv, CallInv, PCs, Ended
<1>1. /\ pc[c] = "declare" /\ asked[c] = {} /\ ~broken[c] /\ Known(Owner[c], c)
      /\ ~TimedOut(Owner[c], c)
  <2>1. pc[c] = "declare" /\ asked[c] = {} /\ ~broken[c] /\ Known(Owner[c], c)
    BY <1>0 DEF DeclareThrows, DeclareFailed, DeclareAccepted, DeclareDone, Clean, Listed
  <2>2. reg[Owner[c]][c].gen > 0 /\ dead[c] = 0 /\ reg[Owner[c]][c].gen \in Nat
    BY <1>0, <2>1 DEF Ground, ExclusiveInv, Entry
  <2> QED
    BY <2>1, <2>2 DEF TimedOut
<1>2. ~DeclareThrows(c)
  BY <1>1 DEF DeclareThrows
<1>3. CASE DeclareFailed(c)
  <2>1. PICK how \in {"skipped", "failed"} :
          /\ EndCall(c, how)
          /\ how = "skipped" => refused[c]
          /\ how = "failed" => Alone(Owner[c])
    BY <1>1, <1>3 DEF DeclareFailed
  <2>2. /\ UNCHANGED <<chain, job, prev, asked, refused, broken, trip, halted>>
    BY <1>3 DEF DeclareFailed
  <2>3. Withdraws(c)
    BY <1>0, <1>1, <2>1, <2>2, EndCallRegs DEF Withdraws, SameJob, SameTrip
  <2>4. ASSUME NEW d \in Calls \ {c} PROVE Alike(d)
    BY <1>0, <2>1, <2>2, EndCallRegs, AlikeWhen, SameBlocks
  <2> QED
    BY <1>0, <2>2, <2>3, <2>4 DEF CalmStep, Moves, Clean
<1>4. CASE DeclareAccepted(c)
  <2> DEFINE e == [reg[Owner[c]][c] EXCEPT !.state = "underway"]
             t == [block |-> made + 1, path |-> <<Owner[c]>>, stage |-> "send",
                   left |-> {}, torn |-> {}]
  <2>1. e \in Entry /\ e.state = "underway"
    BY <1>0 DEF Entry
  <2>2. /\ pc' = [pc EXCEPT ![c] = "travel"]
        /\ reg' = [reg EXCEPT ![Owner[c]][c] = e]
        /\ trip' = [trip EXCEPT ![c] = t]
        /\ ~refused[c]
        /\ UNCHANGED <<chain, job, prev, asked, refused, broken, halted>>
    BY <1>4 DEF DeclareAccepted
  <2>3. trip'[c] = t /\ \A d \in Calls \ {c} : trip'[d] = trip[d] /\ pc'[d] = pc[d]
    BY <1>0, <2>2
  <2>4. /\ Known(Owner[c], c)'
        /\ \A n \in Nodes \ {Owner[c]} : reg'[n][c] = reg[n][c]
        /\ \A d \in Calls \ {c}, n \in Nodes : reg'[n][d] = reg[n][d]
    <3> HIDE DEF e
    <3>1. /\ reg'[Owner[c]][c] = e
          /\ \A n \in Nodes \ {Owner[c]} : reg'[n][c] = reg[n][c]
          /\ \A d \in Calls \ {c}, n \in Nodes : reg'[n][d] = reg[n][d]
      BY <1>0, <2>1, <2>2, OneReg
    <3> QED
      BY <2>1, <3>1 DEF Known
  <2>5. Sets(c)
    BY <1>0, <1>1, <2>2, <2>3, <2>4 DEF Sets, SameJob
  <2>6. ASSUME NEW d \in Calls \ {c} PROVE Alike(d)
    BY <2>2, <2>3, <2>4, AlikeWhen, SameBlocks
  <2> QED
    BY <1>0, <2>2, <2>3, <2>5, <2>6 DEF CalmStep, Moves, Clean
<1> QED
  BY <1>2, <1>3, <1>4
\* What a step does to the trip of c alone
LEMMA OneTrip ==
  ASSUME Ground, NEW c \in Calls, NEW t, trip' = [trip EXCEPT ![c] = t]
  PROVE  trip'[c] = t /\ \A d \in Calls \ {c} : trip'[d] = trip[d]
BY DEF Ground, TypeInv, TypeOK

\* The entries of c are live, and there is no other block of its _id.
LEMMA NoClash ==
  ASSUME Undisturbed, Ground, CalmInv, NEW c \in Calls, NEW m \in Nodes,
         pc[c] = "travel", BlocksOf(m, c) = {}
  PROVE  Live(m, c) /\ Storable(c, m)
<1>1. Known(m, c) /\ Won(c)
  BY DEF CalmInv, CallInv, Listed, Spread
<1>2. reg[m][c].gen > 0 /\ dead[c] = 0 /\ reg[m][c].gen \in Nat
  BY <1>1 DEF Ground, ExclusiveInv, TypeInv, TypeOK, Entry
<1>3. Live(m, c)
  BY <1>1, <1>2 DEF Live, TimedOut
<1>4. ASSUME NEW b \in chain[m] PROVE b.id # trip[c].block
  <2>1. PICK d \in Calls : d = b.call
    BY DEF Ground, TypeInv, TypeOK, Block
  <2>2. d # c
    BY <2>1 DEF BlocksOf
  <2>3. b \in Copies(d)
    BY <2>1 DEF Copies
  <2>4. b.id = trip[d].block /\ b.id \in 1 .. trip[d].block
    BY <2>3 DEF Ground, ExclusiveInv, CopyInv, AgreeInv
  <2>5. Won(d)
    BY <2>4 DEF Won
  <2> QED
    BY <1>1, <2>2, <2>4, <2>5 DEF CalmInv, DistinctIds
<1> QED
  BY <1>3, <1>4 DEF Storable, Undisturbed

LEMMA SignMoves ==
  ASSUME Undisturbed, Ground, CalmInv, NEW c \in Calls, NEW m \in Nodes, Sign(c, m)
  PROVE  CalmStep(c)
<1> DEFINE e == [reg[m][c] EXCEPT !.state = "arrived"]
           p == Append(trip[c].path, m)
           st == Signed(Len(trip[c].path) + 1)
           t == [trip[c] EXCEPT !.path = p, !.stage = st]
<1>0. reg[m][c] \in Entry /\ trip[c] \in Trip /\ halted = {} /\ Clean(c)
  BY DEF Ground, TypeInv, TypeOK, CalmInv, CallInv
<1>1. e \in Entry /\ e.state = "arrived"
  BY <1>0 DEF Entry
<1>2. /\ trip[c].stage = "send" /\ Known(m, c)
      /\ reg' = [reg EXCEPT ![m][c] = e]
      /\ trip' = [trip EXCEPT ![c] = t]
      /\ UNCHANGED <<pool, chain, pc, job, prev, attempt, dead, asked, refused,
                     broken, made, halted, losses, expiries>>
  BY DEF Sign, Live, Undisturbed
<1>3. st \in {"send", "store"}
  BY DEF Signed
<1> HIDE DEF e, p, st
<1>4. t.block = trip[c].block /\ t.stage = st /\ t.torn = trip[c].torn
  BY <1>0 DEF Trip
<1> HIDE DEF t
<1>5. trip'[c] = t /\ \A d \in Calls \ {c} : trip'[d] = trip[d]
  BY <1>2, OneTrip
<1>6. /\ reg'[m][c] = e
      /\ \A n \in Nodes \ {m} : reg'[n][c] = reg[n][c]
      /\ \A d \in Calls \ {c}, n \in Nodes : reg'[n][d] = reg[n][d]
  BY <1>1, <1>2, OneReg
<1>7. \A n \in Nodes : Known(n, c)' <=> Known(n, c)
  BY <1>1, <1>2, <1>6 DEF Known
<1>8. Goes(c)
  BY <1>2, <1>3, <1>4, <1>5, <1>7 DEF Goes, SameJob
<1>9. ASSUME NEW d \in Calls \ {c} PROVE Alike(d)
  BY <1>2, <1>5, <1>6, AlikeWhen, SameBlocks
<1> QED
  BY <1>0, <1>2, <1>4, <1>5, <1>8, <1>9 DEF CalmStep, Moves, Clean

\* The last node answers the one before it.
LEMMA ReturnTrip ==
  ASSUME Ground, NEW c \in Calls, Clean(c), NEW st, Return(c, st)
  PROVE  /\ trip'[c].block = trip[c].block /\ trip'[c].stage = st
         /\ trip'[c].path = Front(trip[c].path) /\ trip'[c].torn = {}
         /\ \A d \in Calls \ {c} : trip'[d] = trip[d]
         /\ pc' = pc /\ halted' = halted
<1> DEFINE p == Front(trip[c].path)
           tn == trip[c].torn \ {Here(c)}
           t == [trip[c] EXCEPT !.path = p, !.stage = st, !.torn = tn]
<1>1. trip' = [trip EXCEPT ![c] = t] /\ pc' = pc /\ halted' = halted
  <2>1. Here(c) \notin trip[c].torn
    BY DEF Clean
  <2> QED
    BY <2>1 DEF Return
<1>2. tn = {} /\ trip[c] \in Trip
  BY DEF Clean, Ground, TypeInv, TypeOK
<1> HIDE DEF p, tn
<1>3. t.block = trip[c].block /\ t.stage = st /\ t.path = p /\ t.torn = tn
  BY <1>2 DEF Trip
<1> HIDE DEF t
<1>4. trip'[c] = t /\ \A d \in Calls \ {c} : trip'[d] = trip[d]
  BY <1>1, OneTrip
<1> QED
  BY <1>1, <1>2, <1>3, <1>4 DEF p

LEMMA PromptMoves ==
  ASSUME Undisturbed, Ground, CalmInv, NEW c \in Calls, Prompt(c)
  PROVE  CalmStep(c)
<1>0. trip[c] \in Trip /\ halted = {} /\ Clean(c)
  BY DEF Ground, TypeInv, TypeOK, CalmInv, CallInv
<1>1. /\ trip[c].stage = "send"
      /\ UNCHANGED <<pool, chain, reg, job, prev, attempt, dead, asked, refused,
                     broken, made, losses, expiries>>
  BY DEF Prompt
<1>2. \E st \in {"send", "store"} :
        /\ trip'[c].block = trip[c].block /\ trip'[c].stage = st /\ trip'[c].torn = {}
        /\ \A d \in Calls \ {c} : trip'[d] = trip[d]
        /\ pc' = pc /\ halted' = halted
  <2>1. CASE Return(c, "send")
    BY <1>0, <2>1, ReturnTrip
  <2>2. CASE trip' = [trip EXCEPT ![c].stage = "store"] /\ pc' = pc /\ halted' = halted
    <3> DEFINE t == [trip[c] EXCEPT !.stage = "store"]
    <3>1. t.block = trip[c].block /\ t.stage = "store" /\ t.torn = {}
      BY <1>0 DEF Trip, Clean
    <3>2. trip' = [trip EXCEPT ![c] = t]
      BY <2>2
    <3> HIDE DEF t
    <3>3. trip'[c] = t /\ \A d \in Calls \ {c} : trip'[d] = trip[d]
      BY <3>2, OneTrip
    <3> QED
      BY <2>2, <3>1, <3>3
  <2> QED
    BY <2>1, <2>2 DEF Prompt
<1>3. Goes(c)
  BY <1>1, <1>2 DEF Goes, SameJob, Known
<1>4. ASSUME NEW d \in Calls \ {c} PROVE Alike(d)
  BY <1>1, <1>2, AlikeWhen, SameBlocks
<1> QED
  BY <1>0, <1>1, <1>2, <1>3, <1>4 DEF CalmStep, Moves, Clean

LEMMA StoreMoves ==
  ASSUME Undisturbed, Ground, CalmInv, NEW c \in Calls, Store(c)
  PROVE  CalmStep(c)
<1>0. /\ trip[c] \in Trip /\ halted = {} /\ Clean(c) /\ Spread(c)
      /\ broken \in [Calls -> BOOLEAN]
  BY DEF Ground, TypeInv, TypeOK, CalmInv, CallInv
<1>1. /\ trip[c].stage = "store"
      /\ UNCHANGED <<reg, job, prev, attempt, dead, asked, refused, made, losses, expiries>>
  BY DEF Store
<1>2. pc[c] = "travel" /\ Nowhere(c)
  BY <1>0, <1>1 DEF Spread, Active, Carried
<1>3. PICK h \in Nodes : h = Here(c)
  BY <1>1, OwnerNotHere DEF Ground, TypeInv, OnItsWay
<1>4. Storable(c, h)
  BY <1>2, NoClash DEF Nowhere
<1>5. /\ AddBlock(c, h)
      /\ trip' = [trip EXCEPT ![c].stage = "add", ![c].left = Nodes \ {h}]
      /\ broken' = [broken EXCEPT ![c] = FALSE]
      /\ UNCHANGED <<pc, halted>>
  <2>1. Recipients(c) = Nodes \ {h}
    BY ConstantsOK, <1>3 DEF Recipients, Undisturbed
  <2>2. ~(~Storable(c, Here(c)))
    BY <1>3, <1>4
  <2> QED
    BY <1>3, <2>1, <2>2 DEF Store
<1> DEFINE lf == Nodes \ {h}
           t == [trip[c] EXCEPT !.stage = "add", !.left = lf]
<1> HIDE DEF lf
<1>6. /\ t.block = trip[c].block /\ t.path = trip[c].path /\ t.stage = "add"
      /\ t.left = lf /\ t.torn = {}
  BY <1>0 DEF Trip, Clean
<1>7. trip' = [trip EXCEPT ![c] = t]
  BY <1>5 DEF lf
<1> HIDE DEF t
<1>8. trip'[c] = t /\ \A d \in Calls \ {c} : trip'[d] = trip[d]
  BY <1>7, OneTrip
<1>9. Puts(c)
  BY <1>1, <1>3, <1>5, <1>6, <1>8 DEF Puts, Stays, SameJob, SameRegs, lf
<1>10. broken'[c] = FALSE /\ \A d \in Calls \ {c} : broken'[d] = broken[d]
  BY <1>0, <1>5
<1>11. ASSUME NEW d \in Calls \ {c} PROVE Alike(d)
  <2>1. \A n \in Nodes : BlocksOf(n, d)' = BlocksOf(n, d)
    BY <1>5, BlocksAdded
  <2> QED
    BY <1>1, <1>5, <1>8, <1>10, <2>1, AlikeWhen
<1> QED
  BY <1>0, <1>5, <1>6, <1>8, <1>9, <1>10, <1>11 DEF CalmStep, Moves
LEMMA TellMoves ==
  ASSUME Undisturbed, Ground, CalmInv, NEW c \in Calls, NEW m \in Nodes,
         ReceiveAdd(c, m, TRUE)
  PROVE  CalmStep(c)
<1>0. /\ trip[c] \in Trip /\ halted = {} /\ Clean(c) /\ Spread(c) /\ reg[m][c] \in Entry
  BY DEF Ground, TypeInv, TypeOK, CalmInv, CallInv
<1>1. /\ trip[c].stage = "add" /\ m \in trip[c].left
      /\ UNCHANGED <<broken, losses>>
      /\ UNCHANGED <<pc, job, prev, attempt, dead, asked, refused, made, halted, expiries>>
  BY DEF ReceiveAdd
<1>2. pc[c] = "travel" /\ BlocksOf(m, c) = {}
  BY <1>0, <1>1 DEF Spread, Active, Carried
<1>3. Storable(c, m) /\ Live(m, c) /\ m \notin Keyless
  BY <1>2, NoClash DEF Undisturbed
<1> DEFINE e == [reg[m][c] EXCEPT !.state = "arrived", !.stored = TRUE]
           lf == trip[c].left \ {m}
           t == [trip[c] EXCEPT !.left = lf]
<1>4. /\ AddBlock(c, m)
      /\ reg' = [reg EXCEPT ![m][c] = e]
      /\ trip' = [trip EXCEPT ![c] = t]
  <2>1. /\ AddBlock(c, m)
        /\ reg' = [reg EXCEPT ![m][c].state = "arrived", ![m][c].stored = TRUE]
    BY <1>3 DEF ReceiveAdd
  <2>2. trip' = [trip EXCEPT ![c].left = @ \ {m}]
    BY DEF ReceiveAdd
  <2>3. reg' = [reg EXCEPT ![m][c] = e]
    BY <2>1 DEF Ground, TypeInv, TypeOK
  <2> QED
    BY <2>1, <2>2, <2>3
<1>5. e \in Entry /\ e.state = "arrived" /\ e.stored
  BY <1>0 DEF Entry
<1> HIDE DEF e, lf
<1>6. /\ t.block = trip[c].block /\ t.path = trip[c].path /\ t.stage = "add"
      /\ t.left = lf /\ t.torn = {}
  BY <1>0, <1>1 DEF Trip, Clean
<1> HIDE DEF t
<1>7. trip'[c] = t /\ \A d \in Calls \ {c} : trip'[d] = trip[d]
  BY <1>4, OneTrip
<1>8. /\ \A n \in Nodes \ {m} : reg'[n][c] = reg[n][c]
      /\ \A d \in Calls \ {c}, n \in Nodes : reg'[n][d] = reg[n][d]
  BY <1>4, <1>5, OneReg
<1>9. reg'[m][c] = e
  BY <1>4 DEF Ground, TypeInv, TypeOK
<1>10. Tells(c, m)
  BY <1>1, <1>4, <1>5, <1>6, <1>7, <1>8, <1>9 DEF Tells, Stays, SameJob, Marked, lf
<1>11. ASSUME NEW d \in Calls \ {c} PROVE Alike(d)
  <2>1. \A n \in Nodes : BlocksOf(n, d)' = BlocksOf(n, d)
    BY <1>4, BlocksAdded
  <2> QED
    BY <1>1, <1>7, <1>8, <2>1, AlikeWhen
<1> QED
  BY <1>0, <1>1, <1>6, <1>7, <1>10, <1>11 DEF CalmStep, Moves, Clean

LEMMA AnswerMoves ==
  ASSUME Undisturbed, Ground, CalmInv, NEW c \in Calls, Answer(c)
  PROVE  CalmStep(c)
<1>0. halted = {} /\ Clean(c)
  BY DEF CalmInv, CallInv
<1>1. /\ Answering(c) /\ Return(c, "done")
      /\ UNCHANGED <<pool, chain, reg, job, prev, attempt, dead, asked, refused,
                     broken, made, losses, expiries>>
  BY DEF Answer
<1>2. /\ trip'[c].block = trip[c].block /\ trip'[c].stage = "done" /\ trip'[c].torn = {}
      /\ \A d \in Calls \ {c} : trip'[d] = trip[d]
      /\ pc' = pc /\ halted' = halted
  BY <1>0, <1>1, ReturnTrip
<1>3. Returned(c)
  BY <1>1, <1>2 DEF Answering, Returned
<1>4. GoesBack(c)
  BY <1>1, <1>2, <1>3 DEF GoesBack, SameJob, SameRegs
<1>5. ASSUME NEW d \in Calls \ {c} PROVE Alike(d)
  BY <1>1, <1>2, AlikeWhen, SameBlocks
<1> QED
  BY <1>0, <1>1, <1>2, <1>4, <1>5 DEF CalmStep, Moves, Clean

LEMMA FinishMoves ==
  ASSUME Undisturbed, Ground, CalmInv, NEW c \in Calls, Finish(c)
  PROVE  CalmStep(c)
<1> DEFINE p == Front(trip[c].path)
           t == [trip[c] EXCEPT !.path = p, !.stage = "done"]
<1>0. halted = {} /\ Clean(c) /\ Spread(c) /\ trip[c] \in Trip /\ "blocked" \in PCs
  BY DEF CalmInv, CallInv, Ground, TypeInv, TypeOK, PCs, Ended
<1>1. /\ Answering(c) /\ Len(trip[c].path) = 2 /\ pc[c] = "travel"
      /\ trip' = [trip EXCEPT ![c] = t]
      /\ UNCHANGED <<pool, chain, job, prev, attempt, dead, asked, refused, broken,
                     made, losses, expiries>>
  BY DEF Finish
<1>2. Len(p) = 1
  <2>1. trip[c].path \in Seq(Nodes) /\ Len(trip[c].path) > 0
    BY <1>0, <1>1 DEF Trip
  <2>2. Len(p) = Len(trip[c].path) - 1
    BY <2>1, FrontInSeq
  <2> QED
    BY <1>1, <2>2
<1> HIDE DEF p
<1>3. t.block = trip[c].block /\ t.stage = "done" /\ t.path = p /\ t.torn = {}
  BY <1>0 DEF Trip, Clean
<1> HIDE DEF t
<1>4. trip'[c] = t /\ \A d \in Calls \ {c} : trip'[d] = trip[d]
  BY <1>1, OneTrip
<1>5. Returned(c)
  BY <1>1, <1>3, <1>4 DEF Answering, Returned
<1>6. Marked(Owner[c], c)
  BY <1>0, <1>5, ReturnedEverywhere
<1>7. EndCall(c, "blocked") /\ UNCHANGED halted
  BY <1>6 DEF Finish, Marked
<1>8. /\ pc'[c] = "blocked" /\ \A d \in Calls \ {c} : pc'[d] = pc[d]
      /\ ~Known(Owner[c], c)'
      /\ \A n \in Nodes \ {Owner[c]} : reg'[n][c] = reg[n][c]
      /\ \A d \in Calls \ {c}, n \in Nodes : reg'[n][d] = reg[n][d]
  BY <1>0, <1>7, EndCallRegs
<1>9. Ends(c)
  BY <1>1, <1>2, <1>3, <1>4, <1>5, <1>8 DEF Ends, SameJob
<1>10. ASSUME NEW d \in Calls \ {c} PROVE Alike(d)
  BY <1>1, <1>4, <1>8, AlikeWhen, SameBlocks
<1> QED
  BY <1>0, <1>1, <1>3, <1>4, <1>7, <1>9, <1>10 DEF CalmStep, Moves, Clean

LEMMA CalmStepAlways ==
  ASSUME Undisturbed, Ground, CalmInv, Next
  PROVE  \E c \in Calls : CalmStep(c)
<1>1. PICK c \in Calls : Start(c) \/ Progress(c) \/ Fault(c)
  BY DEF Next
<1>2. TypeInv /\ ExclusiveInv /\ halted = {} /\ ~broken[c]
  BY DEF Ground, CalmInv, CallInv, Clean
<1>3. ~Fault(c) /\ \A i : ~AwaitThrows(c, i)
  BY <1>2, NoFault
<1>4. \A kept \in BOOLEAN : ~Retransmit(c, kept)
  BY <1>2, NoRetransmit
<1>5. ~AddThrows(c)
  BY <1>2 DEF AddThrows
<1> QED
  BY <1>1, <1>3, <1>4, <1>5, StartMoves, BeginMoves, AskMoves, DeclaredMoves, SignMoves,
     PromptMoves, StoreMoves, TellMoves, AnswerMoves, FinishMoves DEF Progress

-----------------------------------------------------------------------------
(* The invariant *)

LEMMA CalmInit == Init => CalmInv
<1> SUFFICES ASSUME Init PROVE CalmInv
  OBVIOUS
<1>1. \A n \in Nodes, c \in Calls : BlocksOf(n, c) = {} /\ ~Known(n, c)
  BY DEF Init, BlocksOf, Known, NoEntry
<1>2. \A c \in Calls : /\ pc[c] = "idle" /\ ~broken[c] /\ ~Won(c) /\ ~Active(c)
                       /\ trip[c].torn = {}
  BY DEF Init, Won, Active
<1>3. Owner \in [Calls -> Nodes]
  BY ConstantsOK
<1>4. \A c \in Calls : CallInv(c)
  BY <1>1, <1>2, <1>3 DEF CallInv, Clean, Listed, Spread, Nowhere
<1> QED
  BY <1>2, <1>4 DEF CalmInv, DistinctIds, OutOfPool, Init

\* A pool loses the transactions of a block when the chain gets it, and nothing else
\* changes pools and chains.
LEMMA PoolStep ==
  ASSUME Ground, [Next]_vars
  PROVE  UNCHANGED <<pool, chain>> \/ \E c \in Calls, m \in Nodes : AddBlock(c, m)
<1>1. ASSUME NEW c \in Calls, Store(c)
      PROVE  UNCHANGED <<pool, chain>> \/ (AddBlock(c, Here(c)) /\ Here(c) \in Nodes)
  BY <1>1, OwnerNotHere DEF Store, Ground, TypeInv, OnItsWay
<1>2. ASSUME NEW c \in Calls, NEW m \in Nodes, NEW a \in BOOLEAN, ReceiveAdd(c, m, a)
      PROVE  UNCHANGED <<pool, chain>> \/ AddBlock(c, m)
  BY <1>2 DEF ReceiveAdd
<1>3. ASSUME NEW c \in Calls, Start(c) \/ Progress(c) \/ Fault(c), ~Store(c),
             \A m \in Nodes, a \in BOOLEAN : ~ReceiveAdd(c, m, a)
      PROVE  UNCHANGED <<pool, chain>>
  <2>1. CASE Start(c)
    BY <2>1 DEF Start, StartData, StartParcel
  <2>2. CASE Begin(c) \/ (\E kept \in BOOLEAN : Retransmit(c, kept)) \/ Timeout(c)
    BY <2>2 DEF Begin, Retransmit, Timeout
  <2>3. CASE \E m \in Nodes : \/ \E a \in BOOLEAN : ReceiveDeclare(c, m, a)
                           \/ DeclareGiveUp(c, m)
                           \/ Sign(c, m)
                           \/ SendThrows(c, m)
                           \/ AddGiveUp(c, m)
    BY <2>3 DEF ReceiveDeclare, DeclareGiveUp, Sign, SendThrows, AddGiveUp
  <2>4. CASE DeclareThrows(c) \/ DeclareFailed(c) \/ DeclareAccepted(c)
    BY <2>4 DEF DeclareThrows, DeclareFailed, DeclareAccepted
  <2>5. CASE \/ Prompt(c) \/ AddThrows(c) \/ Answer(c) \/ AnswerLost(c)
             \/ Finish(c) \/ \E i \in DOMAIN trip[c].path : AwaitThrows(c, i)
    BY <2>5 DEF Prompt, AddThrows, Answer, AnswerLost, Finish, AwaitThrows
  <2> QED
    BY <1>3, <2>1, <2>2, <2>3, <2>4, <2>5 DEF Progress, Fault
<1> QED
  BY <1>1, <1>2, <1>3 DEF Next, vars

LEMMA OutOfPoolStep ==
  ASSUME Ground, OutOfPool, [Next]_vars
  PROVE  OutOfPool'
<1>1. CASE UNCHANGED <<pool, chain>>
  BY <1>1 DEF OutOfPool
<1>2. ASSUME NEW c \in Calls, NEW m \in Nodes, AddBlock(c, m) PROVE OutOfPool'
  <2>1. TheBlock(c).type = job[c].type /\ TheBlock(c).keys = job[c].keys
    BY DEF TheBlock
  <2>2. pool \in [Nodes -> SUBSET Txs] /\ chain \in [Nodes -> SUBSET Block]
    BY DEF Ground, TypeInv, TypeOK
  <2> HIDE DEF TheBlock
  <2>3. /\ chain'[m] = chain[m] \union {TheBlock(c)}
        /\ pool'[m] = IF job[c].type = data THEN pool[m] \ job[c].keys ELSE pool[m]
        /\ \A n \in Nodes \ {m} : chain'[n] = chain[n] /\ pool'[n] = pool[n]
    BY <1>2, <2>2 DEF AddBlock
  <2>4. ASSUME NEW b \in chain'[m], b.type = data PROVE b.keys \intersect pool'[m] = {}
    BY <2>1, <2>3, <2>4 DEF OutOfPool
  <2> QED
    BY <2>3, <2>4 DEF OutOfPool
<1> QED
  BY <1>1, <1>2, PoolStep

\* Blocks get ever greater numbers.
LEMMA DistinctIdsStep ==
  ASSUME Ground, DistinctIds, NEW c \in Calls, CalmStep(c)
  PROVE  DistinctIds'
<1>1. \A d \in Calls : trip[d].block \in 0 .. made /\ made \in Nat
  BY DEF Ground, CopyInv, TripInv, TypeInv, TypeOK
<1>2. \A d \in Calls \ {c} : trip'[d] = trip[d]
  BY DEF CalmStep, Alike
<1>3. trip'[c].block = trip[c].block \/ trip'[c].block = made + 1
  BY DEF CalmStep, Moves, Starts, Declares, Yields, Withdraws, Sets, Answers, Tells, Goes,
     Puts, GoesBack, Ends, Returned, SameTrip, Stays
<1> QED
  BY <1>1, <1>2, <1>3 DEF DistinctIds, Won

LEMMA CalmInvStep ==
  ASSUME Undisturbed, Ground, CalmInv, [Next]_vars
  PROVE  CalmInv'
<1>1. OutOfPool'
  BY OutOfPoolStep DEF CalmInv
<1>2. CASE Next
  <2>1. PICK c \in Calls : CalmStep(c)
    BY <1>2, CalmStepAlways
  <2>2. DistinctIds'
    BY <2>1, DistinctIdsStep DEF CalmInv
  <2>3. \A d \in Calls \ {c} : CallInv(d)'
    BY <2>1, AlikeInv DEF CalmInv, CalmStep
  <2>4. CallInv(c) /\ Clean(c) /\ Moves(c) /\ broken'[c] = FALSE /\ trip'[c].torn = {}
    BY <2>1 DEF CalmInv, CallInv, CalmStep
  <2>5. Clean(c)' /\ Listed(c)' /\ Spread(c)'
    BY <2>4, OwnClean, OwnListed, OwnSpread
  <2>6. halted' = {}
    BY <2>1 DEF CalmStep
  <2> QED
    BY <1>1, <2>2, <2>3, <2>5, <2>6 DEF CalmInv, CallInv
<1>3. CASE UNCHANGED vars
  <2>1. \A c \in Calls : Alike(c)
    BY <1>3 DEF vars, Alike, Known, BlocksOf
  <2>2. \A c \in Calls : CallInv(c)'
    BY <2>1, AlikeInv DEF CalmInv
  <2>3. DistinctIds' /\ halted' = {}
    BY <1>3 DEF vars, DistinctIds, Won, CalmInv
  <2> QED
    BY <1>1, <2>2, <2>3 DEF CalmInv
<1> QED
  BY <1>2, <1>3

LEMMA GroundInit == Init => Ground
BY TypeInit, SignedInit, GrantInit, CopyInit, ExclusiveInit DEF Ground

LEMMA GroundStep ==
  ASSUME MaxExpiries = 0, Ground, [Next]_vars
  PROVE  Ground'
<1>1. TypeInv /\ SignedInv /\ GrantInv /\ CopyInv /\ ExclusiveInv
  BY DEF Ground
<1>2. TypeInv' /\ SignedInv' /\ GrantInv'
  BY <1>1, TypeStep, SignedStep, GrantStep DEF TypeInv
<1>3. CopyInv'
  BY <1>1, TripInvStep, AgreeInvStep DEF CopyInv
<1>4. ExclusiveInv'
  BY <1>1, ExclusiveStep
<1> QED
  BY <1>2, <1>3, <1>4 DEF Ground

LEMMA QuietNodesAlike ==
  ASSUME Ground, CalmInv, Quiet
  PROVE  QuietAgreement
<1>1. ASSUME NEW n \in Nodes, NEW b \in chain[n] PROVE b.call \in Calls /\ b \in BlocksOf(n, b.call)
  BY DEF Ground, TypeInv, TypeOK, Block, BlocksOf
<1>2. ASSUME NEW c \in Calls, NEW n \in Nodes, NEW m \in Nodes PROVE BlocksOf(n, c) = BlocksOf(m, c)
  <2>1. CASE Won(c)
    BY <2>1 DEF Quiet, Ended, CalmInv, CallInv, Spread, Everywhere
  <2>2. CASE ~Won(c)
    BY <2>2 DEF CalmInv, CallInv, Spread, Nowhere
  <2> QED
    BY <2>1, <2>2
<1>3. ASSUME NEW n \in Nodes, NEW m \in Nodes PROVE chain[n] = chain[m]
  <2>1. ASSUME NEW k \in Nodes, NEW l \in Nodes, NEW b \in chain[k] PROVE b \in chain[l]
    BY <1>1, <1>2 DEF BlocksOf
  <2> QED
    BY <2>1
<1>4. ASSUME NEW n \in Nodes, NEW b \in chain[n]
      PROVE  b.prev \in {0} \union {a.id : a \in chain[n]}
  <2>1. PICK c \in Calls : c = b.call
    BY <1>1
  <2>2. b \in BlocksOf(n, c) /\ b \in Copies(c)
    BY <1>1, <2>1 DEF Copies
  <2>3. b.prev = prev[c]
    BY <2>2 DEF Ground, CopyInv, AgreeInv
  <2>4. Won(c)
    BY <2>2 DEF CalmInv, CallInv, Spread, Nowhere
  <2>5. prev[c] \in {0} \union {a.id : a \in chain[Owner[c]]}
    BY <2>4 DEF CalmInv, CallInv, Spread
  <2>6. chain[Owner[c]] = chain[n]
    BY <1>3, ConstantsOK
  <2> QED
    BY <2>3, <2>5, <2>6
<1> QED
  BY <1>3, <1>4 DEF QuietAgreement, CalmInv, OutOfPool

\* When every node can be reached and has the keys, no RPC fails and no deadline
\* passes, all nodes have the same chain whenever no call is under way, every block in
\* it with its predecessor, and no transaction of it waits in a pool: for any number of
\* nodes, calls, transactions and required signatures.
THEOREM QuietNodesAgree ==
  ASSUME Undisturbed
  PROVE  Spec => []QuietAgreement
<1>1. Init => Ground /\ CalmInv
  BY GroundInit, CalmInit
<1>2. Ground /\ CalmInv /\ [Next]_vars => Ground' /\ CalmInv'
  BY GroundStep, CalmInvStep DEF Undisturbed
<1>3. Ground /\ CalmInv => QuietAgreement
  BY QuietNodesAlike DEF QuietAgreement
<1> QED
  BY <1>1, <1>2, <1>3, PTL DEF Spec

-----------------------------------------------------------------------------
(* Who gives way gives way to someone *)

\* c gives way to d: d has packed a block, or a node other than the two callers has
\* registered d and not c, or c's own node has registered d before c was declared.
Forestalled(c) ==
  \E d \in Calls \ {c} :
    /\ Overlap(c, d)
    /\ \/ Won(d)
       \/ \E m \in Nodes \ {Owner[c], Owner[d]} :
            Known(m, d) /\ ~Known(m, c) /\ (pc[c] = "declare" => m \notin asked[c])
       \/ /\ Owner[d] # Owner[c] /\ Known(Owner[c], d)
          /\ pc[c] = "skipped" /\ \A m \in Nodes : ~Known(m, c)

\* The lock of postAppendBlocks
Turn ==
  \A c, d \in Calls :
    c # d /\ Owner[c] = Owner[d] /\ job[c].type = data /\ job[d].type = data
      => ~ ({pc[c], pc[d]} \subseteq {"snapshot", "declare", "travel"})

GaveWay(c) == pc[c] = "skipped" \/ (pc[c] = "declare" /\ refused[c])

VoteInv == Turn /\ \A c \in Calls : GaveWay(c) => Forestalled(c)

LEMMA VoteInit == Init => VoteInv
BY DEF Init, VoteInv, Turn, GaveWay

LEMMA TurnStep ==
  ASSUME Turn, NEW c \in Calls, CallInv(c), CalmStep(c)
  PROVE  Turn'
<1>1. \A d \in Calls \ {c} : pc'[d] = pc[d] /\ job'[d] = job[d]
  BY DEF CalmStep, Alike
<1>2. \/ Starts(c)
      \/ /\ job'[c] = job[c]
         /\ pc'[c] \in {"snapshot", "declare", "travel"}
              => pc[c] \in {"snapshot", "declare", "travel"}
  BY DEF CalmStep, Moves, Declares, Yields, Withdraws, Sets, Answers, Tells, Goes,
     Puts, GoesBack, Ends, SameJob
<1>3. ASSUME Starts(c), job'[c].type = data, NEW d \in Calls \ {c}, Owner[d] = Owner[c],
             job[d].type = data
      PROVE  pc[d] \notin {"snapshot", "declare", "travel"}
  BY <1>3 DEF Starts, AppendLocked
<1> QED
  BY <1>1, <1>2, <1>3 DEF Turn

\* What others have registered, and what c has packed, stays.
LEMMA MarkStays ==
  ASSUME Ground, NEW c \in Calls, CallInv(c), CalmStep(c)
  PROVE  /\ \A n \in Nodes \ {Owner[c]} : Known(n, c) => Known(n, c)'
         /\ Won(c) => Won(c)'
         /\ ~Starts(c) => job'[c] = job[c]
         /\ Starts(c) => ~Won(c) /\ \A n \in Nodes : ~Known(n, c)
<1>0. Moves(c) /\ made \in Nat
  BY DEF CalmStep, Ground, TypeInv, TypeOK
<1>1. ASSUME NEW n \in Nodes \ {Owner[c]}, Known(n, c) PROVE Known(n, c)'
  BY <1>0, <1>1 DEF Moves, Starts, Declares, Yields, Withdraws, Sets, Answers, Tells, Goes,
     Puts, GoesBack, Ends, Known, SameRegs, Marked
<1>2. trip'[c].block = trip[c].block \/ trip'[c].block = made + 1
  BY <1>0 DEF Moves, Starts, Declares, Yields, Withdraws, Sets, Answers, Tells, Goes,
     Puts, GoesBack, Ends, Returned, SameTrip, Stays
<1>3. ~Starts(c) => job'[c] = job[c]
  BY <1>0 DEF Moves, Declares, Yields, Withdraws, Sets, Answers, Tells, Goes,
     Puts, GoesBack, Ends, SameJob
<1>4. Starts(c) => ~Won(c) /\ \A n \in Nodes : ~Known(n, c)
  BY DEF Starts, CallInv, Listed, Spread
<1> QED
  BY <1>0, <1>1, <1>2, <1>3, <1>4 DEF Won
\* A call that gave way earlier
LEMMA OthersVotes ==
  ASSUME Ground, CalmInv, NEW c \in Calls, CalmStep(c), NEW e \in Calls \ {c},
         GaveWay(e)', GaveWay(e) => Forestalled(e)
  PROVE  Forestalled(e)'
<1>1. /\ pc'[e] = pc[e] /\ job'[e] = job[e] /\ asked'[e] = asked[e] /\ refused'[e] = refused[e]
      /\ \A n \in Nodes : Known(n, e)' <=> Known(n, e)
  BY DEF CalmStep, Alike
<1>2. PICK d \in Calls \ {e} :
        /\ Overlap(e, d)
        /\ \/ Won(d)
           \/ \E m \in Nodes \ {Owner[e], Owner[d]} :
                Known(m, d) /\ ~Known(m, e) /\ (pc[e] = "declare" => m \notin asked[e])
           \/ /\ Owner[d] # Owner[e] /\ Known(Owner[e], d)
              /\ pc[e] = "skipped" /\ \A m \in Nodes : ~Known(m, e)
  BY <1>1 DEF GaveWay, Forestalled
<1>3. /\ \A n \in Nodes \ {Owner[d]} : Known(n, d) => Known(n, d)'
      /\ Won(d) => Won(d)'
      /\ job'[d] = job[d]
  <2>1. CASE d # c
    BY <2>1 DEF CalmStep, Alike, Won
  <2>2. CASE d = c
    <3>1. /\ \A n \in Nodes \ {Owner[c]} : Known(n, c) => Known(n, c)'
          /\ Won(c) => Won(c)'
          /\ ~Starts(c) => job'[c] = job[c]
          /\ Starts(c) => ~Won(c) /\ \A n \in Nodes : ~Known(n, c)
      BY MarkStays DEF CalmInv
    <3> QED
      BY <1>2, <2>2, <3>1, ConstantsOK
  <2> QED
    BY <2>1, <2>2
<1>4. Overlap(e, d)'
  BY <1>1, <1>2, <1>3 DEF Overlap
<1>5. Owner[e] \in Nodes
  BY ConstantsOK
<1>6. \/ Won(d)'
      \/ \E m \in Nodes \ {Owner[e], Owner[d]} :
           Known(m, d)' /\ ~Known(m, e)' /\ (pc'[e] = "declare" => m \notin asked'[e])
      \/ /\ Owner[d] # Owner[e] /\ Known(Owner[e], d)'
         /\ pc'[e] = "skipped" /\ \A m \in Nodes : ~Known(m, e)'
  BY <1>1, <1>2, <1>3, <1>5
<1> QED
  BY <1>4, <1>6 DEF Forestalled

\* c gives way, or has done so, in this step.
LEMMA OwnVote ==
  ASSUME Ground, CalmInv, Turn, NEW c \in Calls, CalmStep(c),
         GaveWay(c)', GaveWay(c) => Forestalled(c)
  PROVE  Forestalled(c)'
<1>0. /\ Moves(c) /\ Listed(c) /\ Spread(c) /\ Owner[c] \in Nodes
      /\ \A d \in Calls \ {c} : Alike(d) /\ Listed(d) /\ Spread(d) /\ Owner[d] \in Nodes
  BY ConstantsOK DEF CalmStep, CalmInv, CallInv
<1>1. ASSUME job'[c] = job[c], NEW d \in Calls \ {c} PROVE Overlap(c, d)' <=> Overlap(c, d)
  BY <1>0, <1>1 DEF Alike, Overlap
<1>2. ASSUME NEW d \in Calls \ {c}
      PROVE  /\ Won(d) => Won(d)'
             /\ \A n \in Nodes : Known(n, d)' <=> Known(n, d)
  BY <1>0 DEF Alike, Won
<1>3. CASE Yields(c)
  <2>1. PICK d \in Calls \ {c} : Known(Owner[c], d) /\ Overlap(c, d)
    BY <1>3 DEF Yields
  <2>2. Overlap(c, d)'
    BY <1>1, <1>3, <2>1 DEF Yields
  <2>3. Owner[d] # Owner[c]
    <3>1. SUFFICES ASSUME Owner[d] = Owner[c] PROVE FALSE
      OBVIOUS
    <3>2. pc[d] \in {"declare", "travel"}
      BY <1>0, <2>1, <3>1 DEF Listed
    <3>3. job[d].type = data /\ job[c].type = data /\ pc[c] = "snapshot"
      BY <1>3, <2>1 DEF Yields, Overlap
    <3> QED
      BY <3>1, <3>2, <3>3 DEF Turn
  <2>4. Known(Owner[c], d)'
    BY <1>0, <1>2, <2>1
  <2>5. pc'[c] = "skipped" /\ \A m \in Nodes : ~Known(m, c)'
    BY <1>0, <1>3 DEF Yields, Listed, Known
  <2> QED
    BY <2>2, <2>3, <2>4, <2>5 DEF Forestalled
<1>4. ASSUME NEW m \in Nodes, Answers(c, m) PROVE Forestalled(c)'
  <2>1. m # Owner[c] /\ m \in asked[c] /\ pc[c] = "declare" /\ pc'[c] = "declare"
        /\ asked'[c] = asked[c] \ {m} /\ job'[c] = job[c]
    BY <1>0, <1>4 DEF Answers, Listed, SameJob
  <2>2. \A n \in Nodes \ {m} : Known(n, c)' <=> Known(n, c)
    BY <1>4 DEF Answers, Known
  <2>3. CASE refused[c]
    <3>1. PICK d \in Calls \ {c} :
            /\ Overlap(c, d)
            /\ \/ Won(d)
               \/ \E k \in Nodes \ {Owner[c], Owner[d]} :
                    Known(k, d) /\ ~Known(k, c) /\ k \notin asked[c]
      BY <2>1, <2>3 DEF Forestalled, GaveWay
    <3>2. CASE Won(d)
      BY <1>1, <1>2, <2>1, <3>1, <3>2 DEF Forestalled
    <3>3. ASSUME NEW k \in Nodes \ {Owner[c], Owner[d]}, Known(k, d), ~Known(k, c),
                 k \notin asked[c]
          PROVE  Forestalled(c)'
      <4>1. k # m /\ Known(k, d)' /\ ~Known(k, c)' /\ k \notin asked'[c]
        BY <1>2, <2>1, <2>2, <3>3
      <4> QED
        BY <1>1, <2>1, <3>1, <3>3, <4>1 DEF Forestalled
    <3> QED
      BY <3>1, <3>2, <3>3
  <2>4. CASE ~refused[c]
    <3>1. ~Known(m, c) /\ Conflict(c, m) /\ reg'[m][c] = reg[m][c]
      BY <1>4, <2>1, <2>4 DEF Answers, GaveWay
    <3>2. PICK d \in Calls : reg[m][d].state \in {"underway", "arrived"} /\ Overlap(c, d)
      BY <3>1 DEF Conflict
    <3>3. d # c /\ Known(m, d) /\ ~Known(m, c)'
      BY <3>1, <3>2 DEF Known
    <3>4. Overlap(c, d)' /\ Known(m, d)' /\ (Won(d) => Won(d)')
      BY <1>1, <1>2, <2>1, <3>2, <3>3
    <3>5. CASE m = Owner[d]
      <4>1. pc[d] = "travel"
        BY <1>0, <3>2, <3>3, <3>5 DEF Listed
      <4>2. Won(d)
        BY <1>0, <3>3, <4>1 DEF Spread
      <4> QED
        BY <3>3, <3>4, <4>2 DEF Forestalled
    <3>6. CASE m # Owner[d]
      BY <2>1, <3>3, <3>4, <3>6 DEF Forestalled
    <3> QED
      BY <3>5, <3>6
  <2> QED
    BY <2>3, <2>4
<1>5. CASE Withdraws(c)
  <2>1. pc[c] = "declare" /\ asked[c] = {} /\ refused[c] /\ pc'[c] = "skipped" /\ job'[c] = job[c]
    BY <1>5 DEF Withdraws, GaveWay, SameJob
  <2>2. \A n \in Nodes \ {Owner[c]} : Known(n, c)' <=> Known(n, c)
    BY <1>5 DEF Withdraws, Known
  <2>3. PICK d \in Calls \ {c} :
          /\ Overlap(c, d)
          /\ \/ Won(d)
             \/ \E k \in Nodes \ {Owner[c], Owner[d]} : Known(k, d) /\ ~Known(k, c)
    BY <2>1 DEF Forestalled, GaveWay
  <2> QED
    BY <1>1, <1>2, <2>1, <2>2, <2>3 DEF Forestalled
<1>6. CASE Starts(c) \/ Declares(c) \/ Sets(c) \/ Ends(c)
  BY <1>6 DEF Starts, Declares, Sets, Ends, GaveWay
<1>7. CASE Goes(c) \/ Puts(c) \/ GoesBack(c) \/ \E m \in Nodes : Tells(c, m)
  <2>1. Active(c) /\ pc'[c] = pc[c]
    BY <1>7 DEF Goes, Puts, GoesBack, Returned, Tells, Active
  <2> QED
    BY <1>0, <2>1 DEF GaveWay, Spread
<1> QED
  BY <1>0, <1>3, <1>4, <1>5, <1>6, <1>7 DEF Moves

LEMMA VoteStep ==
  ASSUME Undisturbed, Ground, CalmInv, VoteInv, [Next]_vars
  PROVE  VoteInv'
<1>1. CASE Next
  <2>1. PICK c \in Calls : CalmStep(c)
    BY <1>1, CalmStepAlways
  <2>2. Turn'
    BY <2>1, TurnStep DEF VoteInv, CalmInv
  <2>3. ASSUME NEW e \in Calls, GaveWay(e)' PROVE Forestalled(e)'
    <3>1. GaveWay(e) => Forestalled(e)
      BY DEF VoteInv
    <3> QED
      BY <2>1, <2>3, <3>1, OthersVotes, OwnVote DEF VoteInv
  <2> QED
    BY <2>2, <2>3 DEF VoteInv
<1>2. CASE UNCHANGED vars
  BY <1>2 DEF vars, VoteInv, Turn, GaveWay, Forestalled, Overlap, Won, Known
<1> QED
  BY <1>1, <1>2

\* All calls have given way: then the votes were split.
LEMMA AllGaveWay ==
  ASSUME Undisturbed, \A n \in Nodes : Nodes # {n}, Ground, CalmInv, VoteInv, Quiet,
         NEW z \in Calls, pc[z] # "idle", \A x \in Calls : pc[x] # "blocked"
  PROVE  SplitVote
<1>1. ASSUME NEW x \in Calls
      PROVE  /\ ~Won(x) /\ ~Known(Owner[x], x) /\ Owner[x] \in Nodes
             /\ pc[x] = "idle" => \A n \in Nodes : ~Known(n, x)
             /\ pc[x] # "idle" => pc[x] = "skipped" /\ Forestalled(x)
  <2>1. Owner[x] \in Nodes /\ ~Alone(Owner[x])
    BY ConstantsOK DEF Undisturbed, Alone
  <2>2. pc[x] # "idle" => pc[x] = "skipped"
    BY <2>1 DEF Quiet, Ended, CalmInv, CallInv, Clean
  <2>3. ~Won(x) /\ ~Known(Owner[x], x) /\ (pc[x] = "idle" => \A n \in Nodes : ~Known(n, x))
    BY <2>2 DEF CalmInv, CallInv, Spread, Listed
  <2> QED
    BY <2>1, <2>2, <2>3 DEF VoteInv, GaveWay
<1> DEFINE Passed(c, d, m) ==
      m \notin {Owner[c], Owner[d]} /\ c # d /\ Overlap(c, d) /\ Known(m, d) /\ ~Known(m, c)
<1>2. ASSUME NEW c \in Calls, pc[c] # "idle"
      PROVE  \E d \in Calls \ {c} :
               /\ pc[d] # "idle"
               /\ \/ \E m \in Nodes : Passed(c, d, m)
                  \/ (\E m \in Nodes : Known(m, d)) /\ \A m \in Nodes : ~Known(m, c)
  <2>1. Forestalled(c)
    BY <1>1, <1>2
  <2>2. PICK d \in Calls \ {c} :
          /\ Overlap(c, d)
          /\ \/ \E m \in Nodes \ {Owner[c], Owner[d]} : Known(m, d) /\ ~Known(m, c)
             \/ Known(Owner[c], d) /\ \A m \in Nodes : ~Known(m, c)
    BY <1>1, <2>1 DEF Forestalled
  <2> QED
    BY <1>1, <2>2
<1>3. ASSUME NEW c \in Calls, pc[c] # "idle", NEW k \in Nodes, Known(k, c)
      PROVE  \E d \in Calls, m \in Nodes : pc[d] # "idle" /\ Passed(c, d, m)
  BY <1>2, <1>3
<1>4. PICK c \in Calls, m \in Nodes : pc[c] # "idle" /\ Known(m, c)
  BY <1>1, <1>2
<1>5. PICK d \in Calls, n \in Nodes : pc[d] # "idle" /\ Passed(c, d, n)
  BY <1>3, <1>4
<1>6. PICK e \in Calls, k \in Nodes : pc[e] # "idle" /\ Passed(d, e, k)
  BY <1>3, <1>5
<1>7. n # k
  BY <1>5, <1>6
<1> QED
  BY <1>5, <1>6, <1>7 DEF SplitVote

\* When every node can be reached and has the keys, no RPC fails and no deadline
\* passes, the calls of two or more nodes never suppress each other altogether, unless
\* two nodes have voted differently: when no call is under way, and there was one, a
\* block was made.
THEOREM NotEveryoneGivesWay ==
  ASSUME Undisturbed, \A n \in Nodes : Nodes # {n}
  PROVE  Spec => []SomeoneWins
<1>1. Init => Ground /\ CalmInv /\ VoteInv
  BY GroundInit, CalmInit, VoteInit
<1>2. Ground /\ CalmInv /\ VoteInv /\ [Next]_vars => Ground' /\ CalmInv' /\ VoteInv'
  BY GroundStep, CalmInvStep, VoteStep DEF Undisturbed
<1>3. Ground /\ CalmInv /\ VoteInv => SomeoneWins
  BY AllGaveWay DEF SomeoneWins
<1> QED
  BY <1>1, <1>2, <1>3, PTL DEF Spec
=============================================================================
