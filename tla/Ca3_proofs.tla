----------------------------- MODULE Ca3_proofs -----------------------------
(***************************************************************************)
(* Theorems about Ca3, for any nodes, calls, transactions and bounds.      *)
(***************************************************************************)
EXTENDS Ca3, SequenceTheorems, FiniteSetTheorems, TLAPS

-----------------------------------------------------------------------------
(* Sequences *)

LEMMA AppendInSeq ==
  ASSUME NEW S, NEW s \in Seq(S), NEW e \in S
  PROVE  /\ Append(s, e) \in Seq(S)
         /\ Len(Append(s, e)) = Len(s) + 1
         /\ Range(Append(s, e)) = Range(s) \union {e}
<1>1. /\ Append(s, e) \in Seq(S)
      /\ Len(Append(s, e)) = Len(s) + 1
      /\ \A i \in 1 .. Len(s) : Append(s, e)[i] = s[i]
      /\ Append(s, e)[Len(s) + 1] = e
  BY AppendProperties
<1>2. /\ Range(s) = {s[i] : i \in 1 .. Len(s)}
      /\ Range(Append(s, e)) = {Append(s, e)[i] : i \in 1 .. Len(s) + 1}
  BY <1>1, RangeEquality
<1>3. Len(s) \in Nat
  BY LenProperties
<1> QED
  BY <1>1, <1>2, <1>3

LEMMA FrontInSeq ==
  ASSUME NEW S, NEW s \in Seq(S), Len(s) > 0
  PROVE  /\ Front(s) \in Seq(S)
         /\ Len(Front(s)) = Len(s) - 1
         /\ \A i \in 1 .. Len(s) - 1 : Front(s)[i] = s[i]
<1>1. Len(s) \in Nat /\ \A i \in 1 .. Len(s) - 1 : s[i] \in S
  BY LenProperties, ElementOfSeq
<1> DEFINE n == Len(s) - 1
<1>2. n \in Nat
  BY <1>1
<1> HIDE DEF n
<1>3. /\ SubSeq(s, 1, n) \in Seq(S)
      /\ Len(SubSeq(s, 1, n)) = IF 1 <= n THEN n - 1 + 1 ELSE 0
      /\ \A i \in 1 .. n - 1 + 1 : SubSeq(s, 1, n)[i] = s[1 + i - 1]
  BY <1>1, <1>2, SubSeqProperties DEF n
<1>4. /\ n - 1 + 1 = n
      /\ Len(SubSeq(s, 1, n)) = n
      /\ \A i \in 1 .. n : 1 + i - 1 = i
  BY <1>2, <1>3
<1>5. \A i \in 1 .. n : SubSeq(s, 1, n)[i] = s[i]
  BY <1>3, <1>4
<1> QED
  BY <1>3, <1>4, <1>5 DEF Front, n

LEMMA FrontType ==
  ASSUME NEW S, NEW s \in Seq(S)
  PROVE  Front(s) \in Seq(S)
<1>1. Len(s) - 1 \in Int /\ \A i \in 1 .. Len(s) - 1 : s[i] \in S
  BY LenProperties, ElementOfSeq
<1> QED
  BY <1>1, SubSeqProperties DEF Front

LEMMA LastInSet ==
  ASSUME NEW S, NEW s \in Seq(S), Len(s) > 0
  PROVE  Last(s) \in S
BY DEF Last

-----------------------------------------------------------------------------
(* Type correctness *)

\* TypeOK is not inductive alone: to know that the node at which an exception
\* is thrown is a node, the path must be long enough for its stage.
OnItsWay ==
  \A c \in Calls :
    /\ trip[c].stage = "send" => Len(trip[c].path) > 0
    /\ trip[c].stage \in {"store", "add"} => Len(trip[c].path) > 1

TypeInv == TypeOK /\ OnItsWay

LEMMA EntryUpdates ==
  ASSUME NEW e \in Entry, NEW g \in Nat
  PROVE  /\ [e EXCEPT !.state = "underway"] \in Entry
         /\ [e EXCEPT !.state = "arrived"] \in Entry
         /\ [e EXCEPT !.state = "arrived", !.stored = TRUE] \in Entry
         /\ [e EXCEPT !.gen = g] \in Entry
         /\ [state |-> "underway", stored |-> FALSE, gen |-> g] \in Entry
         /\ [state |-> "preparation", stored |-> FALSE, gen |-> g] \in Entry
BY DEF Entry

LEMMA SetUpType ==
  ASSUME TypeOK, NEW c \in Calls, NEW kept \in BOOLEAN
  PROVE  SetUp(c, kept) \in [Calls -> Entry]
<1> DEFINE own == reg[Owner[c]]
<1>1. own \in [Calls -> Entry] /\ own[c] \in Entry /\ attempt[c] + 1 \in Nat
  BY ConstantsOK DEF TypeOK
<1> HIDE DEF own
<1>2. /\ NoEntry \in Entry
      /\ [own[c] EXCEPT !.gen = attempt[c] + 1] \in Entry
      /\ [state |-> "preparation", stored |-> FALSE, gen |-> attempt[c] + 1]
           \in Entry
  BY <1>1, EntryUpdates DEF Entry, NoEntry
<1> QED
  BY <1>1, <1>2 DEF SetUp, own

LEMMA TheBlockType ==
  ASSUME TypeOK, NEW c \in Calls
  PROVE  TheBlock(c) \in Block
<1>1. trip[c].block \in Nat /\ trip[c].path \in Seq(Nodes)
  BY DEF TypeOK, Trip
<1>2. Range(trip[c].path) \subseteq Nodes
  BY <1>1, RangeOfSeq
<1> QED
  BY <1>1, <1>2 DEF TypeOK, TheBlock, Block

\* A trip is replaced by another one whose path is long enough.
LEMMA TripUpdate ==
  ASSUME TypeInv, NEW c \in Calls, NEW t \in Trip,
         t.stage = "send" => Len(t.path) > 0,
         t.stage \in {"store", "add"} => Len(t.path) > 1,
         trip' = [trip EXCEPT ![c] = t]
  PROVE  trip' \in [Calls -> Trip] /\ OnItsWay'
<1>1. trip \in [Calls -> Trip]
  BY DEF TypeInv, TypeOK
<1>2. trip'[c] = t /\ \A d \in Calls \ {c} : trip'[d] = trip[d]
  BY <1>1
<1>3. OnItsWay'
  BY <1>2 DEF TypeInv, OnItsWay
<1> QED
  BY <1>1, <1>3

\* Steps that change nothing of a trip but its stage, or the nodes left.
LEMMA TypeStage ==
  ASSUME TypeInv, NEW c \in Calls, NEW st \in {"store", "done"},
         st = "store" => Len(trip[c].path) > 1,
         trip' = [trip EXCEPT ![c].stage = st]
  PROVE  trip' \in [Calls -> Trip] /\ OnItsWay'
<1> DEFINE t == [trip[c] EXCEPT !.stage = st]
<1>1. trip[c] \in Trip
  BY DEF TypeInv, TypeOK
<1>2. t \in Trip /\ t.stage = st /\ t.path = trip[c].path
  BY <1>1 DEF Trip
<1>3. trip' = [trip EXCEPT ![c] = t]
  OBVIOUS
<1> HIDE DEF t
<1> QED
  BY <1>2, <1>3, TripUpdate

LEMMA TypeLeft ==
  ASSUME TypeInv, NEW c \in Calls, NEW l \in SUBSET Nodes,
         trip' = [trip EXCEPT ![c].left = l]
  PROVE  trip' \in [Calls -> Trip] /\ OnItsWay'
<1> DEFINE t == [trip[c] EXCEPT !.left = l]
<1>1. trip[c] \in Trip
  BY DEF TypeInv, TypeOK
<1>2. t \in Trip /\ t.stage = trip[c].stage /\ t.path = trip[c].path
  BY <1>1 DEF Trip
<1>3. trip' = [trip EXCEPT ![c] = t]
  OBVIOUS
<1>4. /\ t.stage = "send" => Len(t.path) > 0
      /\ t.stage \in {"store", "add"} => Len(t.path) > 1
  BY <1>2 DEF TypeInv, OnItsWay
<1> HIDE DEF t
<1> QED
  BY <1>2, <1>3, <1>4, TripUpdate

LEMMA ThrowsType ==
  ASSUME TypeOK, NEW c \in Calls, NEW i \in 1 .. Len(trip[c].path), Throws(c, i)
  PROVE  pc' \in [Calls -> PCs] /\ halted' \in SUBSET Nodes
<1>1. Owner[c] \in Nodes
  BY ConstantsOK
<1>2. trip[c].path[i] \in Nodes
  <2>1. trip[c].path \in Seq(Nodes)
    BY DEF TypeOK, Trip
  <2> QED
    BY <2>1, ElementOfSeq
<1>3. pc \in [Calls -> PCs] /\ halted \in SUBSET Nodes
  BY DEF TypeOK
<1> QED
  BY <1>1, <1>2, <1>3 DEF Throws, OwnerThrows, PCs, Ended

LEMMA ReturnType ==
  ASSUME TypeInv, NEW c \in Calls, NEW st \in {"send", "done"},
         Len(trip[c].path) > 1, Return(c, st)
  PROVE  /\ trip' \in [Calls -> Trip] /\ OnItsWay'
         /\ pc' \in [Calls -> PCs]
         /\ halted' \in SUBSET Nodes
<1> DEFINE stage == IF Here(c) \in trip[c].torn THEN "done" ELSE st
           f == Front(trip[c].path)
           torn == trip[c].torn \ {Here(c)}
           t == [trip[c] EXCEPT !.path = f, !.stage = stage, !.torn = torn]
<1>1. /\ trip[c] \in Trip
      /\ trip[c].path \in Seq(Nodes)
      /\ torn \in SUBSET Nodes
      /\ stage \in {"send", "done"}
  BY DEF TypeInv, TypeOK, Trip
<1>2. f \in Seq(Nodes) /\ Len(f) = Len(trip[c].path) - 1 /\ Len(trip[c].path) \in Nat
  BY <1>1, FrontInSeq, LenProperties
<1>3. trip' \in [Calls -> Trip] /\ OnItsWay'
  <2>1. trip' = [trip EXCEPT ![c] = t]
    BY DEF Return
  <2> HIDE DEF f, stage, torn
  <2>2. t \in Trip /\ t.path = f /\ t.stage = stage
    BY <1>1, <1>2 DEF Trip
  <2>3. Len(f) > 0
    BY <1>2
  <2> HIDE DEF t
  <2> QED
    BY <1>1, <2>1, <2>2, <2>3, TripUpdate
<1>4. pc' \in [Calls -> PCs] /\ halted' \in SUBSET Nodes
  <2>1. CASE Throws(c, Len(trip[c].path) - 1)
    <3>1. Len(trip[c].path) - 1 \in 1 .. Len(trip[c].path)
      BY <1>2
    <3> QED
      BY <2>1, <3>1, ThrowsType DEF TypeInv
  <2>2. CASE UNCHANGED <<pc, halted>>
    BY <2>2 DEF TypeInv, TypeOK
  <2> QED
    BY <2>1, <2>2 DEF Return
<1> QED
  BY <1>3, <1>4

LEMMA TypeInit == Init => TypeInv
<1> SUFFICES ASSUME Init PROVE TypeInv
  OBVIOUS
<1>1. TypeOK
  BY ConstantsOK DEF Init, TypeOK, Types, Entry, NoEntry, PCs, Trip
<1>2. OnItsWay
  BY DEF Init, OnItsWay
<1> QED
  BY <1>1, <1>2 DEF TypeInv

LEMMA TypeStart ==
  ASSUME TypeInv, NEW c \in Calls, Start(c)
  PROVE  TypeInv'
<1>1. CASE StartData(c)
  BY <1>1, ConstantsOK DEF StartData, TypeInv, OnItsWay, TypeOK, PCs, Types, Keys
<1>2. ASSUME NEW p \in Parcels, StartParcel(c, p) PROVE TypeInv'
  BY <1>2 DEF StartParcel, TypeInv, OnItsWay, TypeOK, PCs, Types, Keys
<1> QED
  BY <1>1, <1>2 DEF Start

LEMMA TypeDeclare ==
  ASSUME TypeOK, NEW c \in Calls, NEW kept \in BOOLEAN, Declare(c, kept)
  PROVE  /\ reg' \in [Nodes -> [Calls -> Entry]]
         /\ pc' \in [Calls -> PCs]
         /\ attempt' \in [Calls -> Nat]
         /\ asked' \in [Calls -> SUBSET Nodes]
         /\ refused' \in [Calls -> BOOLEAN]
         /\ broken' \in [Calls -> BOOLEAN]
<1>1. SetUp(c, kept) \in [Calls -> Entry] /\ NoEntry \in Entry
  BY SetUpType DEF NoEntry, Entry
<1>2. attempt' \in [Calls -> Nat]
  BY DEF Declare, TypeOK
<1>3. reg' \in [Nodes -> [Calls -> Entry]]
  <2> DEFINE table == SetUp(c, kept)
  <2>1. table \in [Calls -> Entry] /\ [table EXCEPT ![c] = NoEntry] \in [Calls -> Entry]
    BY <1>1
  <2> HIDE DEF table
  <2>2. \/ reg' = [reg EXCEPT ![Owner[c]] = table]
        \/ reg' = [reg EXCEPT ![Owner[c]] = [table EXCEPT ![c] = NoEntry]]
    BY DEF Declare, table
  <2> QED
    BY <2>1, <2>2 DEF TypeOK
<1>4. /\ pc' \in [Calls -> PCs]
      /\ asked' \in [Calls -> SUBSET Nodes]
      /\ refused' \in [Calls -> BOOLEAN]
      /\ broken' \in [Calls -> BOOLEAN]
  <2>1. \/ /\ pc' = [pc EXCEPT ![c] = "skipped"]
           /\ UNCHANGED <<asked, refused, broken>>
        \/ /\ pc' = [pc EXCEPT ![c] = "declare"]
           /\ asked' = [asked EXCEPT ![c] = Nodes \ ({Owner[c]} \union Abnormal)]
           /\ refused' = [refused EXCEPT ![c] = FALSE]
           /\ broken' = [broken EXCEPT ![c] = FALSE]
    BY DEF Declare
  <2>2. pc' \in [Calls -> PCs]
    BY <2>1 DEF TypeOK, PCs, Ended
  <2>3. refused' \in [Calls -> BOOLEAN] /\ broken' \in [Calls -> BOOLEAN]
    BY <2>1 DEF TypeOK
  <2>4. asked \in [Calls -> SUBSET Nodes]
    BY DEF TypeOK
  <2>5. asked' \in [Calls -> SUBSET Nodes]
    BY <2>1, <2>4
  <2> QED
    BY <2>2, <2>3, <2>5
<1> QED
  BY <1>2, <1>3, <1>4

LEMMA TypeEndCall ==
  ASSUME TypeOK, NEW c \in Calls, NEW how \in Ended, EndCall(c, how)
  PROVE  /\ reg' \in [Nodes -> [Calls -> Entry]]
         /\ pc' \in [Calls -> PCs]
<1>1. Owner[c] \in Nodes /\ NoEntry \in Entry
  BY ConstantsOK DEF NoEntry, Entry
<1> QED
  BY <1>1 DEF EndCall, TypeOK, PCs

LEMMA TypeOwnerThrows ==
  ASSUME TypeOK, NEW c \in Calls, OwnerThrows(c)
  PROVE  pc' \in [Calls -> PCs] /\ halted' \in SUBSET Nodes
<1>1. Owner[c] \in Nodes
  BY ConstantsOK
<1>2. pc \in [Calls -> PCs] /\ halted \in SUBSET Nodes
  BY DEF TypeOK
<1> QED
  BY <1>1, <1>2 DEF OwnerThrows, PCs, Ended

LEMMA TypeCall ==
  ASSUME TypeInv, NEW c \in Calls,
         \/ Begin(c)
         \/ \E kept \in BOOLEAN : Retransmit(c, kept)
         \/ DeclareThrows(c)
         \/ DeclareFailed(c)
         \/ DeclareAccepted(c)
  PROVE  TypeInv'
<1>1. CASE Begin(c)
  <2>1. prev' \in [Calls -> Nat]
    BY <1>1 DEF Begin, TypeInv, TypeOK
  <2> QED
    BY <1>1, <2>1, TypeDeclare DEF Begin, TypeInv, OnItsWay, TypeOK
<1>2. ASSUME NEW kept \in BOOLEAN, Retransmit(c, kept) PROVE TypeInv'
  BY <1>2, TypeDeclare DEF Retransmit, TypeInv, OnItsWay, TypeOK
<1>3. CASE DeclareThrows(c)
  BY <1>3, TypeOwnerThrows DEF DeclareThrows, TypeInv, OnItsWay, TypeOK
<1>4. CASE DeclareFailed(c)
  BY <1>4, TypeEndCall DEF DeclareFailed, Ended, TypeInv, OnItsWay, TypeOK
<1>5. CASE DeclareAccepted(c)
  <2>1. reg' \in [Nodes -> [Calls -> Entry]]
    <3>1. Owner[c] \in Nodes /\ reg[Owner[c]][c] \in Entry
      BY ConstantsOK DEF TypeInv, TypeOK
    <3>2. [reg[Owner[c]][c] EXCEPT !.state = "underway"] \in Entry
      BY <3>1 DEF Entry
    <3> QED
      BY <1>5, <3>1, <3>2 DEF DeclareAccepted, TypeInv, TypeOK
  <2>2. trip' \in [Calls -> Trip] /\ OnItsWay'
    <3> DEFINE t == [block |-> made + 1, path |-> <<Owner[c]>>,
                     stage |-> "send", left |-> {}, torn |-> {}]
    <3>1. <<Owner[c]>> \in Seq(Nodes) /\ Len(<<Owner[c]>>) = 1
      BY ConstantsOK
    <3>2. made + 1 \in Nat
      BY DEF TypeInv, TypeOK
    <3>3. t \in Trip
      BY <3>1, <3>2 DEF Trip
    <3>4. /\ t.stage = "send" /\ Len(t.path) = 1
          /\ trip' = [trip EXCEPT ![c] = t]
      BY <1>5, <3>1 DEF DeclareAccepted
    <3> HIDE DEF t
    <3>5. Len(t.path) > 0 /\ t.stage \notin {"store", "add"}
      BY <3>4
    <3> QED
      BY <3>3, <3>4, <3>5, TripUpdate
  <2> QED
    BY <1>5, <2>1, <2>2 DEF DeclareAccepted, TypeInv, TypeOK, PCs
<1> QED
  BY <1>1, <1>2, <1>3, <1>4, <1>5

LEMMA TypeReceiveDeclare ==
  ASSUME TypeInv, NEW c \in Calls, NEW m \in Nodes, NEW answered \in BOOLEAN,
         ReceiveDeclare(c, m, answered)
  PROVE  TypeInv'
<1> USE DEF TypeInv
<1>1. reg' \in [Nodes -> [Calls -> Entry]]
  <2>1. attempt[c] \in Nat /\ reg[m][c] \in Entry
    BY DEF TypeOK
  <2>2. /\ [reg[m][c] EXCEPT !.gen = attempt[c]] \in Entry
        /\ [state |-> "underway", stored |-> FALSE, gen |-> attempt[c]] \in Entry
    BY <2>1, EntryUpdates
  <2>3. \/ reg' = [reg EXCEPT ![m][c].gen = attempt[c]]
        \/ reg' = [reg EXCEPT ![m][c] = [state |-> "underway", stored |-> FALSE,
                                        gen |-> attempt[c]]]
        \/ reg' = reg
    BY DEF ReceiveDeclare
  <2>4. reg \in [Nodes -> [Calls -> Entry]]
    BY DEF TypeOK
  <2>5. /\ [reg EXCEPT ![m][c].gen = attempt[c]] \in [Nodes -> [Calls -> Entry]]
        /\ [reg EXCEPT ![m][c] = [state |-> "underway", stored |-> FALSE,
                                 gen |-> attempt[c]]] \in [Nodes -> [Calls -> Entry]]
    BY <2>2, <2>4
  <2> QED
    BY <2>3, <2>4, <2>5
<1>2. refused' \in [Calls -> BOOLEAN]
  <2>1. \/ refused' = refused
        \/ refused' = [refused EXCEPT ![c] = refused[c] \/ answered]
    BY DEF ReceiveDeclare
  <2>2. (refused[c] \/ answered) \in BOOLEAN
    OBVIOUS
  <2> QED
    BY <2>1, <2>2 DEF TypeOK
<1>3. losses' \in 0 .. MaxLosses
  BY ConstantsOK DEF ReceiveDeclare, Lose, TypeOK
<1>4. asked' \in [Calls -> SUBSET Nodes]
  <2>1. asked' = asked \/ asked' = [asked EXCEPT ![c] = @ \ {m}]
    BY DEF ReceiveDeclare
  <2> QED
    BY <2>1, ZenonT(60) DEF TypeOK
<1>5. broken' \in [Calls -> BOOLEAN]
  BY DEF ReceiveDeclare, TypeOK
<1> QED
  BY <1>1, <1>2, <1>3, <1>4, <1>5 DEF ReceiveDeclare, TypeOK, OnItsWay

LEMMA FailType ==
  ASSUME TypeOK, NEW m \in Nodes, Fail(m)
  PROVE  losses' \in 0 .. MaxLosses
BY ConstantsOK DEF Fail, Lose, TypeOK

LEMMA TypeGiveUp ==
  ASSUME TypeInv, NEW c \in Calls, NEW m \in Nodes,
         DeclareGiveUp(c, m) \/ AddGiveUp(c, m)
  PROVE  TypeInv'
<1> USE DEF TypeInv
<1>1. losses' \in 0 .. MaxLosses
  BY FailType DEF DeclareGiveUp, AddGiveUp
<1>2. broken' \in [Calls -> BOOLEAN]
  BY DEF DeclareGiveUp, AddGiveUp, TypeOK
<1>3. CASE DeclareGiveUp(c, m)
  <2>1. asked' \in [Calls -> SUBSET Nodes]
    BY <1>3 DEF DeclareGiveUp, TypeOK
  <2> QED
    BY <1>1, <1>2, <1>3, <2>1 DEF DeclareGiveUp, TypeOK, OnItsWay
<1>4. CASE AddGiveUp(c, m)
  <2>1. trip[c] \in Trip /\ trip[c].left \ {m} \in SUBSET Nodes
    BY DEF TypeOK, Trip
  <2>2. trip' \in [Calls -> Trip] /\ OnItsWay'
    BY <1>4, <2>1, TypeLeft DEF AddGiveUp
  <2> QED
    BY <1>1, <1>2, <1>4, <2>2 DEF AddGiveUp, TypeOK
<1> QED
  BY <1>3, <1>4

LEMMA TypeAddBlock ==
  ASSUME TypeOK, NEW c \in Calls, NEW m, AddBlock(c, m)
  PROVE  /\ chain' \in [Nodes -> SUBSET Block]
         /\ pool' \in [Nodes -> SUBSET Txs]
<1>1. TheBlock(c) \in Block
  BY TheBlockType
<1> QED
  BY <1>1 DEF AddBlock, TypeOK

LEMMA TypeSign ==
  ASSUME TypeInv, NEW c \in Calls, NEW m \in Nodes, Sign(c, m)
  PROVE  TypeInv'
<1> USE DEF TypeInv
<1>1. reg' \in [Nodes -> [Calls -> Entry]]
  <2>1. reg[m][c] \in Entry /\ reg \in [Nodes -> [Calls -> Entry]]
    BY DEF TypeOK
  <2>2. [reg[m][c] EXCEPT !.state = "arrived"] \in Entry
    BY <2>1, EntryUpdates
  <2>3. reg' = [reg EXCEPT ![m][c].state = "arrived"]
    BY DEF Sign
  <2> QED
    BY <2>1, <2>2, <2>3
<1>2. trip' \in [Calls -> Trip] /\ OnItsWay'
  <2> DEFINE p == Append(trip[c].path, m)
             st == Signed(Len(trip[c].path) + 1)
             t == [trip[c] EXCEPT !.path = p, !.stage = st]
  <2>1. trip[c] \in Trip /\ trip[c].path \in Seq(Nodes) /\ st \in {"send", "store"}
    BY DEF TypeOK, Trip, Signed
  <2>2. /\ p \in Seq(Nodes)
        /\ Len(p) = Len(trip[c].path) + 1
        /\ Len(trip[c].path) \in Nat /\ Len(trip[c].path) > 0
    BY <2>1, AppendInSeq, LenProperties DEF Sign, OnItsWay
  <2>3. trip' = trip \/ trip' = [trip EXCEPT ![c] = t]
    BY DEF Sign
  <2> HIDE DEF p, st
  <2>4. t \in Trip /\ t.path = p /\ t.stage = st
    BY <2>1, <2>2 DEF Trip
  <2>5. Len(t.path) > 0 /\ Len(t.path) > 1
    BY <2>2, <2>4
  <2> HIDE DEF t
  <2>6. CASE trip' = trip
    BY <2>6 DEF TypeOK, OnItsWay
  <2>7. CASE trip' = [trip EXCEPT ![c] = t]
    BY <2>4, <2>5, <2>7, TripUpdate
  <2> QED
    BY <2>3, <2>6, <2>7
<1> QED
  BY <1>1, <1>2 DEF Sign, TypeOK

LEMMA TypeStore ==
  ASSUME TypeInv, NEW c \in Calls, Store(c)
  PROVE  TypeInv'
<1> USE DEF TypeInv
<1>0. Len(trip[c].path) > 1
  BY DEF Store, OnItsWay
<1>1. /\ trip' \in [Calls -> Trip] /\ OnItsWay'
      /\ pc' \in [Calls -> PCs]
      /\ halted' \in SUBSET Nodes
  <2>1. CASE Return(c, "send")
    BY <1>0, <2>1, ReturnType
  <2>2. CASE /\ trip' = [trip EXCEPT ![c].stage = "add", ![c].left = Recipients(c)]
             /\ UNCHANGED <<pc, halted>>
    <3> DEFINE t == [trip[c] EXCEPT !.stage = "add", !.left = Recipients(c)]
    <3>1. Recipients(c) \in SUBSET Nodes /\ trip[c] \in Trip
      BY DEF Recipients, TypeOK
    <3>2. t \in Trip /\ t.path = trip[c].path /\ t.stage = "add"
      BY <3>1 DEF Trip
    <3>3. trip' = [trip EXCEPT ![c] = t]
      BY <2>2
    <3> HIDE DEF t
    <3>4. trip' \in [Calls -> Trip] /\ OnItsWay'
      BY <1>0, <3>2, <3>3, TripUpdate
    <3> QED
      BY <2>2, <3>4 DEF TypeOK
  <2> QED
    BY <2>1, <2>2 DEF Store
<1>2. /\ chain' \in [Nodes -> SUBSET Block]
      /\ pool' \in [Nodes -> SUBSET Txs]
  <2>1. AddBlock(c, Here(c)) \/ UNCHANGED <<chain, pool>>
    BY DEF Store
  <2> QED
    BY <2>1, TypeAddBlock DEF TypeOK
<1>3. broken' \in [Calls -> BOOLEAN]
  BY DEF Store, TypeOK
<1> QED
  BY <1>1, <1>2, <1>3 DEF Store, TypeOK

LEMMA TypeReceiveAdd ==
  ASSUME TypeInv, NEW c \in Calls, NEW m \in Nodes, NEW answered \in BOOLEAN,
         ReceiveAdd(c, m, answered)
  PROVE  TypeInv'
<1> USE DEF TypeInv
<1>1. reg' \in [Nodes -> [Calls -> Entry]]
  <2>1. reg[m][c] \in Entry /\ reg \in [Nodes -> [Calls -> Entry]]
    BY DEF TypeOK
  <2>2. /\ [reg[m][c] EXCEPT !.state = "arrived"] \in Entry
        /\ [reg[m][c] EXCEPT !.state = "arrived", !.stored = TRUE] \in Entry
    BY <2>1, EntryUpdates
  <2>3. /\ [reg EXCEPT ![m][c].state = "arrived"] \in [Nodes -> [Calls -> Entry]]
        /\ [reg EXCEPT ![m][c].state = "arrived", ![m][c].stored = TRUE]
             \in [Nodes -> [Calls -> Entry]]
    BY <2>1, <2>2
  <2>4. \/ reg' = [reg EXCEPT ![m][c].state = "arrived", ![m][c].stored = TRUE]
        \/ reg' = [reg EXCEPT ![m][c].state = "arrived"]
        \/ reg' = reg
    BY DEF ReceiveAdd
  <2> QED
    BY <2>1, <2>3, <2>4
<1>2. /\ chain' \in [Nodes -> SUBSET Block]
      /\ pool' \in [Nodes -> SUBSET Txs]
  <2>1. AddBlock(c, m) \/ UNCHANGED <<chain, pool>>
    BY DEF ReceiveAdd
  <2> QED
    BY <2>1, TypeAddBlock DEF TypeOK
<1>3. trip' \in [Calls -> Trip] /\ OnItsWay'
  <2>1. trip[c].left \ {m} \in SUBSET Nodes
    BY DEF TypeOK, Trip
  <2>2. \/ trip' = [trip EXCEPT ![c].left = trip[c].left \ {m}]
        \/ trip' = trip
    BY DEF ReceiveAdd
  <2> QED
    BY <2>1, <2>2, TypeLeft DEF TypeOK, OnItsWay
<1>4. losses' \in 0 .. MaxLosses
  BY ConstantsOK DEF ReceiveAdd, Lose, TypeOK
<1>5. broken' \in [Calls -> BOOLEAN]
  BY DEF ReceiveAdd, TypeOK
<1> QED
  BY <1>1, <1>2, <1>3, <1>4, <1>5 DEF ReceiveAdd, TypeOK

LEMMA TypeSteer ==
  ASSUME TypeInv, NEW c \in Calls, Prompt(c) \/ Answer(c)
  PROVE  TypeInv'
<1> USE DEF TypeInv
<1>0. Len(trip[c].path) > 1
  BY DEF Prompt, Answer, Answering
<1>1. /\ trip' \in [Calls -> Trip] /\ OnItsWay'
      /\ pc' \in [Calls -> PCs]
      /\ halted' \in SUBSET Nodes
  <2>1. CASE Return(c, "send") \/ Return(c, "done")
    BY <1>0, <2>1, ReturnType
  <2>2. CASE /\ trip' = [trip EXCEPT ![c].stage = "store"]
             /\ UNCHANGED <<pc, halted>>
    BY <1>0, <2>2, TypeStage DEF TypeOK
  <2> QED
    BY <2>1, <2>2 DEF Prompt, Answer
<1> QED
  BY <1>1 DEF Prompt, Answer, TypeOK

\* The steps at which an exception is thrown on the way.
LEMMA TypeThrows ==
  ASSUME TypeInv, NEW c \in Calls,
         \/ \E m \in Nodes : SendThrows(c, m)
         \/ AddThrows(c)
         \/ \E i \in DOMAIN trip[c].path : AwaitThrows(c, i)
  PROVE  TypeInv'
<1> USE DEF TypeInv
<1>1. trip[c].path \in Seq(Nodes) /\ Len(trip[c].path) \in Nat
  BY LenProperties DEF TypeOK, Trip
<1>2. ASSUME NEW m \in Nodes, SendThrows(c, m) PROVE TypeInv'
  <2>1. Len(trip[c].path) > 0
    BY <1>2 DEF SendThrows, OnItsWay
  <2>2. pc' \in [Calls -> PCs] /\ halted' \in SUBSET Nodes
    BY <1>1, <1>2, <2>1, ThrowsType DEF SendThrows
  <2>3. trip' \in [Calls -> Trip] /\ OnItsWay'
    BY <1>2, TypeStage DEF SendThrows
  <2>4. losses' \in 0 .. MaxLosses
    BY <1>2, FailType DEF SendThrows
  <2> QED
    BY <1>2, <2>2, <2>3, <2>4 DEF SendThrows, TypeOK
<1>3. CASE AddThrows(c)
  <2>1. Len(trip[c].path) > 1
    BY <1>3 DEF AddThrows, OnItsWay
  <2>2. pc' \in [Calls -> PCs] /\ halted' \in SUBSET Nodes
    BY <1>1, <1>3, <2>1, ThrowsType DEF AddThrows
  <2>3. trip' \in [Calls -> Trip] /\ OnItsWay'
    BY <1>3, TypeStage DEF AddThrows
  <2> QED
    BY <1>3, <2>2, <2>3 DEF AddThrows, TypeOK
<1>4. ASSUME NEW i \in DOMAIN trip[c].path, AwaitThrows(c, i) PROVE TypeInv'
  <2>1. i \in 1 .. Len(trip[c].path)
    BY <1>1
  <2>2. pc' \in [Calls -> PCs] /\ halted' \in SUBSET Nodes
    BY <1>4, <2>1, ThrowsType DEF AwaitThrows
  <2> QED
    BY <1>4, <2>2 DEF AwaitThrows, TypeOK, OnItsWay
<1> QED
  BY <1>2, <1>3, <1>4

LEMMA TypeAnswerLost ==
  ASSUME TypeInv, NEW c \in Calls, AnswerLost(c)
  PROVE  TypeInv'
<1> USE DEF TypeInv
<1>1. Here(c) \in Nodes /\ Len(trip[c].path) > 1
  <2>1. trip[c].path \in Seq(Nodes) /\ Len(trip[c].path) > 1
    BY DEF AnswerLost, Answering, TypeOK, Trip
  <2>2. Len(trip[c].path) > 0
    BY <2>1, LenProperties
  <2> QED
    BY <2>1, <2>2, LastInSet DEF Here
<1>2. trip' \in [Calls -> Trip] /\ OnItsWay'
  <2>1. PICK st \in {"done", Signed(Len(trip[c].path))} :
          trip' = [trip EXCEPT ![c].stage = st, ![c].torn = @ \union {Here(c)}]
    BY DEF AnswerLost
  <2> DEFINE torn == trip[c].torn \union {Here(c)}
             t == [trip[c] EXCEPT !.stage = st, !.torn = torn]
  <2>2. trip[c] \in Trip /\ torn \in SUBSET Nodes /\ st \in {"done", "send", "store"}
    BY <1>1 DEF TypeOK, Trip, Signed
  <2>3. trip' = [trip EXCEPT ![c] = t]
    BY <2>1
  <2> HIDE DEF torn
  <2>4. t \in Trip /\ t.path = trip[c].path
    BY <2>2 DEF Trip
  <2>5. Len(t.path) > 0 /\ Len(t.path) > 1
    <3>1. Len(trip[c].path) \in Nat
      BY LenProperties DEF TypeOK, Trip
    <3> QED
      BY <1>1, <2>4, <3>1
  <2> HIDE DEF t
  <2> QED
    BY <2>3, <2>4, <2>5, TripUpdate
<1>3. losses' \in 0 .. MaxLosses
  BY ConstantsOK DEF AnswerLost, Lose, TypeOK
<1> QED
  BY <1>2, <1>3 DEF AnswerLost, TypeOK

LEMMA TypeFinish ==
  ASSUME TypeInv, NEW c \in Calls, Finish(c)
  PROVE  TypeInv'
<1> USE DEF TypeInv
<1>1. trip' \in [Calls -> Trip] /\ OnItsWay'
  <2> DEFINE f == Front(trip[c].path)
             t == [trip[c] EXCEPT !.path = f, !.stage = "done"]
  <2>1. trip[c] \in Trip /\ f \in Seq(Nodes)
    BY FrontType DEF TypeOK, Trip
  <2>2. trip' = [trip EXCEPT ![c] = t]
    BY DEF Finish
  <2> HIDE DEF f
  <2>3. t \in Trip /\ t.stage = "done"
    BY <2>1 DEF Trip
  <2> HIDE DEF t
  <2> QED
    BY <2>2, <2>3, TripUpdate
<1>2. CASE \E how \in Ended : EndCall(c, how) /\ UNCHANGED halted
  BY <1>1, <1>2, TypeEndCall DEF Finish, TypeOK
<1>3. CASE OwnerThrows(c) /\ UNCHANGED reg
  BY <1>1, <1>3, TypeOwnerThrows DEF Finish, TypeOK
<1>4. CASE /\ pc' = [pc EXCEPT ![c] = "spin"]
           /\ UNCHANGED <<reg, halted>>
  BY <1>1, <1>4 DEF Finish, TypeOK, PCs
<1> QED
  BY <1>2, <1>3, <1>4 DEF Finish, Ended

LEMMA TypeTimeout ==
  ASSUME TypeInv, NEW c \in Calls, Timeout(c)
  PROVE  TypeInv'
BY ConstantsOK DEF Timeout, TypeInv, TypeOK, OnItsWay

LEMMA TypeStep == TypeInv /\ [Next]_vars => TypeInv'
<1> SUFFICES ASSUME TypeInv, [Next]_vars PROVE TypeInv'
  OBVIOUS
<1>1. CASE UNCHANGED vars
  BY <1>1 DEF TypeInv, OnItsWay, TypeOK, vars
<1>2. ASSUME NEW c \in Calls, Start(c) \/ Progress(c) \/ Fault(c) PROVE TypeInv'
  <2>1. CASE Start(c)
    BY <2>1, TypeStart
  <2>2. CASE Progress(c)
    BY <2>2, TypeCall, TypeReceiveDeclare, TypeSign, TypeSteer, TypeStore,
       TypeThrows, TypeFinish, TypeReceiveAdd DEF Progress
  <2>3. CASE Fault(c)
    BY <2>3, TypeReceiveDeclare, TypeGiveUp, TypeThrows, TypeReceiveAdd,
       TypeAnswerLost, TypeTimeout DEF Fault
  <2> QED
    BY <1>2, <2>1, <2>2, <2>3
<1> QED
  BY <1>1, <1>2 DEF Next

\* Every variable has its type in every reachable state, whatever the nodes,
\* the calls and the bounds on failures.
THEOREM TypeCorrect == Spec => []TypeOK
<1>1. Init => TypeInv
  BY TypeInit
<1>2. TypeInv /\ [Next]_vars => TypeInv'
  BY TypeStep
<1>3. TypeInv => TypeOK
  BY DEF TypeInv
<1> QED
  BY <1>1, <1>2, <1>3, PTL DEF Spec

-----------------------------------------------------------------------------
(* No node holds the registrations of two overlapping calls of others *)

\* NoDoubleGrant is not inductive: it also takes that a registration only
\* exists once its call has started, so that what the call wants is fixed, and
\* that the registration of another node's call is one that Conflict counts.
GrantInv ==
  /\ NoDoubleGrant
  /\ \A m \in Nodes, c \in Calls : Known(m, c) =>
       /\ pc[c] # "idle"
       /\ Owner[c] # m => reg[m][c].state \in {"underway", "arrived"}

\* A started call stays started, and what it wants is fixed.
JobsFixed ==
  \A c \in Calls : pc[c] # "idle" => job'[c] = job[c] /\ pc'[c] # "idle"

\* In this step node m registers c, which it did not know, and nothing else.
Grants(m, c) ==
  /\ pc[c] = "declare"
  /\ ~Known(m, c)
  /\ ~Conflict(c, m)
  /\ reg'[m][c].state = "underway"
  /\ \A d \in Calls \ {c} : reg'[m][d] = reg[m][d]
  /\ pc' = pc /\ job' = job

\* What a step does to the registrations.
RegsKept ==
  \A m \in Nodes, c \in Calls : reg'[m][c].state # "absent" =>
    \/ /\ Known(m, c)
       /\ reg'[m][c].state \in {reg[m][c].state, "underway", "arrived"}
    \/ Owner[c] = m /\ pc'[c] # "idle"
    \/ Grants(m, c)

LEMMA JobsFixedStep == TypeOK /\ [Next]_vars => JobsFixed
<1> SUFFICES ASSUME TypeOK, [Next]_vars PROVE JobsFixed
  OBVIOUS
<1>1. CASE UNCHANGED vars
  BY <1>1 DEF vars, JobsFixed
<1>2. ASSUME NEW c \in Calls, Start(c) \/ Progress(c) \/ Fault(c) PROVE JobsFixed
  <2>1. CASE Start(c)
    BY <2>1 DEF Start, StartData, StartParcel, JobsFixed, TypeOK
  <2>2. ASSUME ~Start(c) PROVE
          /\ job' = job
          /\ pc' = pc \/ \E p \in PCs \ {"idle"} : pc' = [pc EXCEPT ![c] = p]
    <3>1. CASE Progress(c)
      BY <3>1 DEF Progress, Begin, Retransmit, Declare, ReceiveDeclare,
         DeclareThrows, DeclareFailed, DeclareAccepted, EndCall, OwnerThrows,
         Throws, Return, Sign, Prompt, Store, ReceiveAdd, AddThrows, Answer,
         AwaitThrows, Finish, PCs, Ended
    <3>2. CASE Fault(c)
      BY <3>2 DEF Fault, ReceiveDeclare, DeclareGiveUp, SendThrows, Throws,
         OwnerThrows, ReceiveAdd, AddGiveUp, AnswerLost, Timeout, PCs, Ended
    <3> QED
      BY <1>2, <2>2, <3>1, <3>2, SMTT(30)
  <2> QED
    BY <2>1, <2>2 DEF JobsFixed, TypeOK
<1> QED
  BY <1>1, <1>2 DEF Next

LEMMA RegsKeptDeclare ==
  ASSUME TypeOK, NEW c \in Calls, NEW kept \in BOOLEAN, Declare(c, kept)
  PROVE  RegsKept
<1> DEFINE table == SetUp(c, kept)
<1>1. /\ Owner[c] \in Nodes
      /\ pc'[c] # "idle"
  BY ConstantsOK DEF Declare, TypeOK
<1>2. \/ reg' = [reg EXCEPT ![Owner[c]] = table]
      \/ reg' = [reg EXCEPT ![Owner[c]] = [table EXCEPT ![c] = NoEntry]]
  BY DEF Declare
<1>3. table \in [Calls -> Entry]
  BY SetUpType
<1>4. \A d \in Calls \ {c} : table[d] = reg[Owner[c]][d] \/ table[d] = NoEntry
  BY DEF SetUp
<1> HIDE DEF table
<1>5. ASSUME NEW m \in Nodes, NEW d \in Calls, reg'[m][d].state # "absent"
      PROVE  \/ Owner[d] = m /\ pc'[d] # "idle"
             \/ Known(m, d) /\ reg'[m][d].state = reg[m][d].state
  <2>1. CASE m # Owner[c]
    BY <1>2, <1>5, <2>1 DEF TypeOK, Known
  <2>2. CASE m = Owner[c] /\ d = c
    BY <1>1, <2>2
  <2>3. CASE m = Owner[c] /\ d # c
    <3>1. reg'[m][d] = table[d]
      BY <1>1, <1>2, <1>3, <2>3 DEF TypeOK
    <3> QED
      BY <1>4, <1>5, <2>3, <3>1 DEF Known, NoEntry
  <2> QED
    BY <2>1, <2>2, <2>3
<1> QED
  BY <1>5 DEF RegsKept

LEMMA RegsKeptReceiveDeclare ==
  ASSUME TypeOK, NEW c \in Calls, NEW m \in Nodes, NEW answered \in BOOLEAN,
         ReceiveDeclare(c, m, answered)
  PROVE  RegsKept
<1>1. CASE Known(m, c) /\ reg' = [reg EXCEPT ![m][c].gen = attempt[c]]
  BY <1>1 DEF TypeOK, Entry, RegsKept, Known
<1>2. CASE /\ ~Known(m, c)
           /\ ~Conflict(c, m)
           /\ reg' = [reg EXCEPT ![m][c] = [state |-> "underway", stored |-> FALSE,
                                           gen |-> attempt[c]]]
  <2>1. Grants(m, c)
    BY <1>2 DEF Grants, ReceiveDeclare, TypeOK
  <2>2. \A n \in Nodes, d \in Calls : <<n, d>> # <<m, c>> => reg'[n][d] = reg[n][d]
    BY <1>2 DEF TypeOK
  <2> QED
    BY <2>1, <2>2 DEF RegsKept, Known
<1>3. CASE reg' = reg
  BY <1>3 DEF RegsKept, Known
<1> QED
  BY <1>1, <1>2, <1>3 DEF ReceiveDeclare

LEMMA RegsKeptStep == TypeOK /\ [Next]_vars => RegsKept
<1> SUFFICES ASSUME TypeOK, [Next]_vars PROVE RegsKept
  OBVIOUS
<1>1. CASE reg' = reg
  BY <1>1 DEF RegsKept, Known
<1>2. ASSUME NEW c \in Calls, NEW how \in Ended, EndCall(c, how)
      PROVE  RegsKept
  BY <1>2, ConstantsOK DEF EndCall, RegsKept, Known, NoEntry, TypeOK
<1>3. ASSUME NEW c \in Calls, NEW m \in Nodes, Sign(c, m)
      PROVE  RegsKept
  BY <1>3 DEF Sign, RegsKept, Live, Known, TypeOK, Entry
<1>4. ASSUME NEW c \in Calls, DeclareAccepted(c)
      PROVE  RegsKept
  BY <1>4, ConstantsOK DEF DeclareAccepted, RegsKept, Live, Known, TypeOK, Entry
<1>5. ASSUME NEW c \in Calls, NEW m \in Nodes, NEW answered \in BOOLEAN,
             ReceiveAdd(c, m, answered)
      PROVE  RegsKept
  <2>1. \/ Known(m, c) /\ reg' = [reg EXCEPT ![m][c].state = "arrived",
                                            ![m][c].stored = TRUE]
        \/ Known(m, c) /\ reg' = [reg EXCEPT ![m][c].state = "arrived"]
        \/ reg' = reg
    BY <1>5 DEF ReceiveAdd, AddBlock, Storable, Live
  <2>2. \A n \in Nodes, d \in Calls : <<n, d>> # <<m, c>> => reg'[n][d] = reg[n][d]
    BY <2>1 DEF TypeOK
  <2>3. reg' = reg \/ (Known(m, c) /\ reg'[m][c].state = "arrived")
    BY <2>1 DEF TypeOK, Entry
  <2> QED
    BY <2>2, <2>3 DEF RegsKept, Known
<1>6. ASSUME NEW c \in Calls, Start(c) \/ Progress(c) \/ Fault(c)
      PROVE  RegsKept
  <2>1. CASE Start(c) \/ Prompt(c) \/ Store(c) \/ Answer(c)
    BY <1>1, <2>1 DEF Start, StartData, StartParcel, Prompt, Store, Answer
  <2>2. CASE Begin(c) \/ \E kept \in BOOLEAN : Retransmit(c, kept)
    BY <2>2, RegsKeptDeclare DEF Begin, Retransmit
  <2>3. CASE DeclareFailed(c) \/ Finish(c)
    BY <1>1, <1>2, <2>3 DEF DeclareFailed, Finish, Ended
  <2>4. CASE \/ \E m \in Nodes : \/ DeclareGiveUp(c, m)
                              \/ SendThrows(c, m)
                              \/ AddGiveUp(c, m)
             \/ DeclareThrows(c)
             \/ AddThrows(c)
             \/ \E i \in DOMAIN trip[c].path : AwaitThrows(c, i)
    BY <1>1, <2>4 DEF DeclareGiveUp, SendThrows, AddGiveUp, DeclareThrows,
       AddThrows, AwaitThrows
  <2>5. CASE AnswerLost(c) \/ Timeout(c)
    BY <1>1, <2>5 DEF AnswerLost, Timeout
  <2> QED
    BY <1>3, <1>4, <1>5, <1>6, <2>1, <2>2, <2>3, <2>4, <2>5, ConstantsOK,
       RegsKeptReceiveDeclare DEF Progress, Fault
<1> QED
  BY <1>1, <1>6 DEF Next, vars

LEMMA GrantInit == Init => GrantInv
BY DEF Init, GrantInv, NoDoubleGrant, Known, NoEntry

LEMMA GrantStep == TypeOK /\ GrantInv /\ [Next]_vars => GrantInv'
<1> SUFFICES ASSUME TypeOK, GrantInv, [Next]_vars PROVE GrantInv'
  OBVIOUS
<1>1. JobsFixed /\ RegsKept
  BY JobsFixedStep, RegsKeptStep
<1>2. ASSUME NEW m \in Nodes, NEW c \in Calls, Known(m, c)'
      PROVE  /\ pc'[c] # "idle"
             /\ Owner[c] # m => reg'[m][c].state \in {"underway", "arrived"}
  BY <1>1, <1>2 DEF JobsFixed, RegsKept, Grants, GrantInv, Known
<1>3. ASSUME NEW m \in Nodes, NEW c \in Calls, NEW d \in Calls, c # d,
             Owner[c] # m, Owner[d] # m, Known(m, c)', Known(m, d)'
      PROVE  ~Overlap(c, d)'
  <2>1. /\ Known(m, c) \/ Grants(m, c)
        /\ Known(m, d) \/ Grants(m, d)
    BY <1>1, <1>3 DEF RegsKept, Known
  <2>2. job'[c] = job[c] /\ job'[d] = job[d]
    BY <1>1, <2>1 DEF JobsFixed, GrantInv, Grants
  <2>3. Overlap(c, d)' = Overlap(c, d) /\ Overlap(c, d) = Overlap(d, c)
    BY <2>2 DEF Overlap
  <2>4. CASE Known(m, c) /\ Known(m, d)
    BY <1>3, <2>3, <2>4 DEF GrantInv, NoDoubleGrant
  <2>5. CASE Grants(m, c)
    <3>1. Known(m, d)
      BY <1>3, <2>5 DEF Grants, Known
    <3>2. reg[m][d].state \in {"underway", "arrived"}
      BY <1>3, <3>1 DEF GrantInv
    <3> QED
      BY <2>3, <2>5, <3>2 DEF Grants, Conflict
  <2>6. CASE Grants(m, d)
    <3>1. Known(m, c)
      BY <1>3, <2>6 DEF Grants, Known
    <3>2. reg[m][c].state \in {"underway", "arrived"}
      BY <1>3, <3>1 DEF GrantInv
    <3> QED
      BY <2>3, <2>6, <3>2 DEF Grants, Conflict
  <2> QED
    BY <2>1, <2>4, <2>5, <2>6
<1> QED
  BY <1>2, <1>3 DEF GrantInv, NoDoubleGrant

\* No node is ever registered with the overlapping calls of two other nodes at
\* once, whatever is lost, repeated or timed out: the third node of the README's
\* argument for exclusive blocking never consents twice.
THEOREM GrantsExclusive == Spec => []NoDoubleGrant
<1>1. Init => TypeInv /\ GrantInv
  BY TypeInit, GrantInit
<1>2. TypeInv /\ GrantInv /\ [Next]_vars => TypeInv' /\ GrantInv'
  BY TypeStep, GrantStep DEF TypeInv
<1>3. GrantInv => NoDoubleGrant
  BY DEF GrantInv
<1> QED
  BY <1>1, <1>2, <1>3, PTL DEF Spec
-----------------------------------------------------------------------------
(* Paths *)

LEMMA DistinctAppend ==
  ASSUME NEW S, NEW s \in Seq(S), NEW e \in S, IsInjective(s), e \notin Range(s)
  PROVE  IsInjective(Append(s, e))
<1>1. /\ Append(s, e) \in Seq(S)
      /\ Len(Append(s, e)) = Len(s) + 1
      /\ \A i \in 1 .. Len(s) : Append(s, e)[i] = s[i]
      /\ Append(s, e)[Len(s) + 1] = e
      /\ Len(s) \in Nat
  BY AppendProperties, LenProperties
<1>2. \A i \in 1 .. Len(s) : s[i] # e
  BY RangeEquality
<1>3. DOMAIN Append(s, e) = 1 .. Len(s) + 1 /\ DOMAIN s = 1 .. Len(s)
  BY <1>1, LenProperties
<1>4. ASSUME NEW i \in 1 .. Len(s) + 1, NEW j \in 1 .. Len(s) + 1,
             Append(s, e)[i] = Append(s, e)[j]
      PROVE  i = j
  <2>1. (i \in 1 .. Len(s) \/ i = Len(s) + 1) /\ (j \in 1 .. Len(s) \/ j = Len(s) + 1)
    BY <1>1
  <2>2. \A k, l \in 1 .. Len(s) : s[k] = s[l] => k = l
    BY <1>3 DEF IsInjective
  <2> QED
    BY <1>1, <1>2, <1>4, <2>1, <2>2
<1> QED
  BY <1>3, <1>4 DEF IsInjective

LEMMA DistinctFront ==
  ASSUME NEW S, NEW s \in Seq(S), Len(s) > 0, IsInjective(s)
  PROVE  IsInjective(Front(s))
<1>1. /\ Front(s) \in Seq(S)
      /\ Len(Front(s)) = Len(s) - 1
      /\ \A i \in 1 .. Len(s) - 1 : Front(s)[i] = s[i]
      /\ Len(s) \in Nat
  BY FrontInSeq, LenProperties
<1>2. DOMAIN Front(s) = 1 .. Len(s) - 1 /\ DOMAIN s = 1 .. Len(s)
  BY <1>1, LenProperties
<1>3. 1 .. Len(s) - 1 \subseteq 1 .. Len(s)
  BY <1>1
<1>4. \A i, j \in 1 .. Len(s) : s[i] = s[j] => i = j
  BY <1>2 DEF IsInjective
<1>5. \A i, j \in 1 .. Len(s) - 1 : Front(s)[i] = Front(s)[j] => i = j
  BY <1>1, <1>3, <1>4
<1> QED
  BY <1>2, <1>5 DEF IsInjective

\* An injective path has as many signers as it is long.
LEMMA SignersOfPath ==
  ASSUME NEW S, NEW s \in Seq(S), IsInjective(s)
  PROVE  Cardinality(Range(s)) = Len(s) /\ IsFiniteSet(Range(s))
<1>1. Len(s) \in Nat /\ s \in [1 .. Len(s) -> S] /\ DOMAIN s = 1 .. Len(s)
  BY LenProperties
<1>2. Range(s) = {s[i] : i \in 1 .. Len(s)}
  BY RangeEquality
<1>3. s \in Bijection(1 .. Len(s), Range(s))
  BY <1>1, <1>2 DEF Bijection, Injection, Surjection, IsInjective
<1>4. ExistsBijection(1 .. Len(s), Range(s))
  BY <1>3 DEF ExistsBijection
<1>5. IsFiniteSet(1 .. Len(s)) /\ Cardinality(1 .. Len(s)) = Len(s)
  BY <1>1, FS_Interval
<1> QED
  BY <1>4, <1>5, FS_Bijection

-----------------------------------------------------------------------------
(* What a step does to a trip *)

Departs(c) == trip'[c].path = <<Owner[c]>> /\ trip'[c].stage = "send"

SignedBy(c, m) ==
  /\ Len(trip[c].path) > 0
  /\ m \in Nodes \ Range(trip[c].path)
  /\ trip'[c].path = Append(trip[c].path, m)
  /\ trip'[c].stage = Signed(Len(trip[c].path) + 1)

Returns(c) ==
  /\ Len(trip[c].path) > 1
  /\ trip'[c].path = Front(trip[c].path)
  /\ trip'[c].stage \in {"send", "done"}

\* Nothing else than the stage, and the nodes left or torn, changes.
Rests(c) ==
  /\ trip'[c].path = trip[c].path
  /\ \/ trip'[c].stage = "done"
     \/ trip'[c].stage = trip[c].stage
     \/ trip'[c].stage = Signed(Len(trip[c].path))
     \/ /\ trip'[c].stage = "store"
        /\ Nodes \ Range(trip[c].path) \subseteq Abnormal
        /\ Len(trip[c].path) >= MinSign
     \/ trip[c].stage = "store" /\ trip'[c].stage = "add"

TripStep ==
  \A c \in Calls :
    Departs(c) \/ Returns(c) \/ Rests(c) \/ \E m \in Nodes : SignedBy(c, m)

LEMMA ReturnReturns ==
  ASSUME TypeInv, NEW c \in Calls, NEW st \in {"send", "done"},
         Len(trip[c].path) > 1, Return(c, st)
  PROVE  TripStep
<1> DEFINE stage == IF Here(c) \in trip[c].torn THEN "done" ELSE st
           torn == trip[c].torn \ {Here(c)}
           t == [trip[c] EXCEPT !.path = Front(@), !.stage = stage, !.torn = torn]
<1>1. trip \in [Calls -> Trip] /\ stage \in {"send", "done"}
  BY DEF TypeInv, TypeOK
<1>2. trip' = [trip EXCEPT ![c] = t]
  BY DEF Return
<1> HIDE DEF stage, torn
<1>3. t.path = Front(trip[c].path) /\ t.stage = stage
  BY <1>1 DEF Trip
<1> HIDE DEF t
<1>4. trip'[c] = t /\ \A d \in Calls \ {c} : trip'[d] = trip[d]
  BY <1>1, <1>2
<1>5. Returns(c)
  BY <1>1, <1>3, <1>4 DEF Returns
<1> QED
  BY <1>4, <1>5 DEF TripStep, Rests

LEMMA TripStepAlways == TypeInv /\ [Next]_vars => TripStep
<1> SUFFICES ASSUME TypeInv, [Next]_vars PROVE TripStep
  OBVIOUS
<1>0. trip \in [Calls -> Trip] /\ \A c \in Calls : trip[c] \in Trip
  BY DEF TypeInv, TypeOK
<1>1. CASE trip' = trip
  BY <1>1 DEF TripStep, Rests
<1>2. ASSUME NEW c \in Calls, trip' = [trip EXCEPT ![c].stage = "done"]
      PROVE  TripStep
  BY <1>0, <1>2 DEF TripStep, Rests, Trip
<1>3. ASSUME NEW c \in Calls, NEW m \in Nodes, Sign(c, m)
      PROVE  TripStep
  <2> DEFINE p == Append(trip[c].path, m)
             st == Signed(Len(trip[c].path) + 1)
  <2>1. \/ trip' = trip
        \/ trip' = [trip EXCEPT ![c].path = p, ![c].stage = st]
    BY <1>3 DEF Sign
  <2>2. m \in Nodes \ Range(trip[c].path) /\ Len(trip[c].path) > 0
    BY <1>3 DEF Sign, TypeInv, OnItsWay
  <2>3. CASE trip' = [trip EXCEPT ![c].path = p, ![c].stage = st]
    <3> HIDE DEF p, st
    <3>1. /\ trip'[c].path = p /\ trip'[c].stage = st
          /\ \A d \in Calls \ {c} : trip'[d] = trip[d]
      BY <1>0, <2>3 DEF Trip
    <3> QED
      BY <2>2, <3>1 DEF TripStep, Rests, SignedBy, p, st
  <2> QED
    BY <1>1, <2>1, <2>3
<1>4. ASSUME NEW c \in Calls, Prompt(c) PROVE TripStep
  <2>1. CASE Return(c, "send")
    BY <1>4, <2>1, ReturnReturns DEF Prompt
  <2>2. CASE Len(trip[c].path) >= MinSign /\ trip' = [trip EXCEPT ![c].stage = "store"]
    BY <1>0, <1>4, <2>2 DEF Prompt, TripStep, Rests, Trip
  <2> QED
    BY <1>4, <2>1, <2>2 DEF Prompt
<1>5. ASSUME NEW c \in Calls, Store(c) PROVE TripStep
  <2>1. CASE Return(c, "send")
    BY <1>5, <2>1, ReturnReturns DEF Store, TypeInv, OnItsWay
  <2>2. CASE trip' = [trip EXCEPT ![c].stage = "add", ![c].left = Recipients(c)]
    BY <1>0, <1>5, <2>2 DEF Store, TripStep, Rests, Trip
  <2> QED
    BY <1>5, <2>1, <2>2 DEF Store
<1>6. ASSUME NEW c \in Calls, Answer(c) PROVE TripStep
  BY <1>6, ReturnReturns DEF Answer, Answering
<1>7. ASSUME NEW c \in Calls, Finish(c) PROVE TripStep
  <2>0. Len(trip[c].path) > 1
    BY <1>7 DEF Finish, Answering
  <2> DEFINE f == Front(trip[c].path)
  <2>1. trip' = [trip EXCEPT ![c].path = f, ![c].stage = "done"]
    BY <1>7 DEF Finish
  <2> HIDE DEF f
  <2>2. /\ trip'[c].path = f /\ trip'[c].stage = "done"
        /\ \A d \in Calls \ {c} : trip'[d] = trip[d]
    BY <1>0, <2>1 DEF Trip
  <2> QED
    BY <2>0, <2>2 DEF TripStep, Rests, Returns, f
<1>8. ASSUME NEW c \in Calls, AnswerLost(c) PROVE TripStep
  <2>1. PICK st \in {"done", Signed(Len(trip[c].path))} :
          trip' = [trip EXCEPT ![c].stage = st, ![c].torn = @ \union {Here(c)}]
    BY <1>8 DEF AnswerLost
  <2> QED
    BY <1>0, <2>1 DEF TripStep, Rests, Trip
<1>9. ASSUME NEW c \in Calls, NEW m \in Nodes,
             trip' = [trip EXCEPT ![c].left = @ \ {m}]
      PROVE  TripStep
  BY <1>0, <1>9 DEF TripStep, Rests, Trip
<1>10. ASSUME NEW c \in Calls, DeclareAccepted(c) PROVE TripStep
  BY <1>0, <1>10 DEF DeclareAccepted, TripStep, Rests, Departs
<1>11. ASSUME NEW c \in Calls, Start(c) \/ Progress(c) \/ Fault(c)
       PROVE  TripStep
  <2>1. CASE Start(c)
    BY <1>1, <2>1 DEF Start, StartData, StartParcel
  <2>2. CASE Begin(c) \/ \E kept \in BOOLEAN : Retransmit(c, kept)
    BY <1>1, <2>2 DEF Begin, Retransmit
  <2>3. CASE \E m \in Nodes : \/ \E a \in BOOLEAN : ReceiveDeclare(c, m, a)
                           \/ DeclareGiveUp(c, m)
    BY <1>1, <2>3 DEF ReceiveDeclare, DeclareGiveUp
  <2>4. CASE DeclareThrows(c) \/ DeclareFailed(c) \/ Timeout(c)
    BY <1>1, <2>4 DEF DeclareThrows, DeclareFailed, Timeout
  <2>5. CASE \E m \in Nodes : \/ \E a \in BOOLEAN : ReceiveAdd(c, m, a)
                           \/ AddGiveUp(c, m)
    BY <1>1, <1>9, <2>5 DEF ReceiveAdd, AddGiveUp
  <2>6. CASE (\E m \in Nodes : SendThrows(c, m)) \/ AddThrows(c)
    BY <1>2, <2>6 DEF SendThrows, AddThrows
  <2>7. CASE \E i \in DOMAIN trip[c].path : AwaitThrows(c, i)
    BY <1>1, <2>7 DEF AwaitThrows
  <2> QED
    BY <1>3, <1>4, <1>5, <1>6, <1>7, <1>8, <1>10, <1>11, <2>1, <2>2, <2>3, <2>4,
       <2>5, <2>6, <2>7 DEF Progress, Fault
<1> QED
  BY <1>1, <1>11 DEF Next, vars
-----------------------------------------------------------------------------
(* What is stored carries enough signatures *)

\* The signers on a path are distinct, the creator is the first of them, and a
\* block that is about to be stored, or was, has enough of them.
PathOK(c) ==
  /\ IsInjective(trip[c].path)
  /\ Len(trip[c].path) > 0 => trip[c].path[1] = Owner[c]
  /\ trip[c].stage \in {"store", "add"} =>
       \/ Len(trip[c].path) >= MaxSign
       \/ Abnormal # {} /\ Len(trip[c].path) >= MinSign

SignedInv == SignedEnough /\ \A c \in Calls : PathOK(c)

LEMMA SignedInit == Init => SignedInv
<1> SUFFICES ASSUME Init PROVE SignedInv
  OBVIOUS
<1>1. SignedEnough
  BY DEF Init, SignedEnough, Copies
<1>2. \A c \in Calls : PathOK(c)
  BY DEF Init, PathOK, IsInjective
<1> QED
  BY <1>1, <1>2 DEF SignedInv

LEMMA PathStep ==
  ASSUME TypeInv, \A c \in Calls : PathOK(c), TripStep
  PROVE  \A c \in Calls : PathOK(c)'
<1> TAKE c \in Calls
<1> DEFINE p == trip[c].path
<1>0. /\ p \in Seq(Nodes) /\ Len(p) \in Nat /\ PathOK(c)
      /\ DOMAIN p = 1 .. Len(p) /\ IsInjective(p)
  BY LenProperties DEF TypeInv, TypeOK, Trip, PathOK
<1>1. CASE Departs(c)
  <2> DEFINE q == <<Owner[c]>>
  <2>1. q \in Seq(Nodes) /\ DOMAIN q = 1 .. 1 /\ q[1] = Owner[c]
    BY ConstantsOK
  <2>2. IsInjective(q)
    BY <2>1 DEF IsInjective
  <2> QED
    BY <1>1, <2>1, <2>2 DEF Departs, PathOK
<1>2. ASSUME NEW m \in Nodes, SignedBy(c, m) PROVE PathOK(c)'
  <2>1. IsInjective(Append(p, m))
    BY <1>0, <1>2, DistinctAppend DEF SignedBy
  <2>2. Len(Append(p, m)) = Len(p) + 1 /\ Append(p, m)[1] = p[1]
    BY <1>0, <1>2, AppendProperties DEF SignedBy
  <2>3. trip'[c].stage \in {"store", "add"} => Len(p) + 1 >= MaxSign
    BY <1>0, <1>2, ConstantsOK DEF SignedBy, Signed
  <2> QED
    BY <1>0, <1>2, <2>1, <2>2, <2>3 DEF SignedBy, PathOK
<1>3. CASE Returns(c)
  <2>1. IsInjective(Front(p))
    BY <1>0, <1>3, DistinctFront DEF Returns
  <2>2. Front(p)[1] = p[1]
    BY <1>0, <1>3, FrontInSeq DEF Returns
  <2> QED
    BY <1>0, <1>3, <2>1, <2>2 DEF Returns, PathOK
<1>4. CASE Rests(c)
  <2>1. trip'[c].path = p
    BY <1>4 DEF Rests
  <2>2. ASSUME Nodes \ Range(p) \subseteq Abnormal, Len(p) >= MinSign
        PROVE  Len(p) >= MaxSign \/ (Abnormal # {} /\ Len(p) >= MinSign)
    <3>1. CASE Abnormal = {}
      <4>1. Range(p) = Nodes
        BY <1>0, <2>2, <3>1, RangeOfSeq
      <4>2. Cardinality(Nodes) = Len(p)
        BY <1>0, <4>1, SignersOfPath
      <4> QED
        BY <4>2, EnoughSigners
    <3> QED
      BY <2>2, <3>1
  <2>3. Signed(Len(p)) \in {"store", "add"} => Len(p) >= MaxSign
    BY <1>0, ConstantsOK DEF Signed
  <2>4. trip'[c].stage \in {"store", "add"} =>
          Len(p) >= MaxSign \/ (Abnormal # {} /\ Len(p) >= MinSign)
    BY <1>0, <1>4, <2>2, <2>3 DEF Rests, PathOK
  <2> QED
    BY <1>0, <2>1, <2>4 DEF PathOK
<1> QED
  BY <1>1, <1>2, <1>3, <1>4 DEF TripStep

\* A block is stored only where its trip has got to, or by one of those that
\* are told to.
ChainStep ==
  \A n \in Nodes :
    \/ chain'[n] = chain[n]
    \/ \E c \in Calls : /\ trip[c].stage \in {"store", "add"}
                        /\ chain'[n] = chain[n] \union {TheBlock(c)}

LEMMA AddsBlock ==
  ASSUME TypeInv, NEW c \in Calls, NEW m, AddBlock(c, m),
         trip[c].stage \in {"store", "add"}
  PROVE  ChainStep
BY DEF AddBlock, ChainStep, TypeInv, TypeOK

LEMMA ChainStepAlways == TypeInv /\ [Next]_vars => ChainStep
<1> SUFFICES ASSUME TypeInv, [Next]_vars PROVE ChainStep
  OBVIOUS
<1>1. CASE chain' = chain
  BY <1>1 DEF ChainStep
<1>2. ASSUME NEW c \in Calls, Store(c) \/ \E m \in Nodes, a \in BOOLEAN : ReceiveAdd(c, m, a)
      PROVE  ChainStep
  BY <1>1, <1>2, AddsBlock DEF Store, ReceiveAdd
<1>3. ASSUME NEW c \in Calls, Start(c) \/ Progress(c) \/ Fault(c)
      PROVE  ChainStep
  <2>1. CASE Start(c)
    BY <1>1, <2>1 DEF Start, StartData, StartParcel
  <2>2. CASE Begin(c) \/ (\E kept \in BOOLEAN : Retransmit(c, kept)) \/ Timeout(c)
    BY <1>1, <2>2 DEF Begin, Retransmit, Timeout
  <2>3. CASE \E m \in Nodes : \/ \E a \in BOOLEAN : ReceiveDeclare(c, m, a)
                           \/ DeclareGiveUp(c, m)
                           \/ Sign(c, m)
                           \/ SendThrows(c, m)
                           \/ AddGiveUp(c, m)
    BY <1>1, <2>3 DEF ReceiveDeclare, DeclareGiveUp, Sign, SendThrows, AddGiveUp
  <2>4. CASE DeclareThrows(c) \/ DeclareFailed(c) \/ DeclareAccepted(c)
    BY <1>1, <2>4 DEF DeclareThrows, DeclareFailed, DeclareAccepted
  <2>5. CASE \/ Prompt(c) \/ AddThrows(c) \/ Answer(c) \/ AnswerLost(c)
             \/ Finish(c) \/ \E i \in DOMAIN trip[c].path : AwaitThrows(c, i)
    BY <1>1, <2>5 DEF Prompt, AddThrows, Answer, AnswerLost, Finish, AwaitThrows
  <2> QED
    BY <1>2, <1>3, <2>1, <2>2, <2>3, <2>4, <2>5 DEF Progress, Fault
<1> QED
  BY <1>1, <1>3 DEF Next, vars

EnoughSigned(c, b) ==
  /\ Owner[c] \in b.signedby
  /\ Cardinality(b.signedby) >= 2
  /\ \/ Cardinality(b.signedby) >= MaxSign
     \/ Abnormal # {} /\ Cardinality(b.signedby) >= MinSign

LEMMA StoredSigned ==
  ASSUME TypeInv, NEW c \in Calls, PathOK(c), trip[c].stage \in {"store", "add"}
  PROVE  EnoughSigned(c, TheBlock(c))
<1> DEFINE p == trip[c].path
<1>1. p \in Seq(Nodes) /\ Len(p) \in Nat /\ Len(p) > 1
  BY LenProperties DEF TypeInv, TypeOK, OnItsWay, Trip
<1>2. Cardinality(Range(p)) = Len(p)
  BY <1>1, SignersOfPath DEF PathOK
<1>3. Owner[c] \in Range(p)
  BY <1>1, RangeEquality DEF PathOK
<1>4. TheBlock(c).signedby = Range(p)
  BY DEF TheBlock
<1> QED
  BY <1>1, <1>2, <1>3, <1>4 DEF PathOK, EnoughSigned

LEMMA SignedStep == TypeInv /\ SignedInv /\ [Next]_vars => SignedInv'
<1> SUFFICES ASSUME TypeInv, SignedInv, [Next]_vars PROVE SignedInv'
  OBVIOUS
<1>1. TripStep /\ ChainStep
  BY TripStepAlways, ChainStepAlways
<1>2. \A c \in Calls : PathOK(c)'
  BY <1>1, PathStep DEF SignedInv
<1>3. ASSUME NEW c \in Calls, NEW n \in Nodes, NEW b \in chain'[n], b.call = c
      PROVE  EnoughSigned(c, b)
  <2>1. CASE b \in chain[n]
    BY <1>3, <2>1 DEF SignedInv, SignedEnough, Copies, EnoughSigned
  <2>2. CASE b \notin chain[n]
    <3>1. PICK d \in Calls : b = TheBlock(d) /\ trip[d].stage \in {"store", "add"}
      BY <1>1, <2>2 DEF ChainStep
    <3>2. d = c
      BY <1>3, <3>1 DEF TheBlock
    <3> QED
      BY <3>1, <3>2, StoredSigned DEF SignedInv
  <2> QED
    BY <2>1, <2>2
<1>4. SignedEnough'
  BY <1>3 DEF SignedEnough, Copies, EnoughSigned
<1> QED
  BY <1>2, <1>4 DEF SignedInv

\* Every stored block carries its creator's and another node's signature, and
\* maxSignNodes of them unless nodes are left out, whichever path it took and
\* however often a request was repeated on the way.
THEOREM StoredAreSigned == Spec => []SignedEnough
<1>1. Init => TypeInv /\ SignedInv
  BY TypeInit, SignedInit
<1>2. TypeInv /\ SignedInv /\ [Next]_vars => TypeInv' /\ SignedInv'
  BY TypeStep, SignedStep
<1>3. SignedInv => SignedEnough
  BY DEF SignedInv
<1> QED
  BY <1>1, <1>2, <1>3, PTL DEF Spec
-----------------------------------------------------------------------------
(* A block that is returned is stored *)

HasBlock(n, c) == \E b \in chain[n] : b.call = c

\* The creator has the block, and so has another signer.
TwoHaveIt(c) ==
  /\ HasBlock(Owner[c], c)
  /\ \E n \in Nodes \ {Owner[c]} : HasBlock(n, c)

\* A node that tells the others to store a block has stored it.  The creator's
\* own entry is marked as stored only once it was told so.
StoredInv ==
  \A c \in Calls :
    /\ trip[c].stage = "add" => HasBlock(Here(c), c)
    /\ reg[Owner[c]][c].stored \/ pc[c] = "blocked" => TwoHaveIt(c)

\* What a step does to that.
CallStep ==
  \A c \in Calls :
    /\ trip'[c].stage = "add" => trip[c].stage = "add" \/ HasBlock(Here(c), c)'
    /\ reg'[Owner[c]][c].stored =>
         \/ reg[Owner[c]][c].stored
         \/ trip[c].stage = "add" /\ HasBlock(Owner[c], c)'
    /\ pc'[c] = "blocked" => pc[c] = "blocked" \/ reg[Owner[c]][c].stored

NoneStored ==
  \A c \in Calls : reg'[Owner[c]][c].stored => reg[Owner[c]][c].stored

NoneBlocked == \A c \in Calls : pc'[c] = "blocked" => pc[c] = "blocked"

NoneAdds == \A c \in Calls : trip'[c].stage = "add" => trip[c].stage = "add"

LEMMA DeclareStoresNone ==
  ASSUME TypeInv, NEW c \in Calls, NEW kept \in BOOLEAN, Declare(c, kept)
  PROVE  NoneStored /\ NoneBlocked
<1> DEFINE table == SetUp(c, kept)
<1>1. NoneBlocked
  BY DEF Declare, NoneBlocked, TypeInv, TypeOK
<1>2. \/ reg' = [reg EXCEPT ![Owner[c]] = table]
      \/ reg' = [reg EXCEPT ![Owner[c]] = [table EXCEPT ![c] = NoEntry]]
  BY DEF Declare
<1>3. table \in [Calls -> Entry] /\ reg \in [Nodes -> [Calls -> Entry]]
  BY SetUpType DEF TypeInv, TypeOK
<1>4. ASSUME NEW d \in Calls, table[d].stored PROVE reg[Owner[c]][d].stored
  <2>1. reg[Owner[c]][d] \in Entry
    BY <1>3, ConstantsOK
  <2>2. \/ table[d] = [reg[Owner[c]][d] EXCEPT !.gen = attempt[c] + 1]
        \/ table[d] = reg[Owner[c]][d]
        \/ table[d].stored = FALSE
    BY DEF SetUp, NoEntry
  <2> HIDE DEF table
  <2> QED
    BY <1>4, <2>1, <2>2 DEF Entry
<1> HIDE DEF table
<1>5. ASSUME NEW d \in Calls, reg'[Owner[d]][d].stored
      PROVE  reg[Owner[d]][d].stored
  <2>1. Owner[c] \in Nodes /\ Owner[d] \in Nodes /\ NoEntry.stored = FALSE
    BY ConstantsOK DEF NoEntry
  <2>2. CASE Owner[d] # Owner[c]
    BY <1>2, <1>3, <1>5, <2>1, <2>2
  <2>3. CASE Owner[d] = Owner[c]
    <3>1. \/ reg'[Owner[d]] = table
          \/ reg'[Owner[d]] = [table EXCEPT ![c] = NoEntry]
      BY <1>2, <1>3, <2>1, <2>3
    <3>2. table[d].stored
      BY <1>3, <1>5, <2>1, <3>1
    <3> QED
      BY <1>4, <2>3, <3>2
  <2> QED
    BY <2>2, <2>3
<1> QED
  BY <1>1, <1>5 DEF NoneStored

LEMMA RegStoresNone ==
  ASSUME TypeInv, NEW c \in Calls, NEW m \in Nodes, NEW e \in Entry,
         e.stored => reg[m][c].stored, reg' = [reg EXCEPT ![m][c] = e]
  PROVE  NoneStored
BY ConstantsOK DEF TypeInv, TypeOK, NoneStored

LEMMA EndStoresNone ==
  ASSUME TypeInv, NEW c \in Calls, NEW how \in Ended, EndCall(c, how)
  PROVE  NoneStored /\ (how # "blocked" => NoneBlocked)
<1>1. NoEntry \in Entry /\ Owner[c] \in Nodes
  BY ConstantsOK DEF NoEntry, Entry
<1>2. NoneStored
  BY <1>1, RegStoresNone DEF EndCall, NoEntry
<1> QED
  BY <1>2 DEF EndCall, NoneBlocked, TypeInv, TypeOK

LEMMA ThrowsBlocksNone ==
  ASSUME TypeInv, NEW c \in Calls, NEW i, Throws(c, i) \/ OwnerThrows(c)
  PROVE  NoneBlocked
BY DEF Throws, OwnerThrows, NoneBlocked, TypeInv, TypeOK

LEMMA ReturnBlocksNone ==
  ASSUME TypeInv, NEW c \in Calls, NEW st \in {"send", "done"}, Return(c, st)
  PROVE  NoneBlocked
BY ThrowsBlocksNone DEF Return, NoneBlocked, TypeInv, TypeOK

LEMMA ReturnAddsNone ==
  ASSUME TypeInv, NEW c \in Calls, NEW st \in {"send", "done"},
         Len(trip[c].path) > 1, Return(c, st)
  PROVE  NoneAdds
<1> DEFINE stage == IF Here(c) \in trip[c].torn THEN "done" ELSE st
           torn == trip[c].torn \ {Here(c)}
           t == [trip[c] EXCEPT !.path = Front(@), !.stage = stage, !.torn = torn]
<1>1. trip \in [Calls -> Trip] /\ trip[c] \in Trip /\ stage \in {"send", "done"}
  BY DEF TypeInv, TypeOK
<1>2. trip' = [trip EXCEPT ![c] = t]
  BY DEF Return
<1> HIDE DEF stage, torn
<1>3. t.stage = stage
  BY <1>1 DEF Trip
<1> HIDE DEF t
<1> QED
  BY <1>1, <1>2, <1>3 DEF NoneAdds

LEMMA ReceiveAddStores ==
  ASSUME TypeInv, NEW c \in Calls, NEW m \in Nodes, NEW answered \in BOOLEAN,
         ReceiveAdd(c, m, answered)
  PROVE  CallStep
<1> DEFINE stores == AddBlock(c, m) /\ reg' = [reg EXCEPT ![m][c].state = "arrived",
                                                         ![m][c].stored = TRUE]
<1>0. /\ reg \in [Nodes -> [Calls -> Entry]] /\ reg[m][c] \in Entry
      /\ trip \in [Calls -> Trip]
  BY DEF TypeInv, TypeOK
<1>1. NoneBlocked
  BY DEF ReceiveAdd, NoneBlocked
<1>2. NoneAdds
  <2>1. trip' = trip \/ trip' = [trip EXCEPT ![c].left = @ \ {m}]
    BY DEF ReceiveAdd
  <2>2. CASE trip' = trip
    BY <2>2 DEF NoneAdds
  <2>3. CASE trip' = [trip EXCEPT ![c].left = @ \ {m}]
    BY <1>0, <2>3 DEF NoneAdds, Trip
  <2> QED
    BY <2>1, <2>2, <2>3
<1>3. CASE stores
  <2>1. HasBlock(m, c)'
    <3>1. TheBlock(c) \in chain'[m]
      BY <1>3 DEF AddBlock, TypeInv, TypeOK
    <3> QED
      BY <3>1 DEF HasBlock, TheBlock
  <2>2. \A n \in Nodes, d \in Calls : <<n, d>> # <<m, c>> => reg'[n][d] = reg[n][d]
    BY <1>0, <1>3
  <2>3. trip[c].stage = "add"
    BY DEF ReceiveAdd
  <2> QED
    BY <1>1, <1>2, <2>1, <2>2, <2>3, ConstantsOK
    DEF CallStep, NoneBlocked, NoneAdds
<1>4. CASE ~stores
  <2>1. reg' = reg \/ reg' = [reg EXCEPT ![m][c].state = "arrived"]
    BY <1>4 DEF ReceiveAdd
  <2>2. NoneStored
    <3> DEFINE e == [reg[m][c] EXCEPT !.state = "arrived"]
    <3>1. e \in Entry /\ e.stored = reg[m][c].stored
      BY <1>0 DEF Entry
    <3>2. reg' = reg \/ reg' = [reg EXCEPT ![m][c] = e]
      BY <2>1
    <3> HIDE DEF e
    <3> QED
      BY <3>1, <3>2, RegStoresNone DEF NoneStored
  <2> QED
    BY <1>1, <1>2, <2>2 DEF CallStep, NoneBlocked, NoneAdds, NoneStored
<1> QED
  BY <1>3, <1>4

LEMMA StoreStores ==
  ASSUME TypeInv, NEW c \in Calls, Store(c)
  PROVE  CallStep
<1>1. NoneStored
  BY DEF Store, NoneStored
<1>2. CASE Return(c, "send")
  <2>1. Len(trip[c].path) > 1
    BY DEF Store, TypeInv, OnItsWay
  <2> QED
    BY <1>1, <1>2, <2>1, ReturnBlocksNone, ReturnAddsNone
    DEF CallStep, NoneStored, NoneBlocked, NoneAdds
<1>3. CASE /\ AddBlock(c, Here(c))
           /\ trip' = [trip EXCEPT ![c].stage = "add", ![c].left = Recipients(c)]
           /\ UNCHANGED <<pc, halted>>
  <2>1. Here(c) \in Nodes
    <3>1. trip[c].path \in Seq(Nodes) /\ Len(trip[c].path) > 1
      BY DEF Store, TypeInv, TypeOK, OnItsWay, Trip
    <3>2. Len(trip[c].path) > 0
      BY <3>1, LenProperties
    <3> QED
      BY <3>1, <3>2, LastInSet DEF Here
  <2>2. HasBlock(Here(c), c)'
    <3> DEFINE h == Here(c)
    <3>1. h' = h
      BY <1>3 DEF Here, TypeInv, TypeOK, Trip
    <3>2. TheBlock(c) \in chain'[h]
      BY <1>3, <2>1 DEF AddBlock, TypeInv, TypeOK
    <3> QED
      BY <3>1, <3>2 DEF HasBlock, TheBlock
  <2>3. \A d \in Calls \ {c} : trip'[d] = trip[d]
    BY <1>3 DEF TypeInv, TypeOK
  <2>4. \A d \in Calls : trip'[d].stage = "add" =>
          trip[d].stage = "add" \/ HasBlock(Here(d), d)'
    BY <2>2, <2>3
  <2> QED
    BY <1>1, <1>3, <2>4 DEF CallStep, NoneStored
<1> QED
  BY <1>2, <1>3 DEF Store

LEMMA NothingStored == NoneStored /\ NoneBlocked /\ NoneAdds => CallStep
BY DEF CallStep, NoneStored, NoneBlocked, NoneAdds

LEMMA CallStepAlways == TypeInv /\ [Next]_vars => CallStep
<1> SUFFICES ASSUME TypeInv, [Next]_vars PROVE CallStep
  OBVIOUS
<1>0. reg \in [Nodes -> [Calls -> Entry]] /\ trip \in [Calls -> Trip]
  BY DEF TypeInv, TypeOK
<1>1. /\ reg' = reg => NoneStored
      /\ pc' = pc => NoneBlocked
      /\ trip' = trip => NoneAdds
  BY DEF NoneStored, NoneBlocked, NoneAdds
<1>2. ASSUME NEW c \in Calls, trip' = [trip EXCEPT ![c].stage = "done"]
      PROVE  NoneAdds
  BY <1>0, <1>2 DEF NoneAdds, Trip
<1>3. ASSUME NEW c \in Calls,
             \/ Start(c) \/ DeclareThrows(c)
             \/ \E i \in DOMAIN trip[c].path : AwaitThrows(c, i)
      PROVE  CallStep
  <2>1. UNCHANGED <<reg, trip>>
    BY <1>3 DEF Start, StartData, StartParcel, DeclareThrows, AwaitThrows
  <2>2. NoneBlocked
    BY <1>3, ThrowsBlocksNone
    DEF Start, StartData, StartParcel, DeclareThrows, AwaitThrows, NoneBlocked,
        TypeInv, TypeOK
  <2> QED
    BY <1>1, <2>1, <2>2, NothingStored
<1>4. ASSUME NEW c \in Calls, Begin(c) \/ \E kept \in BOOLEAN : Retransmit(c, kept)
      PROVE  CallStep
  BY <1>1, <1>4, DeclareStoresNone, NothingStored DEF Begin, Retransmit
<1>5. ASSUME NEW c \in Calls, NEW m \in Nodes,
             (\E a \in BOOLEAN : ReceiveDeclare(c, m, a)) \/ DeclareGiveUp(c, m)
      PROVE  CallStep
  <2>1. \/ reg' = reg
        \/ reg' = [reg EXCEPT ![m][c].gen = attempt[c]]
        \/ reg' = [reg EXCEPT ![m][c] = [state |-> "underway", stored |-> FALSE,
                                        gen |-> attempt[c]]]
    BY <1>5 DEF ReceiveDeclare, DeclareGiveUp
  <2>2. NoneStored
    <3> DEFINE e == [reg[m][c] EXCEPT !.gen = attempt[c]]
               f == [state |-> "underway", stored |-> FALSE, gen |-> attempt[c]]
    <3>1. reg[m][c] \in Entry /\ attempt[c] \in Nat
      BY DEF TypeInv, TypeOK
    <3>2. e \in Entry /\ f \in Entry /\ e.stored = reg[m][c].stored /\ ~f.stored
      BY <3>1, EntryUpdates DEF Entry
    <3>3. \/ reg' = reg
          \/ reg' = [reg EXCEPT ![m][c] = e]
          \/ reg' = [reg EXCEPT ![m][c] = f]
      BY <2>1
    <3> HIDE DEF e, f
    <3> QED
      BY <1>1, <3>2, <3>3, RegStoresNone
  <2> QED
    BY <1>1, <1>5, <2>2, NothingStored DEF ReceiveDeclare, DeclareGiveUp
<1>6. ASSUME NEW c \in Calls, DeclareFailed(c) PROVE CallStep
  BY <1>1, <1>6, EndStoresNone, NothingStored DEF DeclareFailed, Ended
<1>7. ASSUME NEW c \in Calls, DeclareAccepted(c) PROVE CallStep
  <2>1. NoneStored
    BY <1>0, <1>7, ConstantsOK DEF DeclareAccepted, NoneStored, Entry
  <2>2. NoneBlocked /\ NoneAdds
    BY <1>0, <1>7 DEF DeclareAccepted, NoneBlocked, NoneAdds, TypeInv, TypeOK
  <2> QED
    BY <2>1, <2>2, NothingStored
<1>8. ASSUME NEW c \in Calls, NEW m \in Nodes, Sign(c, m) PROVE CallStep
  <2>1. NoneStored
    BY <1>0, <1>8, ConstantsOK DEF Sign, NoneStored, Entry
  <2>2. NoneAdds
    <3> DEFINE p == Append(trip[c].path, m)
               st == Signed(Len(trip[c].path) + 1)
    <3>1. trip' = trip \/ trip' = [trip EXCEPT ![c].path = p, ![c].stage = st]
      BY <1>8 DEF Sign
    <3>2. st # "add"
      BY DEF Signed
    <3> HIDE DEF p, st
    <3> QED
      BY <1>0, <3>1, <3>2 DEF NoneAdds, Trip
  <2> QED
    BY <1>1, <1>8, <2>1, <2>2, NothingStored DEF Sign
<1>9. ASSUME NEW c \in Calls, (\E m \in Nodes : SendThrows(c, m)) \/ AddThrows(c)
      PROVE  CallStep
  BY <1>1, <1>2, <1>9, ThrowsBlocksNone, NothingStored DEF SendThrows, AddThrows
<1>10. ASSUME NEW c \in Calls, Prompt(c) \/ Answer(c) PROVE CallStep
  <2>1. Len(trip[c].path) > 1 /\ UNCHANGED reg
    BY <1>10 DEF Prompt, Answer, Answering
  <2>2. CASE \E st \in {"send", "done"} : Return(c, st)
    BY <1>1, <2>1, <2>2, ReturnBlocksNone, ReturnAddsNone, NothingStored
  <2>3. CASE trip' = [trip EXCEPT ![c].stage = "store"] /\ UNCHANGED <<pc, halted>>
    <3>1. NoneAdds
      BY <1>0, <2>3 DEF NoneAdds, Trip
    <3> QED
      BY <1>1, <2>1, <2>3, <3>1, NothingStored
  <2> QED
    BY <1>10, <2>2, <2>3 DEF Prompt, Answer
<1>11. ASSUME NEW c \in Calls, NEW m \in Nodes, AddGiveUp(c, m) PROVE CallStep
  <2>1. NoneAdds
    BY <1>0, <1>11 DEF AddGiveUp, NoneAdds, Trip
  <2> QED
    BY <1>1, <1>11, <2>1, NothingStored DEF AddGiveUp
<1>12. ASSUME NEW c \in Calls, AnswerLost(c) PROVE CallStep
  <2>1. PICK st \in {"done", Signed(Len(trip[c].path))} :
          trip' = [trip EXCEPT ![c].stage = st, ![c].torn = @ \union {Here(c)}]
    BY <1>12 DEF AnswerLost
  <2>2. NoneAdds
    BY <1>0, <2>1 DEF NoneAdds, Trip, Signed
  <2> QED
    BY <1>1, <1>12, <2>2, NothingStored DEF AnswerLost
<1>13. ASSUME NEW c \in Calls, Finish(c) PROVE CallStep
  <2>1. NoneAdds
    <3> DEFINE f == Front(trip[c].path)
    <3>1. trip' = [trip EXCEPT ![c].path = f, ![c].stage = "done"]
      BY <1>13 DEF Finish
    <3> HIDE DEF f
    <3> QED
      BY <1>0, <3>1 DEF NoneAdds, Trip
  <2>2. CASE /\ UNCHANGED reg
             /\ OwnerThrows(c) \/ pc' = [pc EXCEPT ![c] = "spin"]
    <3>1. NoneBlocked
      BY <2>2 DEF OwnerThrows, NoneBlocked, TypeInv, TypeOK
    <3> QED
      BY <1>1, <2>1, <2>2, <3>1, NothingStored
  <2>3. CASE EndCall(c, "failed")
    BY <2>1, <2>3, EndStoresNone, NothingStored DEF Ended
  <2>4. CASE reg[Owner[c]][c].stored /\ EndCall(c, "blocked")
    <3>1. NoneStored
      BY <2>4, EndStoresNone DEF Ended
    <3>2. \A d \in Calls \ {c} : pc'[d] = pc[d]
      BY <2>4 DEF EndCall, TypeInv, TypeOK
    <3> QED
      BY <2>1, <2>4, <3>1, <3>2 DEF CallStep, NoneStored, NoneAdds
  <2> QED
    BY <1>13, <2>2, <2>3, <2>4 DEF Finish
<1>14. ASSUME NEW c \in Calls, Timeout(c) PROVE CallStep
  BY <1>1, <1>14, NothingStored DEF Timeout
<1>15. ASSUME NEW c \in Calls, Start(c) \/ Progress(c) \/ Fault(c)
       PROVE  CallStep
  BY <1>3, <1>4, <1>5, <1>6, <1>7, <1>8, <1>9, <1>10, <1>11, <1>12, <1>13, <1>14,
     <1>15, ReceiveAddStores, StoreStores DEF Progress, Fault
<1>16. CASE UNCHANGED vars
  BY <1>1, <1>16, NothingStored DEF vars
<1> QED
  BY <1>15, <1>16 DEF Next

LEMMA BlocksStay ==
  ASSUME ChainStep, NEW n \in Nodes, NEW c \in Calls, HasBlock(n, c)
  PROVE  HasBlock(n, c)'
BY DEF ChainStep, HasBlock

LEMMA StoredInit == Init => StoredInv
BY ConstantsOK DEF Init, StoredInv, NoEntry

LEMMA StoredStep ==
  TypeInv /\ SignedInv /\ StoredInv /\ [Next]_vars => StoredInv'
<1> SUFFICES ASSUME TypeInv, SignedInv, StoredInv, [Next]_vars, NEW c \in Calls
             PROVE  /\ trip'[c].stage = "add" => HasBlock(Here(c), c)'
                    /\ reg'[Owner[c]][c].stored \/ pc'[c] = "blocked" => TwoHaveIt(c)'
  BY DEF StoredInv
<1> DEFINE p == trip[c].path
<1>1. TripStep /\ ChainStep /\ CallStep
  BY TripStepAlways, ChainStepAlways, CallStepAlways
<1>2. p \in Seq(Nodes) /\ Len(p) \in Nat /\ DOMAIN p = 1 .. Len(p)
  BY LenProperties DEF TypeInv, TypeOK, Trip
\* Where the trip has got to, at stage "add", is another signer's node.
<1>3. ASSUME trip[c].stage = "add" PROVE Here(c) \in Nodes \ {Owner[c]}
  <2>1. Len(p) > 1
    BY <1>3 DEF TypeInv, OnItsWay
  <2>2. p[1] = Owner[c] /\ IsInjective(p)
    BY <1>2, <2>1 DEF SignedInv, PathOK
  <2>3. Here(c) = p[Len(p)] /\ p[Len(p)] \in Nodes
    BY <1>2, <2>1, ElementOfSeq DEF Here, Last
  <2>4. p[Len(p)] # p[1]
    BY <1>2, <2>1, <2>2 DEF IsInjective
  <2> QED
    BY <2>2, <2>3, <2>4
<1>4. ASSUME TwoHaveIt(c) PROVE TwoHaveIt(c)'
  BY <1>1, <1>4, BlocksStay, ConstantsOK DEF TwoHaveIt
<1>5. ASSUME trip'[c].stage = "add" PROVE HasBlock(Here(c), c)'
  <2>1. CASE trip[c].stage = "add"
    <3>1. HasBlock(Here(c), c) /\ Here(c) \in Nodes
      BY <1>3, <2>1 DEF StoredInv
    <3>2. Here(c)' = Here(c)
      <4>1. Rests(c)
        BY <1>1, <1>5 DEF TripStep, Departs, Returns, SignedBy, Signed
      <4> QED
        BY <4>1 DEF Rests, Here
    <3> QED
      BY <1>1, <3>1, <3>2 DEF ChainStep, HasBlock
  <2> QED
    BY <1>1, <1>5, <2>1 DEF CallStep
<1>6. ASSUME reg'[Owner[c]][c].stored PROVE TwoHaveIt(c)'
  <2>1. CASE reg[Owner[c]][c].stored
    BY <1>4, <2>1 DEF StoredInv
  <2>2. CASE trip[c].stage = "add" /\ HasBlock(Owner[c], c)'
    <3>1. HasBlock(Here(c), c) /\ Here(c) \in Nodes \ {Owner[c]}
      BY <1>3, <2>2 DEF StoredInv
    <3> DEFINE h == Here(c)
    <3>2. h \in Nodes \ {Owner[c]} /\ HasBlock(h, c)
      BY <3>1
    <3> HIDE DEF h
    <3>3. \E n \in Nodes \ {Owner[c]} : HasBlock(n, c)'
      BY <1>1, <3>2, BlocksStay
    <3> QED
      BY <2>2, <3>3 DEF TwoHaveIt
  <2> QED
    BY <1>1, <1>6, <2>1, <2>2 DEF CallStep
<1>7. ASSUME pc'[c] = "blocked" PROVE TwoHaveIt(c)'
  BY <1>1, <1>4, <1>7 DEF CallStep, StoredInv
<1> QED
  BY <1>5, <1>6, <1>7

\* A call returns its block only when its own node has stored it and another
\* signer stored it before, whatever is lost, repeated, refused or timed out.
THEOREM ReturnedIsStored == Spec => []BlockedMeansStored
<1>1. Init => TypeInv /\ SignedInv /\ StoredInv
  BY TypeInit, SignedInit, StoredInit
<1>2. TypeInv /\ SignedInv /\ StoredInv /\ [Next]_vars
        => TypeInv' /\ SignedInv' /\ StoredInv'
  BY TypeStep, SignedStep, StoredStep
<1>3. StoredInv => BlockedMeansStored
  BY DEF StoredInv, BlockedMeansStored, TwoHaveIt, HasBlock
<1> QED
  BY <1>1, <1>2, <1>3, PTL DEF Spec
=============================================================================
