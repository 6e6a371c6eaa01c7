------------------------- MODULE Internode_proofs -------------------------
(***************************************************************************)
(* Theorems about Internode, for any nodes, runs and bounds.               *)
(***************************************************************************)
EXTENDS Internode, FiniteSetTheorems, TLAPS

(***************************************************************************)
(* The inductive invariant.  A run counts its tries down from the number   *)
(* it began with, and its level says which try it is; so the tries end     *)
(* with the third.                                                         *)
(***************************************************************************)
Counted(o) ==
  IF o.waiter
  THEN o.level = "check" /\ o.retries + o.try = WaitRetry
  ELSE /\ o.retries + o.try = CallRetry
       /\ \/ o.try = 0 /\ o.level = "no"
          \/ o.try = 1 /\ o.level = "call"
          \/ o.try = 2 /\ o.level = "channel"

TriesCounted ==
  \A r \in Runs :
    /\ run[r].stage # "idle" => Counted(run[r])
    /\ run[r].stage = "idle" => run[r].try = 0
    /\ run[r].stage = "done" => run[r].try = 0

\* What has not been sent yet
Unsent(x) ==
  LET o == run[x[1]]
  IN  \/ x[3] > o.try
      \/ x[3] = o.try /\ (o.stage = "idle" \/ (o.stage = "send" /\ x[2] \in o.left))

NothingTooEarly == \A x \in Packets : Unsent(x) => wire[x] = "none"

\* A request that was not repeated has been executed once when it has an answer.
FirstTryOnce ==
  \A r \in Runs, p \in Peers :
    wire[<<r, p, 1>>] = "none" /\ wire[<<r, p, 2>>] = "none" =>
      /\ wire[<<r, p, 0>>] \in {"none", "going"} => served[r][p] = 0
      /\ wire[<<r, p, 0>>] \in {"yes", "no", "read"} => served[r][p] = 1

\* An answer, under way or in its box, is of a request that has been executed.
AnswersServed ==
  \A x \in Packets :
    wire[x] \in {"yes", "no", "read"} \/ box[x] \in {"yes", "no"} =>
      served[x[1]][x[2]] > 0

\* Boxes are deleted when a run ends.
DeletedAtEnd == \A x \in Packets : box[x] = "deleted" => Ended(x[1])

IInv ==
  /\ TypeOK
  /\ TriesCounted
  /\ NothingTooEarly
  /\ FirstTryOnce
  /\ AnswersServed
  /\ DeletedAtEnd
  /\ OnlyAnswersJudged

-----------------------------------------------------------------------------
(* What the steps do *)

LEMMA PacketParts ==
  /\ \A r \in Runs, p \in Peers, k \in Tries :
       /\ <<r, p, k>> \in Packets
       /\ <<r, p, k>>[1] = r /\ <<r, p, k>>[2] = p /\ <<r, p, k>>[3] = k
  /\ \A x \in Packets :
       /\ x[1] \in Runs /\ x[2] \in Peers /\ x[3] \in Tries
       /\ x = <<x[1], x[2], x[3]>>
  /\ \A k \in Tries : k = 0 \/ k = 1 \/ k = 2
  /\ \A k : k = 0 \/ k = 1 \/ k = 2 => k \in Tries /\ k \in Nat
BY DEF Packets, Tries

LEMMA FrameParts ==
  ASSUME NEW r, NEW k, NEW x \in Frame(r, k)
  PROVE  x[1] = r /\ x[2] \in Peers /\ x[3] = k /\ x = <<r, x[2], k>>
<1>1. PICK p \in Peers : x = <<r, p, k>>
  BY DEF Frame
<1> QED
  BY <1>1

\* The steps that begin a try: the run changes, nothing else does.
LEMMA StartsTry ==
  ASSUME TypeOK, NEW r \in Runs, Start(r) \/ StartWait(r)
  PROVE  \E o \in Run :
           /\ run[r].stage = "idle" /\ run' = [run EXCEPT ![r] = o]
           /\ o.stage \in {"send", "error"} /\ o.try = 0 /\ Counted(o)
<1>1. CASE Start(r)
  <2> DEFINE o == Try(r, FALSE, "no", CallRetry, 0, Peers)
  <2>1. CallRetry \in Nat /\ 0 \in Tries /\ "no" \in Levels
    BY ConstantsOK DEF Tries, Levels
  <2>2. /\ o \in Run /\ o.stage \in {"send", "error"} /\ ~o.waiter
        /\ o.level = "no" /\ o.retries = CallRetry /\ o.try = 0
    BY <2>1 DEF Try, Run, Allowed
  <2>3. run' = [run EXCEPT ![r] = o] /\ run[r].stage = "idle"
    BY <1>1 DEF Start
  <2> HIDE DEF o
  <2>4. Counted(o)
    BY <2>1, <2>2 DEF Counted
  <2> QED
    BY <2>2, <2>3, <2>4
<1>2. CASE StartWait(r)
  <2> DEFINE o == Try(r, TRUE, "check", WaitRetry, 0, Peers)
  <2>1. WaitRetry \in Nat /\ 0 \in Tries /\ "check" \in Levels
    BY ConstantsOK DEF Tries, Levels
  <2>2. /\ o \in Run /\ o.stage \in {"send", "error"} /\ o.waiter
        /\ o.level = "check" /\ o.retries = WaitRetry /\ o.try = 0
    BY <2>1 DEF Try, Run, Allowed
  <2>3. run' = [run EXCEPT ![r] = o] /\ run[r].stage = "idle"
    BY <1>2 DEF StartWait
  <2> HIDE DEF o
  <2>4. Counted(o)
    BY <2>1, <2>2 DEF Counted
  <2> QED
    BY <2>2, <2>3, <2>4
<1> QED
  BY <1>1, <1>2

\* A retry is the next try, and there is one: the count or the level allows it.
LEMMA RetryStep ==
  ASSUME TypeOK, TriesCounted, NEW r \in Runs, Retry(r)
  PROVE  \E o \in Run :
           /\ run[r].stage = "wait" /\ run' = [run EXCEPT ![r] = o]
           /\ o.stage \in {"send", "error"} /\ o.try = run[r].try + 1 /\ Counted(o)
<1> DEFINE e == run[r]
           o == Try(r, e.waiter, NextLevel(e.level), e.retries - 1, e.try + 1,
                    Failures(r))
<1>1. /\ e \in Run /\ e.stage = "wait" /\ Counted(e) /\ e.retries > 0
      /\ NextLevel(e.level) # "never" /\ run' = [run EXCEPT ![r] = o]
  BY DEF Retry, Retrying, TypeOK, TriesCounted
<1>2. /\ e.waiter \in BOOLEAN /\ e.level \in Levels /\ e.retries \in Nat /\ e.try \in Tries
      /\ e.retries - 1 \in Nat /\ e.try \in Nat
  BY <1>1 DEF Run, Tries
<1>3. /\ e.waiter => e.level = "check" /\ NextLevel(e.level) = "check" /\ e.try + 1 \in Tries
      /\ ~e.waiter => \/ e.try = 0 /\ e.level = "no" /\ NextLevel(e.level) = "call"
                      \/ e.try = 1 /\ e.level = "call" /\ NextLevel(e.level) = "channel"
  <2>1. CASE e.waiter
    <3>1. WaitRetry \in 0 .. 2 /\ e.retries + e.try = WaitRetry /\ e.level = "check"
      BY <1>1, <2>1, ConstantsOK DEF Counted, Tries
    <3> QED
      BY <1>1, <1>2, <2>1, <3>1 DEF NextLevel, Tries
  <2>2. CASE ~e.waiter
    BY <1>1, <1>2, <2>2 DEF Counted, NextLevel
  <2> QED
    BY <2>1, <2>2
<1>4. e.try + 1 \in Tries /\ NextLevel(e.level) \in Levels /\ Failures(r) \in SUBSET Peers
  BY <1>2, <1>3 DEF Tries, Levels, Failures
<1>5. /\ o \in Run /\ o.stage \in {"send", "error"} /\ o.waiter = e.waiter
      /\ o.level = NextLevel(e.level) /\ o.retries = e.retries - 1 /\ o.try = e.try + 1
  BY <1>2, <1>4 DEF Try, Run, Allowed
<1> HIDE DEF o
<1>6. Counted(o)
  <2>1. CASE e.waiter
    BY <1>1, <1>2, <1>3, <1>5, <2>1 DEF Counted, Tries
  <2>2. CASE ~e.waiter
    BY <1>1, <1>2, <1>3, <1>5, <2>2 DEF Counted
  <2> QED
    BY <2>1, <2>2
<1> QED
  BY <1>1, <1>5, <1>6

\* The steps that end a run
Ends(r, s) ==
  /\ run[r].stage \in {"send", "wait"}
  /\ run' = [run EXCEPT ![r].stage = s]

LEMMA EndStep ==
  ASSUME TypeOK, NEW r \in Runs, NEW s \in {"done", "error", "threw"}, Ends(r, s)
  PROVE  \E o \in Run :
           /\ run' = [run EXCEPT ![r] = o] /\ o.stage = s
           /\ o.try = run[r].try /\ (Counted(run[r]) => Counted(o))
<1> DEFINE o == [run[r] EXCEPT !.stage = s]
<1>1. run[r] \in Run
  BY DEF TypeOK
<1>2. /\ o \in Run /\ o.stage = s /\ o.waiter = run[r].waiter /\ o.level = run[r].level
      /\ o.retries = run[r].retries /\ o.try = run[r].try
  BY <1>1 DEF Run
<1>3. run' = [run EXCEPT ![r] = o]
  BY DEF Ends
<1> HIDE DEF o
<1> QED
  BY <1>2, <1>3 DEF Counted

LEMMA EndingActions ==
  ASSUME NEW r \in Runs
  PROVE  /\ \A p \in Peers : Refused(r, p) => Ends(r, "error")
         /\ PollTooEarly(r) => Ends(r, "threw")
         /\ Return(r) => Ends(r, "done") /\ run[r].try = 0
         /\ ReturnFromRetry(r) => Ends(r, "threw")
BY DEF Ends, Refused, PollTooEarly, Return, ReturnFromRetry, AfterRetry

\* A send takes one packet of the try that goes on.
LEMMA SendStep ==
  ASSUME TypeOK, NEW r \in Runs, NEW p \in Peers, Send(r, p)
  PROVE  /\ run[r].stage = "send" /\ p \in run[r].left
         /\ \E o \in Run :
              /\ run' = [run EXCEPT ![r] = o]
              /\ o.stage \in {"send", "wait"} /\ o.left = run[r].left \ {p}
              /\ o.try = run[r].try /\ (Counted(run[r]) => Counted(o))
         /\ \E c \in Nat, w \in {"lost", "going"} :
              /\ calls' = [calls EXCEPT ![p] = c]
              /\ on' = [on EXCEPT ![<<r, p, run[r].try>>] = c]
              /\ wire' = [wire EXCEPT ![<<r, p, run[r].try>>] = w]
<1> DEFINE e == run[r]
           o == [e EXCEPT !.left = @ \ {p}, !.sent = @ \union {p},
                          !.stage = IF e.left = {p} THEN "wait" ELSE "send"]
           c == IF NewCall(p, run[r].level) THEN calls[p] + 1 ELSE calls[p]
<1>1. e \in Run /\ calls[p] \in Nat
  BY DEF TypeOK
<1>2. /\ o \in Run /\ o.stage \in {"send", "wait"} /\ o.left = e.left \ {p}
      /\ o.try = e.try /\ o.waiter = e.waiter /\ o.level = e.level
      /\ o.retries = e.retries
  BY <1>1 DEF Run
<1>3. run' = [run EXCEPT ![r] = o] /\ e.stage = "send" /\ p \in e.left
  BY DEF Send
<1>4. \E w \in {"lost", "going"} :
        /\ calls' = [calls EXCEPT ![p] = c]
        /\ on' = [on EXCEPT ![<<r, p, run[r].try>>] = c]
        /\ wire' = [wire EXCEPT ![<<r, p, run[r].try>>] = w]
  BY DEF Send
<1>5. c \in Nat
  BY <1>1
<1> HIDE DEF o, c
<1>6. Counted(e) => Counted(o)
  BY <1>2 DEF Counted
<1>7. \E d \in Run :
        /\ run' = [run EXCEPT ![r] = d]
        /\ d.stage \in {"send", "wait"} /\ d.left = e.left \ {p}
        /\ d.try = e.try /\ (Counted(e) => Counted(d))
  BY <1>2, <1>3, <1>6
<1> HIDE DEF e
<1> QED
  BY <1>3, <1>4, <1>5, <1>7 DEF e

\* When a connection breaks, requests under way may have been executed: others not.
LEMMA BreakStep ==
  ASSUME TypeOK, NEW p \in Peers, Break(p)
  PROVE  /\ served' \in [Runs -> [Peers -> Nat]]
         /\ \A r \in Runs, q \in Peers : served'[r][q] >= served[r][q]
         /\ \A r \in Runs, q \in Peers :
              q # p \/ (\A k \in Tries : wire[<<r, q, k>>] # "going") =>
                served'[r][q] = served[r][q]
         /\ wire' \in [Packets -> Wires]
         /\ \A x \in Packets : wire'[x] = wire[x] \/ (wire[x] # "none" /\ wire'[x] = "lost")
         /\ \A x \in Packets : wire'[x] = wire[x] \/ x[2] = p
         /\ box' \in [Packets -> Boxes]
         /\ \A x \in Packets : box'[x] = box[x] \/ box'[x] = "failure"
         /\ ended' \in [Peers -> SUBSET Nat]
<1> DEFINE under == {x \in Packets : x[2] = p /\ wire[x] \in {"going", "yes", "no"}}
           going == {x \in under : wire[x] = "going"}
<1>1. PICK done \in SUBSET going :
        served' = [r \in Runs |-> [served[r] EXCEPT ![p] =
                     @ + Cardinality({x \in done : x[1] = r})]]
  BY DEF Break
<1>2. ASSUME NEW r \in Runs
      PROVE  /\ Cardinality({x \in done : x[1] = r}) \in Nat
             /\ (\A k \in Tries : wire[<<r, p, k>>] # "going") =>
                  Cardinality({x \in done : x[1] = r}) = 0
  <2> DEFINE D == {x \in done : x[1] = r}
             three == {<<r, p, 0>>} \union {<<r, p, 1>>} \union {<<r, p, 2>>}
  <2>1. D \subseteq three
    BY PacketParts
  <2>2. IsFiniteSet(three)
    BY FS_Singleton, FS_Union
  <2>3. IsFiniteSet(D)
    BY <2>1, <2>2, FS_Subset
  <2>4. ASSUME \A k \in Tries : wire[<<r, p, k>>] # "going"
        PROVE  D = {}
    BY <2>4, PacketParts
  <2> QED
    BY <2>3, <2>4, FS_CardinalityType, FS_EmptySet
<1>3. \A r \in Runs : served[r] \in [Peers -> Nat]
  BY DEF TypeOK
<1>4. \A r \in Runs, q \in Peers :
        served'[r][q] = IF q = p THEN served[r][p] + Cardinality({x \in done : x[1] = r})
                        ELSE served[r][q]
  BY <1>1, <1>3
<1>5. served' \in [Runs -> [Peers -> Nat]]
  <2>1. \A r \in Runs : served'[r] \in [Peers -> Nat]
    BY <1>1, <1>2, <1>3
  <2> QED
    BY <1>1, <2>1
<1>6. ASSUME NEW r \in Runs, NEW q \in Peers
      PROVE  /\ served'[r][q] >= served[r][q]
             /\ q # p \/ (\A k \in Tries : wire[<<r, q, k>>] # "going") =>
                  served'[r][q] = served[r][q]
  <2> DEFINE n == Cardinality({x \in done : x[1] = r})
  <2>1. n \in Nat /\ ((\A k \in Tries : wire[<<r, p, k>>] # "going") => n = 0)
    BY <1>2
  <2>2. served'[r][q] = IF q = p THEN served[r][p] + n ELSE served[r][q]
    BY <1>4
  <2>3. served[r][q] \in Nat
    BY <1>3
  <2> HIDE DEF n
  <2>4. served'[r][q] >= served[r][q]
    BY <2>1, <2>2, <2>3
  <2>5. CASE q # p
    BY <2>2, <2>4, <2>5
  <2>6. CASE q = p
    BY <2>1, <2>2, <2>3, <2>4, <2>6
  <2> QED
    BY <2>5, <2>6
<1>8. /\ wire' \in [Packets -> Wires]
      /\ \A x \in Packets : wire'[x] = wire[x] \/ (wire[x] # "none" /\ wire'[x] = "lost")
      /\ \A x \in Packets : wire'[x] = wire[x] \/ x[2] = p
  BY DEF Break, TypeOK, Wires
<1>9. /\ box' \in [Packets -> Boxes]
      /\ \A x \in Packets : box'[x] = box[x] \/ box'[x] = "failure"
  BY DEF Break, TypeOK, Boxes, AfterError
<1>10. ended' \in [Peers -> SUBSET Nat]
  BY DEF Break, TypeOK
<1> QED
  BY <1>5, <1>6, <1>8, <1>9, <1>10

-----------------------------------------------------------------------------
(* The parts of the invariant, action by action *)

LEMMA InitIInv == Init => IInv
<1> SUFFICES ASSUME Init PROVE IInv
  OBVIOUS
<1>1. NoRun \in Run /\ NoRun.stage = "idle" /\ NoRun.try = 0
  BY DEF NoRun, Run, Levels, Tries
<1>2. TypeOK
  BY <1>1, ConstantsOK DEF Init, TypeOK, Boxes, Wires
<1>3. TriesCounted /\ NothingTooEarly
  BY <1>1 DEF Init, TriesCounted, NothingTooEarly
<1>4. FirstTryOnce /\ OnlyAnswersJudged
  BY PacketParts DEF Init, FirstTryOnce, OnlyAnswersJudged
<1>5. AnswersServed /\ DeletedAtEnd
  BY DEF Init, AnswersServed, DeletedAtEnd
<1> QED
  BY <1>2, <1>3, <1>4, <1>5 DEF IInv

LEMMA TypeStep ==
  ASSUME IInv, [Next]_vars
  PROVE  TypeOK'
<1> USE DEF IInv
<1>1. ASSUME NEW r \in Runs, Start(r) \/ StartWait(r)
      PROVE  TypeOK'
  BY <1>1, StartsTry, ZenonT(60) DEF TypeOK, Start, StartWait
<1>2. ASSUME NEW r \in Runs, Retry(r)
      PROVE  TypeOK'
  BY <1>2, RetryStep DEF TypeOK, Retry
<1>3. ASSUME NEW r \in Runs,
             PollTooEarly(r) \/ \E p \in Peers : Refused(r, p)
      PROVE  TypeOK'
  <2>1. Ends(r, "threw") \/ Ends(r, "error")
    BY <1>3, EndingActions
  <2>2. run' \in [Runs -> Run]
    BY <2>1, EndStep DEF TypeOK
  <2> QED
    BY <1>3, <2>2 DEF TypeOK, PollTooEarly, Refused
<1>4. ASSUME NEW r \in Runs, Return(r)
      PROVE  TypeOK'
  <2>1. run' \in [Runs -> Run]
    BY <1>4, EndingActions, EndStep, ZenonT(60) DEF TypeOK
  <2>2. node' \in [Peers -> [allow : BOOLEAN, count : Nat]]
    <3>1. \A p \in Peers : node[p] \in [allow : BOOLEAN, count : Nat]
      BY DEF TypeOK
    <3>2. Judged(Blamed(r)) \in [Peers -> [allow : BOOLEAN, count : Nat]]
      BY <3>1 DEF Judged
    <3> QED
      BY <1>4, <3>2 DEF Return, TypeOK
  <2>3. box' \in [Packets -> Boxes]
    BY <1>4 DEF Return, TypeOK, Boxes
  <2> QED
    BY <1>4, <2>1, <2>2, <2>3 DEF TypeOK, Return
<1>5. ASSUME NEW r \in Runs, ReturnFromRetry(r)
      PROVE  TypeOK'
  <2>1. run' \in [Runs -> Run]
    BY <1>5, EndingActions, EndStep DEF TypeOK
  <2>2. box' \in [Packets -> Boxes]
    BY <1>5 DEF ReturnFromRetry, TypeOK, Boxes
  <2> QED
    BY <1>5, <2>1, <2>2 DEF TypeOK, ReturnFromRetry
<1>6. ASSUME NEW r \in Runs, NEW p \in Peers, Send(r, p)
      PROVE  TypeOK'
  <2>1. run' \in [Runs -> Run]
    BY <1>6, SendStep DEF TypeOK
  <2>2. calls' \in [Peers -> Nat] /\ on' \in [Packets -> Nat]
    <3>1. PICK c \in Nat : /\ calls' = [calls EXCEPT ![p] = c]
                           /\ on' = [on EXCEPT ![<<r, p, run[r].try>>] = c]
      BY <1>6, SendStep
    <3> QED
      BY <3>1 DEF TypeOK
  <2>3. wire' \in [Packets -> Wires]
    <3>1. PICK w \in {"lost", "going"} : wire' = [wire EXCEPT ![<<r, p, run[r].try>>] = w]
      BY <1>6, SendStep
    <3>2. w \in Wires
      BY DEF Wires
    <3> QED
      BY <3>1, <3>2 DEF TypeOK
  <2> QED
    BY <1>6, <2>1, <2>2, <2>3 DEF TypeOK, Send
<1>7. ASSUME NEW x \in Packets, BoxMade(x) \/ Drop(x) \/ Arrive(x)
      PROVE  TypeOK'
  <2>1. CASE BoxMade(x)
    BY <2>1 DEF TypeOK, BoxMade, Boxes
  <2>2. CASE Drop(x)
    BY <2>2 DEF TypeOK, Drop, Wires
  <2>3. CASE Arrive(x)
    BY <2>3 DEF TypeOK, Arrive, Wires, Boxes
  <2> QED
    BY <1>7, <2>1, <2>2, <2>3
<1>8. ASSUME NEW x \in Packets, Serve(x)
      PROVE  TypeOK'
  <2>1. wire' \in [Packets -> Wires]
    BY <1>8 DEF Serve, TypeOK, Wires
  <2>2. served[x[1]] \in [Peers -> Nat] /\ x[1] \in Runs /\ x[2] \in Peers
    BY PacketParts DEF TypeOK
  <2>3. served' \in [Runs -> [Peers -> Nat]]
    <3>1. served' = [served EXCEPT ![x[1]] =
                       [served[x[1]] EXCEPT ![x[2]] = served[x[1]][x[2]] + 1]]
      BY <1>8 DEF Serve
    <3>2. [served[x[1]] EXCEPT ![x[2]] = served[x[1]][x[2]] + 1] \in [Peers -> Nat]
      BY <2>2
    <3> QED
      BY <3>1, <3>2 DEF TypeOK
  <2> QED
    BY <1>8, <2>1, <2>3 DEF TypeOK, Serve
<1>9. ASSUME NEW p \in Peers, Lose(p) \/ Unreachable(p)
      PROVE  TypeOK'
  <2>1. Break(p)
    BY <1>9 DEF Lose, Unreachable
  <2>2. faults' \in 0 .. MaxFaults
    BY <1>9, ConstantsOK DEF Lose, Unreachable, TypeOK
  <2>3. /\ served' \in [Runs -> [Peers -> Nat]] /\ wire' \in [Packets -> Wires]
        /\ box' \in [Packets -> Boxes] /\ ended' \in [Peers -> SUBSET Nat]
    BY <2>1, BreakStep
  <2> QED
    BY <2>1, <2>2, <2>3 DEF TypeOK, Break
<1>10. ASSUME NEW p \in Peers, ErrorAgain(p)
       PROVE  TypeOK'
  BY <1>10 DEF TypeOK, ErrorAgain, AfterError, Boxes
<1>11. ASSUME NEW p \in Peers, GoDown(p) \/ ComeUp(p) \/ Exclude(p)
       PROVE  TypeOK'
  <2>1. CASE GoDown(p)
    <3>1. faults' \in 0 .. MaxFaults
      BY <2>1, ConstantsOK DEF GoDown, TypeOK
    <3> QED
      BY <2>1, <3>1 DEF GoDown, TypeOK
  <2>2. CASE ComeUp(p)
    BY <2>2 DEF TypeOK, ComeUp
  <2>3. CASE Exclude(p)
    BY <2>3 DEF TypeOK, Exclude
  <2> QED
    BY <1>11, <2>1, <2>2, <2>3
<1>12. CASE UNCHANGED vars
  BY <1>12 DEF TypeOK, vars
<1> QED
  BY <1>1, <1>2, <1>3, <1>4, <1>5, <1>6, <1>7, <1>8, <1>9, <1>10, <1>11, <1>12 DEF Next

\* The steps of the packets and of the other nodes: the runs do not change, a packet
\* that has been sent stays so, and what is executed is not forgotten.
Elsewhere ==
  \/ \E x \in Packets : BoxMade(x) \/ Serve(x) \/ Drop(x) \/ Arrive(x)
  \/ \E p \in Peers : \/ Lose(p) \/ Unreachable(p) \/ ErrorAgain(p)
                      \/ GoDown(p) \/ ComeUp(p) \/ Exclude(p)
  \/ UNCHANGED vars

LEMMA ElsewhereStep ==
  ASSUME TypeOK, Elsewhere
  PROVE  /\ run' = run /\ node' = node
         /\ \A x \in Packets : wire'[x] = wire[x] \/ (wire[x] # "none" /\ wire'[x] # "none")
         /\ \A r \in Runs, p \in Peers : served'[r][p] >= served[r][p]
         /\ \A x \in Packets : box'[x] = "deleted" => box[x] = "deleted"
<1>1. \A r \in Runs, p \in Peers : served[r][p] \in Nat /\ served[r] \in [Peers -> Nat]
  BY DEF TypeOK
<1>2. ASSUME NEW x \in Packets, BoxMade(x) \/ Drop(x)
      PROVE  /\ run' = run /\ node' = node /\ served' = served
             /\ \A y \in Packets : wire'[y] = wire[y] \/ (wire[y] # "none" /\ wire'[y] # "none")
             /\ \A y \in Packets : box'[y] = "deleted" => box[y] = "deleted"
  BY <1>2 DEF TypeOK, BoxMade, Drop
<1>3. ASSUME NEW x \in Packets, Arrive(x)
      PROVE  /\ run' = run /\ node' = node /\ served' = served
             /\ \A y \in Packets : wire'[y] = wire[y] \/ (wire[y] # "none" /\ wire'[y] # "none")
             /\ \A y \in Packets : box'[y] = "deleted" => box[y] = "deleted"
  BY <1>3 DEF TypeOK, Arrive
<1>4. ASSUME NEW x \in Packets, Serve(x)
      PROVE  /\ run' = run /\ node' = node /\ box' = box
             /\ \A r \in Runs, p \in Peers : served'[r][p] >= served[r][p]
             /\ \A y \in Packets : wire'[y] = wire[y] \/ (wire[y] # "none" /\ wire'[y] # "none")
  <2>1. /\ run' = run /\ node' = node /\ box' = box
        /\ \A y \in Packets : wire'[y] = wire[y] \/ (wire[y] # "none" /\ wire'[y] # "none")
    BY <1>4 DEF TypeOK, Serve
  <2>2. served' = [served EXCEPT ![x[1]] =
                     [served[x[1]] EXCEPT ![x[2]] = served[x[1]][x[2]] + 1]]
    BY <1>4 DEF Serve
  <2>3. \A r \in Runs, p \in Peers :
          served'[r][p] = IF r = x[1] /\ p = x[2] THEN served[r][p] + 1 ELSE served[r][p]
    BY <1>1, <2>2, PacketParts DEF TypeOK
  <2>4. \A r \in Runs, p \in Peers : served'[r][p] >= served[r][p]
    BY <1>1, <2>3
  <2> QED
    BY <2>1, <2>4
<1>5. ASSUME NEW p \in Peers, Lose(p) \/ Unreachable(p)
      PROVE  /\ run' = run /\ node' = node
             /\ \A r \in Runs, q \in Peers : served'[r][q] >= served[r][q]
             /\ \A y \in Packets : wire'[y] = wire[y] \/ (wire[y] # "none" /\ wire'[y] # "none")
             /\ \A y \in Packets : box'[y] = "deleted" => box[y] = "deleted"
  <2>1. Break(p)
    BY <1>5 DEF Lose, Unreachable
  <2>2. \A y \in Packets : wire'[y] = wire[y] \/ (wire[y] # "none" /\ wire'[y] # "none")
    BY <2>1, BreakStep
  <2>3. /\ \A r \in Runs, q \in Peers : served'[r][q] >= served[r][q]
        /\ \A y \in Packets : box'[y] = "deleted" => box[y] = "deleted"
    BY <2>1, BreakStep
  <2> QED
    BY <2>1, <2>2, <2>3 DEF Break
<1>6. ASSUME NEW p \in Peers, ErrorAgain(p) \/ GoDown(p) \/ ComeUp(p) \/ Exclude(p)
      PROVE  /\ run' = run /\ node' = node /\ served' = served /\ wire' = wire
             /\ \A y \in Packets : box'[y] = "deleted" => box[y] = "deleted"
  BY <1>6 DEF TypeOK, ErrorAgain, AfterError, GoDown, ComeUp, Exclude
<1>7. ASSUME UNCHANGED vars
      PROVE  run' = run /\ node' = node /\ served' = served /\ wire' = wire /\ box' = box
  BY <1>7 DEF vars
<1> QED
  BY <1>1, <1>2, <1>3, <1>4, <1>5, <1>6, <1>7 DEF Elsewhere

\* A step of Next is one of these, or a step of a run.
LEMMA StepKinds ==
  ASSUME [Next]_vars
  PROVE  \/ Elsewhere
         \/ \E r \in Runs :
              \/ Start(r) \/ StartWait(r) \/ Retry(r) \/ PollTooEarly(r)
              \/ Return(r) \/ ReturnFromRetry(r)
              \/ \E p \in Peers : Send(r, p) \/ Refused(r, p)
BY DEF Next, Elsewhere

LEMMA TriesStep ==
  ASSUME IInv, [Next]_vars
  PROVE  TriesCounted'
<1> USE DEF IInv
<1>1. ASSUME NEW r \in Runs, NEW o,
             run' = [run EXCEPT ![r] = o], o.stage # "idle", Counted(o),
             o.stage = "done" => o.try = 0
      PROVE  TriesCounted'
  <2>1. \A q \in Runs : run'[q] = IF q = r THEN o ELSE run[q]
    BY <1>1 DEF TypeOK
  <2>2. \A q \in Runs : Counted(run'[q]) \/ run'[q].stage = "idle"
    BY <1>1, <2>1 DEF TriesCounted
  <2>3. \A q \in Runs : /\ run'[q].stage = "idle" => run'[q].try = 0
                        /\ run'[q].stage = "done" => run'[q].try = 0
    BY <1>1, <2>1 DEF TriesCounted
  <2> QED
    BY <2>2, <2>3 DEF TriesCounted, Counted
<1>2. ASSUME NEW r \in Runs, Start(r) \/ StartWait(r)
      PROVE  TriesCounted'
  BY <1>1, <1>2, StartsTry
<1>3. ASSUME NEW r \in Runs, Retry(r)
      PROVE  TriesCounted'
  BY <1>1, <1>3, RetryStep
<1>4. ASSUME NEW r \in Runs, NEW s \in {"done", "error", "threw"}, Ends(r, s),
             s = "done" => run[r].try = 0
      PROVE  TriesCounted'
  <2>1. Counted(run[r])
    BY <1>4 DEF TriesCounted, Ends
  <2> QED
    BY <1>1, <1>4, <2>1, EndStep
<1>5. ASSUME NEW r \in Runs, NEW p \in Peers, Send(r, p)
      PROVE  TriesCounted'
  <2>1. Counted(run[r])
    BY <1>5, SendStep DEF TriesCounted
  <2> QED
    BY <1>1, <1>5, <2>1, SendStep
<1>6. CASE Elsewhere
  BY <1>6, ElsewhereStep DEF TriesCounted, Counted
<1> QED
  BY <1>2, <1>3, <1>4, <1>5, <1>6, StepKinds, EndingActions

LEMMA UnsentStep ==
  ASSUME IInv, [Next]_vars
  PROVE  NothingTooEarly'
<1> USE DEF IInv
<1>1. \A x \in Packets : x[1] \in Runs /\ x[3] \in Nat /\ run[x[1]].try \in Nat
  BY PacketParts DEF TypeOK, Run, Tries
<1>2. ASSUME NEW r \in Runs, NEW o \in Run, run' = [run EXCEPT ![r] = o], wire' = wire,
             \/ run[r].stage = "idle" /\ o.try = 0
             \/ o.try = run[r].try + 1
             \/ o.try = run[r].try /\ o.stage \notin {"idle", "send"}
      PROVE  NothingTooEarly'
  <2>1. \A q \in Runs : run'[q] = IF q = r THEN o ELSE run[q]
    BY <1>2 DEF TypeOK
  <2>2. run[r].stage = "idle" => run[r].try = 0
    BY DEF TriesCounted
  <2>3. ASSUME NEW x \in Packets, Unsent(x)'
        PROVE  Unsent(x)
    <3>1. CASE x[1] = r
      <4>1. \/ x[3] > o.try
            \/ x[3] = o.try /\ o.stage \in {"idle", "send"}
        BY <2>1, <2>3, <3>1 DEF Unsent
      <4> QED
        BY <1>1, <1>2, <2>2, <3>1, <4>1 DEF Unsent
    <3>2. CASE x[1] # r
      BY <1>1, <2>1, <2>3, <3>2 DEF Unsent
    <3> QED
      BY <3>1, <3>2
  <2> QED
    BY <1>2, <2>3 DEF NothingTooEarly
<1>3. ASSUME NEW r \in Runs, Start(r) \/ StartWait(r)
      PROVE  NothingTooEarly'
  <2>1. wire' = wire
    BY <1>3 DEF Start, StartWait
  <2>2. PICK o \in Run : /\ run[r].stage = "idle" /\ run' = [run EXCEPT ![r] = o]
                         /\ o.try = 0
    BY <1>3, StartsTry
  <2> QED
    BY <1>2, <2>1, <2>2
<1>4. ASSUME NEW r \in Runs, Retry(r)
      PROVE  NothingTooEarly'
  <2>1. wire' = wire
    BY <1>4 DEF Retry
  <2>2. PICK o \in Run : run' = [run EXCEPT ![r] = o] /\ o.try = run[r].try + 1
    BY <1>4, RetryStep
  <2> QED
    BY <1>2, <2>1, <2>2
<1>5. ASSUME NEW r \in Runs,
             \/ PollTooEarly(r) \/ Return(r) \/ ReturnFromRetry(r)
             \/ \E p \in Peers : Refused(r, p)
      PROVE  NothingTooEarly'
  <2>1. wire' = wire
    BY <1>5 DEF PollTooEarly, Return, ReturnFromRetry, Refused
  <2>2. \E s \in {"done", "error", "threw"} : Ends(r, s)
    BY <1>5, EndingActions
  <2>3. \E o \in Run : /\ run' = [run EXCEPT ![r] = o] /\ o.try = run[r].try
                       /\ o.stage \notin {"idle", "send"}
    BY <2>2, EndStep
  <2> QED
    BY <1>2, <2>1, <2>3
<1>6. ASSUME NEW r \in Runs, NEW p \in Peers, Send(r, p)
      PROVE  NothingTooEarly'
  <2> DEFINE y == <<r, p, run[r].try>>
  <2>1. PICK o \in Run : /\ run' = [run EXCEPT ![r] = o]
                         /\ o.stage \in {"send", "wait"} /\ o.left = run[r].left \ {p}
                         /\ o.try = run[r].try /\ (Counted(run[r]) => Counted(o))
    BY <1>6, SendStep
  <2>2. run[r].stage = "send" /\ p \in run[r].left
    BY <1>6, SendStep
  <2>3. \A q \in Runs : run'[q] = IF q = r THEN o ELSE run[q]
    BY <2>1 DEF TypeOK
  <2>4. \A x \in Packets : x # y => wire'[x] = wire[x]
    <3>1. \E w \in {"lost", "going"} : wire' = [wire EXCEPT ![y] = w]
      BY <1>6, SendStep
    <3> QED
      BY <3>1 DEF TypeOK
  <2>5. ASSUME NEW x \in Packets, Unsent(x)'
        PROVE  Unsent(x) /\ x # y
    <3>1. CASE x[1] = r
      <4>1. \/ x[3] > o.try
            \/ x[3] = o.try /\ o.stage = "send" /\ x[2] \in o.left
        BY <2>1, <2>3, <2>5, <3>1 DEF Unsent
      <4> QED
        BY <1>1, <2>1, <2>2, <3>1, <4>1 DEF Unsent
    <3>2. CASE x[1] # r
      BY <1>1, <2>3, <2>5, <3>2 DEF Unsent
    <3> QED
      BY <3>1, <3>2
  <2> QED
    BY <2>4, <2>5 DEF NothingTooEarly
<1>7. CASE Elsewhere
  BY <1>7, ElsewhereStep DEF NothingTooEarly, Unsent
<1> QED
  BY <1>3, <1>4, <1>5, <1>6, <1>7, StepKinds

\* A packet that has been sent stays so.
LEMMA SentStaysSent ==
  ASSUME TypeOK, [Next]_vars, NEW x \in Packets, wire[x] # "none"
  PROVE  wire'[x] # "none"
<1>1. ASSUME NEW r \in Runs, NEW p \in Peers, Send(r, p)
      PROVE  wire'[x] # "none"
  BY <1>1, SendStep DEF TypeOK
<1>2. ASSUME NEW r \in Runs,
             \/ Start(r) \/ StartWait(r) \/ Retry(r) \/ PollTooEarly(r)
             \/ Return(r) \/ ReturnFromRetry(r)
             \/ \E p \in Peers : Refused(r, p)
      PROVE  wire'[x] # "none"
  BY <1>2 DEF Start, StartWait, Retry, PollTooEarly, Return, ReturnFromRetry, Refused
<1>3. CASE Elsewhere
  BY <1>3, ElsewhereStep
<1> QED
  BY <1>1, <1>2, <1>3, StepKinds

LEMMA FirstTryStep ==
  ASSUME IInv, [Next]_vars
  PROVE  FirstTryOnce'
<1> USE DEF IInv
\* It is enough to look at one request to one node, which has not been repeated.
<1> SUFFICES ASSUME NEW r \in Runs, NEW p \in Peers,
                    wire'[<<r, p, 1>>] = "none", wire'[<<r, p, 2>>] = "none"
             PROVE  /\ wire'[<<r, p, 0>>] \in {"none", "going"} => served'[r][p] = 0
                    /\ wire'[<<r, p, 0>>] \in {"yes", "no", "read"} => served'[r][p] = 1
  BY DEF FirstTryOnce
<1> DEFINE z == <<r, p, 0>>
<1>1. /\ z \in Packets /\ <<r, p, 1>> \in Packets /\ <<r, p, 2>> \in Packets
      /\ \A x \in Packets : x[1] = r /\ x[2] = p =>
           x = z \/ x = <<r, p, 1>> \/ x = <<r, p, 2>>
  BY PacketParts
<1>2. wire[<<r, p, 1>>] = "none" /\ wire[<<r, p, 2>>] = "none"
  BY <1>1, SentStaysSent
<1>3. /\ wire[z] \in {"none", "going"} => served[r][p] = 0
      /\ wire[z] \in {"yes", "no", "read"} => served[r][p] = 1
  BY <1>2 DEF FirstTryOnce
<1>4. CASE wire'[z] = wire[z] /\ served'[r][p] = served[r][p]
  BY <1>3, <1>4
<1>5. ASSUME NEW q \in Runs,
             \/ Start(q) \/ StartWait(q) \/ Retry(q) \/ PollTooEarly(q)
             \/ Return(q) \/ ReturnFromRetry(q)
             \/ \E m \in Peers : Refused(q, m)
      PROVE  wire' = wire /\ served' = served
  BY <1>5 DEF Start, StartWait, Retry, PollTooEarly, Return, ReturnFromRetry, Refused
<1>6. ASSUME NEW q \in Runs, NEW m \in Peers, Send(q, m)
      PROVE  \/ wire'[z] = wire[z] /\ served'[r][p] = served[r][p]
             \/ /\ wire[z] = "none" /\ wire'[z] \in {"lost", "going"}
                /\ served'[r][p] = served[r][p]
  <2> DEFINE y == <<q, m, run[q].try>>
  <2>1. y \in Packets /\ Unsent(y)
    <3>1. run[q].try \in Tries
      BY DEF TypeOK, Run
    <3>2. run[q].stage = "send" /\ m \in run[q].left
      BY <1>6, SendStep
    <3> QED
      BY <3>1, <3>2, PacketParts DEF Unsent
  <2>2. wire[y] = "none"
    BY <2>1 DEF NothingTooEarly
  <2>3. PICK w \in {"lost", "going"} : wire' = [wire EXCEPT ![y] = w]
    BY <1>6, SendStep
  <2>4. \A x \in Packets : wire'[x] = IF x = y THEN w ELSE wire[x]
    BY <2>3 DEF TypeOK
  <2>5. served' = served
    BY <1>6 DEF Send
  <2> HIDE DEF y, z
  <2> QED
    BY <1>1, <2>2, <2>4, <2>5
<1>7. ASSUME NEW x \in Packets, Serve(x)
      PROVE  \/ wire'[z] = wire[z] /\ served'[r][p] = served[r][p]
             \/ /\ wire[z] = "going" /\ wire'[z] \in {"yes", "no"}
                /\ served'[r][p] = served[r][p] + 1
  <2>1. /\ wire[x] = "going"
        /\ \E a \in {"yes", "no"} : wire' = [wire EXCEPT ![x] = a]
        /\ served' = [served EXCEPT ![x[1]] =
                        [served[x[1]] EXCEPT ![x[2]] = served[x[1]][x[2]] + 1]]
    BY <1>7 DEF Serve
  <2>2. x[1] \in Runs /\ x[2] \in Peers /\ served[x[1]] \in [Peers -> Nat]
    BY PacketParts DEF TypeOK
  <2>3. CASE x = z
    BY <1>1, <2>1, <2>2, <2>3 DEF TypeOK
  <2>4. CASE x # z
    <3>1. ~(x[1] = r /\ x[2] = p)
      BY <1>1, <1>2, <2>1, <2>4
    <3>2. served'[r][p] = served[r][p]
      BY <2>1, <2>2, <3>1 DEF TypeOK
    <3> QED
      BY <1>1, <2>1, <2>4, <3>2 DEF TypeOK
  <2> QED
    BY <2>3, <2>4
<1>8. ASSUME NEW x \in Packets, BoxMade(x) \/ Drop(x) \/ Arrive(x)
      PROVE  /\ served' = served
             /\ \/ wire'[z] = wire[z]
                \/ wire'[z] = "dropped"
                \/ wire[z] \in {"yes", "no"} /\ wire'[z] = "read"
  BY <1>1, <1>8 DEF BoxMade, Drop, Arrive, TypeOK
<1>9. ASSUME NEW m \in Peers, Lose(m) \/ Unreachable(m)
      PROVE  \/ wire'[z] = wire[z] /\ served'[r][p] = served[r][p]
             \/ wire'[z] = "lost"
  <2>1. Break(m)
    BY <1>9 DEF Lose, Unreachable
  <2>2. wire'[z] = wire[z] \/ wire'[z] = "lost"
    BY <1>1, <2>1, BreakStep
  <2>3. CASE wire[z] = "going"
    <3>1. CASE m # p
      BY <2>1, <2>2, <3>1, BreakStep
    <3>2. CASE m = p
      BY <1>1, <2>1, <2>3, <3>2, PacketParts DEF Break, TypeOK
    <3> QED
      BY <3>1, <3>2
  <2>4. CASE wire[z] # "going"
    <3>1. \A k \in Tries : wire[<<r, p, k>>] # "going"
      BY <1>2, <2>4, PacketParts
    <3> QED
      BY <2>1, <2>2, <3>1, BreakStep
  <2> QED
    BY <2>3, <2>4
<1>10. ASSUME NEW m \in Peers, ErrorAgain(m) \/ GoDown(m) \/ ComeUp(m) \/ Exclude(m)
       PROVE  wire' = wire /\ served' = served
  BY <1>10 DEF ErrorAgain, GoDown, ComeUp, Exclude
<1>11. CASE UNCHANGED vars
  BY <1>4, <1>11 DEF vars
<1>12. CASE Elsewhere
  <2>1. CASE \E x \in Packets : BoxMade(x) \/ Drop(x) \/ Arrive(x)
    BY <1>3, <1>8, <2>1
  <2>2. CASE \E x \in Packets : Serve(x)
    BY <1>3, <1>7, <2>2
  <2>3. CASE \E m \in Peers : Lose(m) \/ Unreachable(m)
    BY <1>3, <1>9, <2>3
  <2>4. CASE \E m \in Peers : ErrorAgain(m) \/ GoDown(m) \/ ComeUp(m) \/ Exclude(m)
    BY <1>3, <1>10, <2>4
  <2> QED
    BY <1>11, <1>12, <2>1, <2>2, <2>3, <2>4 DEF Elsewhere
<1> QED
  BY <1>3, <1>5, <1>6, <1>12, StepKinds

LEMMA AnswersStep ==
  ASSUME IInv, [Next]_vars
  PROVE  AnswersServed'
<1> USE DEF IInv
<1> SUFFICES ASSUME NEW z \in Packets,
                    wire'[z] \in {"yes", "no", "read"} \/ box'[z] \in {"yes", "no"}
             PROVE  served'[z[1]][z[2]] > 0
  BY DEF AnswersServed
<1> DEFINE Old == wire[z] \in {"yes", "no", "read"} \/ box[z] \in {"yes", "no"}
<1>1. z[1] \in Runs /\ z[2] \in Peers /\ served[z[1]][z[2]] \in Nat
  BY PacketParts DEF TypeOK
<1>2. Old => served[z[1]][z[2]] > 0
  BY DEF AnswersServed
<1>3. TypeOK'
  BY TypeStep
<1>4. served'[z[1]][z[2]] \in Nat
  BY <1>1, <1>3 DEF TypeOK
<1>5. ASSUME NEW r \in Runs,
             \/ Start(r) \/ StartWait(r) \/ Retry(r) \/ PollTooEarly(r)
             \/ Return(r) \/ ReturnFromRetry(r)
             \/ \E m \in Peers : Send(r, m) \/ Refused(r, m)
      PROVE  Old /\ served' = served
  <2>1. CASE \/ Start(r) \/ StartWait(r) \/ Retry(r) \/ PollTooEarly(r)
             \/ \E m \in Peers : Refused(r, m)
    BY <2>1 DEF Start, StartWait, Retry, PollTooEarly, Refused
  <2>2. CASE Return(r) \/ ReturnFromRetry(r)
    BY <2>2 DEF Return, ReturnFromRetry
  <2>3. CASE \E m \in Peers : Send(r, m)
    <3>1. PICK m \in Peers : Send(r, m)
      BY <2>3
    <3>2. box' = box /\ served' = served
      BY <3>1 DEF Send
    <3>3. wire'[z] = wire[z] \/ wire'[z] \in {"lost", "going"}
      BY <3>1, SendStep DEF TypeOK
    <3> QED
      BY <3>2, <3>3
  <2> QED
    BY <1>5, <2>1, <2>2, <2>3
<1>6. ASSUME NEW x \in Packets, BoxMade(x) \/ Drop(x) \/ Arrive(x)
      PROVE  Old /\ served' = served
  BY <1>6 DEF BoxMade, Drop, Arrive, TypeOK
<1>7. ASSUME NEW x \in Packets, Serve(x)
      PROVE  Old \/ served'[z[1]][z[2]] = served[z[1]][z[2]] + 1
  <2>1. CASE x = z
    <3>1. served' = [served EXCEPT ![z[1]] =
                        [served[z[1]] EXCEPT ![z[2]] = served[z[1]][z[2]] + 1]]
      BY <1>7, <2>1 DEF Serve
    <3> QED
      BY <1>1, <3>1 DEF TypeOK
  <2>2. CASE x # z
    BY <1>7, <2>2 DEF Serve, TypeOK
  <2> QED
    BY <2>1, <2>2
<1>8. ASSUME NEW m \in Peers, Lose(m) \/ Unreachable(m)
      PROVE  Old /\ served'[z[1]][z[2]] >= served[z[1]][z[2]]
  <2>1. Break(m)
    BY <1>8 DEF Lose, Unreachable
  <2> QED
    BY <1>1, <2>1, BreakStep
<1>9. ASSUME NEW m \in Peers, ErrorAgain(m) \/ GoDown(m) \/ ComeUp(m) \/ Exclude(m)
      PROVE  Old /\ served' = served
  BY <1>9 DEF ErrorAgain, GoDown, ComeUp, Exclude, AfterError, TypeOK
<1>10. CASE UNCHANGED vars
  BY <1>2, <1>10 DEF vars
<1> HIDE DEF Old
<1>11. CASE Elsewhere
  <2>1. CASE \E x \in Packets : Serve(x)
    <3>1. Elsewhere => served'[z[1]][z[2]] >= served[z[1]][z[2]]
      BY <1>1, ElsewhereStep
    <3> QED
      BY <1>1, <1>2, <1>4, <1>7, <1>11, <2>1, <3>1
  <2> QED
    BY <1>1, <1>2, <1>4, <1>6, <1>8, <1>9, <1>10, <1>11, <2>1 DEF Elsewhere
<1> QED
  BY <1>2, <1>5, <1>11, StepKinds

LEMMA DeletedStep ==
  ASSUME IInv, [Next]_vars
  PROVE  DeletedAtEnd'
<1> USE DEF IInv
<1> SUFFICES ASSUME NEW z \in Packets, box'[z] = "deleted"
             PROVE  Ended(z[1])'
  BY DEF DeletedAtEnd
<1>1. z[1] \in Runs
  BY PacketParts
<1>2. box[z] = "deleted" => Ended(z[1])
  BY DEF DeletedAtEnd
<1>3. ASSUME NEW r \in Runs, NEW o, run' = [run EXCEPT ![r] = o],
             run[r].stage \in {"idle", "send", "wait"}, Ended(z[1])
      PROVE  Ended(z[1])'
  BY <1>1, <1>3 DEF Ended, TypeOK
<1>4. ASSUME NEW r \in Runs, Start(r) \/ StartWait(r)
      PROVE  Ended(z[1])'
  <2>1. box' = box
    BY <1>4 DEF Start, StartWait
  <2> QED
    BY <1>2, <1>3, <1>4, <2>1, StartsTry
<1>5. ASSUME NEW r \in Runs, Retry(r)
      PROVE  Ended(z[1])'
  <2>1. box' = box
    BY <1>5 DEF Retry
  <2> QED
    BY <1>2, <1>3, <1>5, <2>1, RetryStep
<1>6. ASSUME NEW r \in Runs, NEW p \in Peers, Send(r, p)
      PROVE  Ended(z[1])'
  <2>1. box' = box
    BY <1>6 DEF Send
  <2> QED
    BY <1>2, <1>3, <1>6, <2>1, SendStep
<1>7. ASSUME NEW r \in Runs,
             \/ PollTooEarly(r) \/ Return(r) \/ ReturnFromRetry(r)
             \/ \E p \in Peers : Refused(r, p)
      PROVE  Ended(z[1])'
  <2>1. PICK s \in {"done", "error", "threw"} : Ends(r, s)
    BY <1>7, EndingActions
  <2>2. Ended(r)'
    BY <2>1 DEF Ends, Ended, TypeOK, Run
  <2>3. box'[z] = box[z] \/ z[1] = r
    <3>1. CASE PollTooEarly(r) \/ \E p \in Peers : Refused(r, p)
      BY <3>1 DEF PollTooEarly, Refused
    <3>2. CASE Return(r)
      BY FrameParts, <3>2 DEF Return, Taken, Sent
    <3>3. CASE ReturnFromRetry(r)
      BY FrameParts, <3>3 DEF ReturnFromRetry, Sent
    <3> QED
      BY <1>7, <3>1, <3>2, <3>3
  <2>4. run[r].stage \in {"send", "wait"} /\ \E o : run' = [run EXCEPT ![r] = o]
    BY <2>1 DEF Ends
  <2>5. Ended(z[1]) => Ended(z[1])'
    BY <1>3, <2>4
  <2> QED
    BY <1>2, <2>2, <2>3, <2>5
<1>8. CASE Elsewhere
  BY <1>2, <1>8, ElsewhereStep DEF Ended
<1> QED
  BY <1>4, <1>5, <1>6, <1>7, <1>8, StepKinds

\* A run that reports is at its first try and counts down from CallRetry, which is
\* not 0: so nothing has failed, and what it reports has answered with a failure.
LEMMA BlamedHaveServed ==
  ASSUME IInv, NEW r \in Runs, Return(r), ~run[r].waiter, NEW p \in Blamed(r)
  PROVE  p \in Peers /\ served[r][p] > 0
<1> USE DEF IInv
<1>1. Counted(run[r]) /\ run[r].try = 0 /\ run[r].stage = "wait"
  BY DEF TriesCounted, Return
<1>2. run[r].retries = CallRetry /\ run[r].level = "no"
  BY <1>1, ConstantsOK DEF Counted, TypeOK, Run
<1>3. Failures(r) = {}
  BY <1>2, ConstantsOK DEF Return, Retrying, NextLevel
<1>4. PICK y \in Sent(r) : box[y] # "yes" /\ p = y[2]
  BY DEF Blamed
<1>5. y \in Packets /\ y[1] = r /\ y = <<r, p, run[r].try>> /\ p \in Peers
  BY <1>1, <1>4, FrameParts, PacketParts DEF Sent
<1>6. box[y] # "failure"
  BY <1>3, <1>5 DEF Failures
<1>7. box[y] # "deleted"
  BY <1>1, <1>5 DEF DeletedAtEnd, Ended
<1>8. box[y] \notin {"unmade", "yet"}
  BY <1>4 DEF Return, Settled
<1>9. box[y] = "no"
  BY <1>4, <1>5, <1>6, <1>7, <1>8 DEF TypeOK, Boxes
<1> QED
  BY <1>5, <1>9, PacketParts DEF AnswersServed

LEMMA JudgedStep ==
  ASSUME IInv, [Next]_vars
  PROVE  OnlyAnswersJudged'
<1> USE DEF IInv
<1> SUFFICES ASSUME NEW p \in Peers, \A r \in Runs : served'[r][p] = 0
             PROVE  node'[p] = [allow |-> TRUE, count |-> 0]
  BY DEF OnlyAnswersJudged
<1> DEFINE fresh == [allow |-> TRUE, count |-> 0]
<1>1. \A r \in Runs : served[r][p] \in Nat
  BY DEF TypeOK
<1>2. (\A r \in Runs : served[r][p] = 0) => node[p] = fresh
  BY DEF OnlyAnswersJudged
<1> HIDE DEF fresh
<1>3. ASSUME NEW r \in Runs,
             \/ Start(r) \/ StartWait(r) \/ Retry(r) \/ PollTooEarly(r)
             \/ ReturnFromRetry(r)
             \/ \E m \in Peers : Send(r, m) \/ Refused(r, m)
      PROVE  node' = node /\ served' = served
  BY <1>3 DEF Start, StartWait, Retry, PollTooEarly, ReturnFromRetry, Send, Refused
<1>4. ASSUME NEW r \in Runs, Return(r)
      PROVE  node'[p] = fresh
  <2>1. served' = served
    BY <1>4 DEF Return
  <2>2. node[p] = fresh
    BY <1>2, <2>1
  <2>3. CASE run[r].waiter
    BY <1>4, <2>2, <2>3 DEF Return
  <2>4. CASE ~run[r].waiter
    <3>1. p \notin Blamed(r)
      BY <1>1, <1>4, <2>1, <2>4, BlamedHaveServed
    <3> QED
      BY <1>4, <2>2, <2>4, <3>1 DEF Return, Judged
  <2> QED
    BY <2>3, <2>4
<1>5. CASE Elsewhere
  <2>1. node' = node /\ \A r \in Runs : served'[r][p] >= served[r][p]
    BY <1>5, ElsewhereStep
  <2>2. \A r \in Runs : served[r][p] = 0
    BY <1>1, <2>1
  <2> QED
    BY <1>2, <2>1, <2>2 DEF fresh
<1> QED
  BY <1>2, <1>3, <1>4, <1>5, StepKinds DEF fresh

-----------------------------------------------------------------------------
(* Theorems *)

LEMMA Inductive == Spec => []IInv
<1>1. IInv /\ [Next]_vars => IInv'
  BY TypeStep, TriesStep, UnsentStep, FirstTryStep, AnswersStep, DeletedStep, JudgedStep
     DEF IInv
<1> QED
  BY <1>1, InitIInv, PTL DEF Spec

\* The entries, calls, boxes, packets and tries are what the declarations say: so no
\* run makes more than three tries, although runRpcs calls itself.
THEOREM TypeCorrect == Spec => []TypeOK
<1>1. IInv => TypeOK
  BY DEF IInv
<1> QED
  BY <1>1, Inductive, PTL

\* A run of runRpcs that returns results has not repeated its request, and every
\* node whose answer it has read has executed it once: whatever breaks, and
\* whichever runs share the calls and the boxes.
THEOREM ReturnedOnce == Spec => []ReturnedMeansOnce
<1>1. ASSUME IInv
      PROVE  ReturnedMeansOnce
  <2> USE DEF IInv
  <2> SUFFICES ASSUME NEW r \in Runs, run[r].stage = "done",
                      NEW x \in Packets, x[1] = r, wire[x] = "read"
               PROVE  served[r][x[2]] = 1
    BY <1>1 DEF ReturnedMeansOnce
  <2>1. run[r].try = 0
    BY <1>1 DEF TriesCounted
  <2>2. x[2] \in Peers /\ x = <<r, x[2], x[3]>>
    BY PacketParts
  <2>3. wire[<<r, x[2], 1>>] = "none" /\ wire[<<r, x[2], 2>>] = "none"
    <3>1. ASSUME NEW k \in {1, 2}
          PROVE  <<r, x[2], k>> \in Packets /\ Unsent(<<r, x[2], k>>)
      BY <2>1, <2>2, PacketParts DEF Unsent
    <3> QED
      BY <1>1, <3>1 DEF NothingTooEarly
  <2>4. x = <<r, x[2], 0>>
    BY <2>2, <2>3, PacketParts
  <2> QED
    BY <1>1, <2>2, <2>3, <2>4 DEF FirstTryOnce
<1> QED
  BY <1>1, Inductive, PTL

\* disableAbnormalNodes never counts a node that has not executed any request: one
\* that is down or out of reach is not excluded for that.
THEOREM JudgedByAnswers == Spec => []OnlyAnswersJudged
<1>1. IInv => OnlyAnswersJudged
  BY DEF IInv
<1> QED
  BY <1>1, Inductive, PTL
=============================================================================
