------------------------ MODULE SystemLoop_proofs ------------------------
(***************************************************************************)
(* Theorems about SystemLoop, for any edits, orders, calls and faults.     *)
(***************************************************************************)
EXTENDS SystemLoop, TLAPS

(***************************************************************************)
(* The inductive invariant.  The number of instances of a module is        *)
(* bounded because each restart takes the module from due, and each time   *)
(* modules are put there an order or a judgement has been used up.         *)
(***************************************************************************)
One(b) == IF b THEN 1 ELSE 0
Ordered == at # 0 /\ conf.cond \in {"pulldataNeeded", "reloadNeeded"}

GensCounted ==
  /\ gen["c"] + One(at = 0 \/ conf.cond = "reloadNeeded") <= spent.orders
  /\ \A m \in Mods \ {"c"} :
       gen[m] + One(m \in due) + One(Ordered) <= spent.edits + spent.orders

\* A loop has run all its tasks, or all but the last.
RestOK == rest \in [Gens -> {<<>>, <<"postAppendBlocks">>}]

\* While the watchdog waits for the API it has not come to any other module.
AtTheApi == api.watchdog # NotWaiting => NextIs("a")

\* A function holds its lock in the instance it began in; only the API posts.
LocksHeld ==
  \A p \in Actors :
    /\ run[p].fn \in ToSet(Tasks) => run[p].fn \in locks[run[p].in]
    /\ run[p].fn = "post" => p = Call

\* The transaction is taken along by the stages of the shutdown.
Carried(t, has) == api.late \/ tx \in {"none", "blocked"} \/ (tx = t /\ has)
Flushing ==
  /\ down = "delivering" =>
       /\ run[Signal].fn = "postDeliveryPool"
       /\ Carried("new", run[Signal].has) \/ tx = "sent"
  /\ down = "appending" =>
       /\ run[Signal].fn = "postAppendBlocks"
       /\ Carried("sent", run[Signal].has)

IInv ==
  /\ TypeOK
  /\ GensCounted
  /\ RestOK
  /\ AtTheApi
  /\ Wired
  /\ LocksHeld
  /\ OneAtATime
  /\ Flushing
  /\ FlushedAtExit

-----------------------------------------------------------------------------
(* The constants *)

LEMMA Modules ==
  /\ Mods = {"c", "a", "b", "d", "e", "i", "k", "l", "m", "s"}
  /\ DOMAIN Order = 1 .. 10 /\ Len(Order) = 10
  /\ Place \in [Mods -> 1 .. 10]
  /\ \A m \in Mods : Order[Place[m]] = m
<1>1. DOMAIN Order = 1 .. 10 /\ Len(Order) = 10
  BY DEF Order
<1>2. Mods = {Order[p] : p \in 1 .. 10}
  BY <1>1 DEF Mods, ToSet
<1>3. Mods = {"c", "a", "b", "d", "e", "i", "k", "l", "m", "s"}
  <2>1. \A p \in 1 .. 10 : p = 1 \/ p = 2 \/ p = 3 \/ p = 4 \/ p = 5 \/ p = 6 \/ p = 7
                           \/ p = 8 \/ p = 9 \/ p = 10
    OBVIOUS
  <2>2. /\ Order[1] = "c" /\ Order[2] = "a" /\ Order[3] = "b" /\ Order[4] = "d"
        /\ Order[5] = "e" /\ Order[6] = "i" /\ Order[7] = "k" /\ Order[8] = "l"
        /\ Order[9] = "m" /\ Order[10] = "s"
    BY DEF Order
  <2>3. /\ 1 \in 1 .. 10 /\ 2 \in 1 .. 10 /\ 3 \in 1 .. 10 /\ 4 \in 1 .. 10 /\ 5 \in 1 .. 10
        /\ 6 \in 1 .. 10 /\ 7 \in 1 .. 10 /\ 8 \in 1 .. 10 /\ 9 \in 1 .. 10 /\ 10 \in 1 .. 10
    OBVIOUS
  <2> DEFINE names == {"c", "a", "b", "d", "e", "i", "k", "l", "m", "s"}
  <2>4. \A p \in 1 .. 10 : Order[p] \in names
    BY <2>1, <2>2
  <2>5. \A x \in names : \E p \in 1 .. 10 : Order[p] = x
    BY <2>2, <2>3
  <2> QED
    BY <1>2, <2>4, <2>5
<1>4. ASSUME NEW m \in Mods
      PROVE  Place[m] \in 1 .. 10 /\ Order[Place[m]] = m
  <2>1. \E p \in DOMAIN Order : Order[p] = m
    BY <1>1, <1>2
  <2>2. Place[m] = CHOOSE p \in DOMAIN Order : Order[p] = m
    BY DEF Place
  <2> QED
    BY <1>1, <2>1, <2>2
<1>5. Place \in [Mods -> 1 .. 10]
  BY <1>4 DEF Place
<1> QED
  BY <1>1, <1>3, <1>4, <1>5

LEMMA TasksAre ==
  /\ ToSet(Tasks) = {"postDeliveryPool", "postAppendBlocks"}
  /\ Head(Tasks) = "postDeliveryPool" /\ Tail(Tasks) = <<"postAppendBlocks">>
  /\ Head(<<"postAppendBlocks">>) = "postAppendBlocks"
  /\ Tail(<<"postAppendBlocks">>) = <<>>
  /\ Tasks # <<>> /\ <<"postAppendBlocks">> # <<>>
<1>1. /\ Len(Tasks) = 2 /\ Tasks[1] = "postDeliveryPool" /\ Tasks[2] = "postAppendBlocks"
      /\ DOMAIN Tasks = 1 .. 2
  BY DEF Tasks
<1>2. \A i \in 1 .. 2 : i = 1 \/ i = 2
  OBVIOUS
<1>3. ToSet(Tasks) = {"postDeliveryPool", "postAppendBlocks"}
  BY <1>1, <1>2 DEF ToSet
<1> QED
  BY <1>3 DEF Tasks

LEMMA ActorsAre ==
  /\ Call \in Actors /\ Signal \in Actors /\ Call # Signal
  /\ \A g \in Gens : Loop(g) \in Actors /\ Loop(g) # Call /\ Loop(g) # Signal
BY DEF Actors, Call, Signal, Loop

\* The watchdog comes to one module at a time.
LEMMA NextIsOne ==
  ASSUME NEW m, NEW n, NextIs(m), NextIs(n), due \subseteq Mods
  PROVE  m = n
<1>1. m \in Mods /\ n \in Mods /\ Place[m] \in 1 .. 10 /\ Place[n] \in 1 .. 10
  BY Modules DEF NextIs
<1>2. Place[m] = Place[n]
  BY <1>1 DEF NextIs
<1> QED
  BY <1>1, <1>2, Modules

\* What a restart does to the counts
LEMMA RenewStep ==
  ASSUME TypeOK, NEW m \in Mods, Renew(m)
  PROVE  /\ gen' = [x \in Mods |-> IF x = m THEN gen[m] + 1 ELSE gen[x]]
         /\ \A x \in Mods : gen[x] \in Nat /\ gen'[x] \in Nat
         /\ gen[m] + 1 \in Gens => gen' \in [Mods -> Gens]
<1>1. \A x \in Mods : gen[x] \in Nat
  BY ConstantsOK DEF TypeOK, Gens
<1>2. gen \in [Mods -> Gens]
  BY DEF TypeOK
<1>3. gen' = [x \in Mods |-> IF x = m THEN gen[m] + 1 ELSE gen[x]]
  BY <1>2 DEF Renew
<1> QED
  BY <1>1, <1>2, <1>3

LEMMA InitIInv == Init => IInv
<1> SUFFICES ASSUME Init PROVE IInv
  OBVIOUS
<1> USE DEF Init
<1>1. 0 \in Gens
  BY ConstantsOK DEF Gens
<1>2. TypeOK
  <2>1. Idle \in Runs
    BY <1>1 DEF Idle, Runs
  <2>2. conf \in [edited : SUBSET Mods, applied : SUBSET Mods,
               cond : {"active", "loading", "pulldataNeeded", "reloadNeeded"}]
    OBVIOUS
  <2>3. gen \in [Mods -> Gens] /\ DOMAIN ref = Refs /\ \A r \in Refs : ref[r] \in Gens
    BY <1>1
  <2>4. at \in {0} \union DOMAIN Order \union {Len(Order) + 1}
    BY Modules
  <2>5. \A g \in Gens : ToSet(rest[g]) \subseteq ToSet(Tasks)
    BY DEF ToSet
  <2>6. api \in [state : {"open", "closing", "closed"}, watchdog : Counts,
              signal : Counts, of : Gens, late : BOOLEAN]
    BY <1>1 DEF Counts, NotWaiting
  <2>7. spent \in [edits : 0 .. MaxEdits, orders : 0 .. MaxOrders,
                   calls : 0 .. MaxCalls, faults : 0 .. MaxFaults]
    BY ConstantsOK
  <2> QED
    BY <2>1, <2>2, <2>3, <2>4, <2>5, <2>6, <2>7 DEF TypeOK
<1>3. GensCounted
  BY Modules DEF GensCounted, One, Ordered
<1>4. RestOK /\ AtTheApi /\ LocksHeld /\ OneAtATime
  BY TasksAre DEF RestOK, AtTheApi, LocksHeld, OneAtATime, Idle, Busy
<1>5. Wired
  <2>1. \A r \in Refs : r[2] = "conf" \/ r[2] \in Mods
    BY Modules DEF Refs, Knows
  <2> QED
    BY <2>1, Modules DEF Wired, Latest
<1> QED
  BY <1>2, <1>3, <1>4, <1>5 DEF IInv, Flushing, FlushedAtExit

-----------------------------------------------------------------------------
(* The references *)

Renewed == {"a", "b", "d", "e", "l", "m", "s"}

\* A restart reconnects everybody who knows the module, but for what is forgotten.
LEMMA Users ==
  ASSUME NEW r \in Refs
  PROVE  /\ r[1] # r[2]
         /\ r[2] = "conf" \/ r[2] \in Mods
         /\ r \notin Forgotten /\ r[2] \in Renewed => r[1] \in Reconnected(r[2])
         /\ r[1] \in Renewed /\ r[2] \in Given[r[1]] => r[2] \in Mods
<1>1. PICK x \in DOMAIN Knows : r \in {<<x, y>> : y \in Knows[x]}
  BY DEF Refs
<1>2. PICK y \in Knows[x] : r = <<x, y>>
  BY <1>1
<1>3. /\ x # y
      /\ y = "conf" \/ y \in Mods
  BY <1>1, <1>2, Modules DEF Knows
<1>4. ASSUME r \notin Forgotten, y \in Renewed
      PROVE  x \in Reconnected(y)
  <2>1. <<x, y>> # <<"r", "s">> /\ <<x, y>> # <<"r", "b">>
    BY <1>2, <1>4 DEF Forgotten
  <2>2. \/ x = "a" /\ y \in {"l", "m", "s"}
        \/ x = "b" /\ y \in {"l", "m", "s"}
        \/ x = "d" /\ y = "l"
        \/ x = "e" /\ y = "l"
        \/ x = "i" /\ y \in {"l", "s", "b"}
        \/ x = "k" /\ y \in {"l", "m", "s"}
        \/ x = "m" /\ y \in {"l", "d", "s"}
        \/ x = "s" /\ y \in {"l", "d", "b", "m", "e"}
    BY <1>1, <1>2, <1>4, <2>1 DEF Knows, Renewed
  <2> QED
    BY <2>2 DEF Reconnected
<1>5. ASSUME x \in Renewed, y \in Given[x]
      PROVE  y \in Mods
  BY <1>5, Modules DEF Renewed, Given
<1> QED
  BY <1>2, <1>3, <1>4, <1>5

LEMMA RenewWires ==
  ASSUME TypeOK, Wired, NEW m \in Renewed, Renew(m)
  PROVE  Wired'
<1>1. m \in Mods /\ m # "c"
  BY Modules DEF Renewed
<1>2. gen' = [x \in Mods |-> IF x = m THEN gen[m] + 1 ELSE gen[x]]
  BY <1>1, RenewStep
<1>3. \A r \in Refs : ref'[r] = IF r[1] = m /\ r[2] \in Given[m] THEN gen[r[2]]
                                ELSE IF r[2] = m /\ r[1] \in Reconnected(m)
                                THEN gen[m] + 1 ELSE ref[r]
  BY DEF Renew
<1>4. ASSUME NEW r \in Refs \ Forgotten
      PROVE  ref'[r] = Latest(r[2])'
  <2>1. ref[r] = Latest(r[2])
    BY DEF Wired
  <2>2. "c" \in Mods
    BY Modules
  <2>3. CASE r[2] = m
    <3>1. r[1] # m /\ r[1] \in Reconnected(m) /\ m # "conf"
      BY <2>3, Users DEF Renewed
    <3>2. ref'[r] = gen[m] + 1
      BY <1>3, <2>3, <3>1
    <3> QED
      BY <1>1, <1>2, <2>3, <3>1, <3>2 DEF Latest
  <2>4. CASE r[2] # m
    <3>1. r[2] = "conf" \/ r[2] \in Mods
      BY Users
    <3>2. Latest(r[2])' = Latest(r[2])
      BY <1>1, <1>2, <2>2, <2>4, <3>1 DEF Latest
    <3>3. r[1] = m /\ r[2] \in Given[m] => r[2] # "conf"
      BY Users, Modules
    <3> QED
      BY <1>3, <2>1, <2>4, <3>2, <3>3 DEF Latest
  <2> QED
    BY <2>3, <2>4
<1> QED
  BY <1>4 DEF Wired

LEMMA ReloadWires ==
  ASSUME TypeOK, Wired, EndReload
  PROVE  Wired'
<1>1. "c" \in Mods
  BY Modules
<1>2. gen' = [x \in Mods |-> IF x = "c" THEN gen["c"] + 1 ELSE gen[x]]
  BY DEF EndReload, TypeOK
<1>3. \A r \in Refs : ref'[r] = IF r \in Reconfigured THEN gen["c"] + 1 ELSE ref[r]
  BY DEF EndReload
<1>4. ASSUME NEW r \in Refs \ Forgotten
      PROVE  ref'[r] = Latest(r[2])'
  <2>1. ref[r] = Latest(r[2]) /\ (r[2] = "conf" \/ r[2] \in Mods)
    BY Users DEF Wired
  <2>2. r \in Reconfigured <=> r[2] \in {"conf", "c"}
    <3>1. PICK x \in DOMAIN Knows : \E y \in Knows[x] : r = <<x, y>>
      BY DEF Refs
    <3>2. PICK y \in Knows[x] : r = <<x, y>>
      BY <3>1
    <3>3. <<x, y>> # <<"i", "c">>
      BY <3>2 DEF Forgotten
    <3>4. y = "c" => x = "a"
      BY <3>1, <3>2, <3>3 DEF Knows
    <3>5. y = "conf" => x \in Mods \ {"c"}
      BY <3>1, <3>2, Modules DEF Knows
    <3>6. <<x, y>> \in Reconfigured <=> \/ y = "conf" /\ x \in Mods \ {"c"}
                                        \/ y = "c" /\ x = "a"
      BY DEF Reconfigured
    <3> QED
      BY <3>2, <3>4, <3>5, <3>6
  <2> QED
    BY <1>1, <1>2, <1>3, <2>1, <2>2, Modules DEF Latest
<1> QED
  BY <1>4 DEF Wired

\* The steps by which the instances or the references change
LEMMA WiredStep ==
  ASSUME TypeOK, Wired, [Next]_vars
  PROVE  Wired'
<1>1. CASE EndReload
  BY <1>1, ReloadWires
<1>2. CASE \E m \in Mods : Restart(m)
  <2>1. PICK m \in Renewed : Renew(m)
    BY <1>2 DEF Restart, Renewed
  <2> QED
    BY <2>1, RenewWires
<1>3. CASE RestartEvent \/ Activate
  <2>1. PICK m \in Renewed : Renew(m)
    BY <1>3 DEF RestartEvent, Activate, Renewed
  <2> QED
    BY <2>1, RenewWires
<1>4. CASE gen' = gen /\ ref' = ref
  BY <1>4 DEF Wired, Latest
<1>5. CASE \/ \E m \in Editable : Edit(m)
           \/ Apply \/ Reset \/ JudgeNode \/ FailReload \/ FailActivate
           \/ \E m \in Mods : FailRestart(m)
           \/ BeginReload \/ PullData \/ EndTick
           \/ \E m \in Mods : RestartInVain(m)
           \/ BeginDeactivate \/ Deactivate \/ CloseConnections
  BY <1>4, <1>5
     DEF Edit, Apply, Reset, JudgeNode, FailReload, FailActivate, FailRestart, BeginReload,
         PullData, EndTick, RestartInVain, BeginDeactivate, Deactivate, CloseConnections
<1>6. CASE \/ \E g \in Gens : EventLoop(g) \/ ThrowTask(g)
           \/ \E f \in ToSet(Tasks) \union {"post"} : BeginCall(f)
           \/ EndCall \/ ThrowCall \/ BeginShutdown \/ Shutdown \/ Abort
  BY <1>4, <1>6
     DEF EventLoop, BeginTask, SkipTask, EndTask, ThrowTask, BeginCall, EndCall, ThrowCall,
         BeginShutdown, Shutdown, CloseApi, FlushPool, AppendBlocks, Exit, Abort
<1>7. CASE UNCHANGED vars
  BY <1>4, <1>7 DEF vars
<1> QED
  BY <1>1, <1>2, <1>3, <1>5, <1>6, <1>7 DEF Next, Watchdog

-----------------------------------------------------------------------------
(* The counts of the instances *)

\* The steps that leave the watchdog, the configuration and the instances alone, and
\* use up no edit and no order
LEMMA OtherSteps ==
  ASSUME TypeOK,
         \/ \E g \in Gens : EventLoop(g) \/ ThrowTask(g)
         \/ \E f \in ToSet(Tasks) \union {"post"} : BeginCall(f)
         \/ EndCall \/ ThrowCall \/ BeginShutdown \/ Shutdown \/ Abort
         \/ BeginDeactivate \/ Deactivate \/ CloseConnections \/ UNCHANGED vars
  PROVE  /\ UNCHANGED <<conf, due, gen, ref, at>>
         /\ spent'.edits = spent.edits /\ spent'.orders = spent.orders
         /\ spent' \in [edits : 0 .. MaxEdits, orders : 0 .. MaxOrders,
                        calls : 0 .. MaxCalls, faults : 0 .. MaxFaults]
<1> DEFINE Spent == [edits : 0 .. MaxEdits, orders : 0 .. MaxOrders,
                     calls : 0 .. MaxCalls, faults : 0 .. MaxFaults]
<1>1. spent \in Spent
  BY DEF TypeOK
<1>2. MayFail => [spent EXCEPT !.faults = @ + 1] \in Spent
  BY <1>1, ConstantsOK DEF MayFail
<1>3. spent.calls < MaxCalls => [spent EXCEPT !.calls = @ + 1] \in Spent
  BY <1>1, ConstantsOK
<1> HIDE DEF Spent
<1>4. CASE (\E g \in Gens : ThrowTask(g)) \/ ThrowCall \/ Abort
  <2>1. UNCHANGED <<conf, due, gen, ref, at>> /\ MayFail /\ Fault
    BY <1>4 DEF ThrowTask, ThrowCall, Abort
  <2> QED
    BY <1>1, <1>2, <2>1 DEF Fault, Spent
<1>5. CASE \E f \in ToSet(Tasks) \union {"post"} : BeginCall(f)
  <2>1. /\ UNCHANGED <<conf, due, gen, ref, at>> /\ spent.calls < MaxCalls
        /\ spent' = [spent EXCEPT !.calls = @ + 1]
    BY <1>5 DEF BeginCall
  <2> QED
    BY <1>1, <1>3, <2>1 DEF Spent
<1>6. CASE \/ \E g \in Gens : EventLoop(g)
           \/ EndCall \/ BeginShutdown \/ Shutdown
           \/ BeginDeactivate \/ Deactivate \/ CloseConnections \/ UNCHANGED vars
  <2>1. UNCHANGED <<conf, due, gen, ref, at, spent>>
    BY <1>6
       DEF EventLoop, BeginTask, SkipTask, EndTask, EndCall, BeginShutdown, Shutdown,
           CloseApi, FlushPool, AppendBlocks, Exit, BeginDeactivate, Deactivate,
           CloseConnections, vars
  <2> QED
    BY <1>1, <2>1 DEF Spent
<1> QED
  BY <1>4, <1>5, <1>6 DEF Spent

\* What the count is of
LEMMA CountKept ==
  ASSUME TypeOK, GensCounted,
         \A m \in Mods : gen'[m] = gen[m] \/ (gen'[m] = gen[m] + 1 /\ m \in due),
         gen'["c"] = gen["c"], due' \subseteq due,
         \A m \in Mods : gen'[m] # gen[m] => m \notin due',
         spent'.edits >= spent.edits, spent'.orders >= spent.orders,
         spent'.edits \in Nat, spent'.orders \in Nat,
         spent'.edits + spent'.orders > spent.edits + spent.orders \/ (Ordered' => Ordered),
         \/ spent'.orders > spent.orders /\ (at' = 0 => at = 0)
         \/ (at' = 0 \/ conf'.cond = "reloadNeeded") =>
              (at = 0 \/ conf.cond = "reloadNeeded")
  PROVE  GensCounted'
<1>1. /\ spent.edits \in Nat /\ spent.orders \in Nat
      /\ \A m \in Mods : gen[m] \in Nat
  BY ConstantsOK DEF TypeOK, Gens
<1>2. gen'["c"] + One(at' = 0 \/ conf'.cond = "reloadNeeded") <= spent'.orders
  BY <1>1, Modules DEF GensCounted, One
<1>3. ASSUME NEW m \in Mods \ {"c"}
      PROVE  gen'[m] + One(m \in due') + One(Ordered') <= spent'.edits + spent'.orders
  <2>1. gen[m] + One(m \in due) + One(Ordered) <= spent.edits + spent.orders
    BY DEF GensCounted
  <2>2. gen'[m] + One(m \in due') <= gen[m] + One(m \in due)
    BY <1>1 DEF One
  <2>3. /\ One(Ordered) \in 0 .. 1 /\ One(Ordered') \in 0 .. 1
        /\ One(m \in due) \in 0 .. 1 /\ One(m \in due') \in 0 .. 1
    BY DEF One
  <2>4. One(Ordered') <= One(Ordered) \/ spent'.edits + spent'.orders > spent.edits + spent.orders
    BY DEF One
  <2>5. gen[m] \in Nat /\ gen'[m] \in Nat
    BY <1>1
  <2> QED
    BY <1>1, <2>1, <2>2, <2>3, <2>4, <2>5
<1> QED
  BY <1>2, <1>3 DEF GensCounted

\* The steps by which the watchdog goes on from one module to the next
LEMMA VisitStep ==
  ASSUME TypeOK, AtTheApi,
         \/ \E m \in Mods : Restart(m) \/ RestartInVain(m) \/ FailRestart(m)
         \/ RestartEvent \/ Activate \/ FailActivate
  PROVE  \E m \in Mods :
           /\ NextIs(m) /\ Visited(m) /\ at > 1 /\ m # "c" /\ conf' = conf
           /\ (m \in Renewed /\ Renew(m)) \/ UNCHANGED <<gen, ref>>
           /\ spent'.edits = spent.edits /\ spent'.orders = spent.orders
           /\ spent' \in [edits : 0 .. MaxEdits, orders : 0 .. MaxOrders,
                          calls : 0 .. MaxCalls, faults : 0 .. MaxFaults]
<1> DEFINE Spent == [edits : 0 .. MaxEdits, orders : 0 .. MaxOrders,
                     calls : 0 .. MaxCalls, faults : 0 .. MaxFaults]
           Kept == /\ spent'.edits = spent.edits /\ spent'.orders = spent.orders
                   /\ spent' \in Spent
<1>1. spent \in Spent
  BY DEF TypeOK
<1>2. MayFail /\ Fault => Kept
  <2>1. MayFail => [spent EXCEPT !.faults = @ + 1] \in Spent
    BY <1>1, ConstantsOK DEF MayFail
  <2> QED
    BY <1>1, <2>1 DEF Fault
<1>3. spent' = spent => Kept
  BY <1>1
<1> HIDE DEF Kept
<1>4. \A m : NextIs(m) => at > 1 /\ m # "c"
  BY DEF NextIs, TypeOK
<1>5. CASE \E m \in Mods : Restart(m) \/ RestartInVain(m) \/ FailRestart(m)
  BY <1>2, <1>3, <1>4, <1>5 DEF Restart, RestartInVain, FailRestart, Kept, Renewed
<1>6. CASE RestartEvent
  BY <1>3, <1>4, <1>6, Modules DEF RestartEvent, Kept, Renewed
<1>7. CASE Activate \/ FailActivate
  <2>1. NextIs("a") /\ "a" \in Mods
    BY <1>7, Modules DEF Activate, FailActivate, AtTheApi, NotWaiting
  <2> QED
    BY <1>2, <1>3, <1>4, <1>7, <2>1 DEF Activate, FailActivate, Kept, Renewed
<1> QED
  BY <1>5, <1>6, <1>7

LEMMA CountStep ==
  ASSUME IInv, [Next]_vars
  PROVE  GensCounted'
<1> USE DEF IInv
<1>1. /\ spent.edits \in Nat /\ spent.orders \in Nat
      /\ gen \in [Mods -> Gens] /\ \A m \in Mods : gen[m] \in Nat
      /\ "c" \in Mods
  BY ConstantsOK, Modules DEF TypeOK, Gens
<1>2. CASE \/ \E g \in Gens : EventLoop(g) \/ ThrowTask(g)
           \/ \E f \in ToSet(Tasks) \union {"post"} : BeginCall(f)
           \/ EndCall \/ ThrowCall \/ BeginShutdown \/ Shutdown \/ Abort
           \/ BeginDeactivate \/ Deactivate \/ CloseConnections \/ UNCHANGED vars
  <2>1. /\ UNCHANGED <<conf, due, gen, ref, at>>
        /\ spent'.edits = spent.edits /\ spent'.orders = spent.orders
    BY <1>2, OtherSteps
  <2> QED
    BY <2>1 DEF GensCounted, One, Ordered
<1>3. CASE \/ \E m \in Mods : Restart(m) \/ RestartInVain(m) \/ FailRestart(m)
           \/ RestartEvent \/ Activate \/ FailActivate
  <2>1. PICK m \in Mods :
           /\ NextIs(m) /\ Visited(m) /\ at > 1 /\ m # "c" /\ conf' = conf
           /\ (m \in Renewed /\ Renew(m)) \/ UNCHANGED <<gen, ref>>
           /\ spent'.edits = spent.edits /\ spent'.orders = spent.orders
    BY <1>3, VisitStep
  <2>2. \A x \in Mods : gen'[x] = gen[x] \/ (x = m /\ gen'[x] = gen[x] + 1)
    BY <2>1, RenewStep
  <2>3. m \in due /\ due' = due \ {m} /\ at' > 1
    BY <2>1, Modules DEF NextIs, Visited
  <2>4. Ordered' => Ordered
    BY <2>1, <2>3 DEF Ordered
  <2>5. (at' = 0 \/ conf'.cond = "reloadNeeded") => (at = 0 \/ conf.cond = "reloadNeeded")
    BY <2>1, <2>3
  <2> QED
    BY <1>1, <2>1, <2>2, <2>3, <2>4, <2>5, CountKept
<1>4. CASE \E m \in Editable : Edit(m)
  <2>1. /\ conf'.cond = conf.cond /\ UNCHANGED <<due, gen, at>>
        /\ spent'.edits = spent.edits + 1 /\ spent'.orders = spent.orders
    BY <1>4 DEF Edit, TypeOK
  <2> QED
    BY <1>1, <2>1, CountKept DEF Ordered
<1>5. CASE Apply \/ Reset
  <2>1. /\ UNCHANGED <<due, gen, at>>
        /\ spent'.edits = spent.edits /\ spent'.orders = spent.orders + 1
    BY <1>5 DEF Apply, Reset, TypeOK
  <2> QED
    BY <1>1, <2>1, CountKept
<1>6. CASE JudgeNode
  <2>1. /\ conf'.cond = conf.cond \/ conf'.cond = "pulldataNeeded"
        /\ UNCHANGED <<due, gen, at>>
        /\ spent'.edits = spent.edits + 1 /\ spent'.orders = spent.orders
    BY <1>6 DEF JudgeNode, TypeOK
  <2> QED
    BY <1>1, <2>1, CountKept
<1>7. CASE BeginReload
  <2>1. /\ at = 1 /\ conf.cond = "reloadNeeded" /\ at' = 0 /\ conf' = conf
        /\ UNCHANGED <<gen, spent>>
    BY <1>7 DEF BeginReload
  <2>2. gen["c"] + 1 <= spent.orders
    BY <2>1 DEF GensCounted, One
  <2>3. \A m \in Mods \ {"c"} : gen[m] + 1 <= spent.edits + spent.orders
    BY <1>1, <2>1 DEF GensCounted, One, Ordered
  <2> QED
    BY <1>1, <2>1, <2>2, <2>3 DEF GensCounted, One, Ordered
<1>8. CASE PullData
  <2>1. /\ at = 1 /\ conf.cond = "pulldataNeeded" /\ at' = 2 /\ conf'.cond = "active"
        /\ UNCHANGED <<gen, spent>>
    BY <1>8 DEF PullData, TypeOK
  <2>2. gen["c"] <= spent.orders
    BY <1>1, <2>1 DEF GensCounted, One
  <2>3. \A m \in Mods \ {"c"} : gen[m] + 1 <= spent.edits + spent.orders
    BY <1>1, <2>1 DEF GensCounted, One, Ordered
  <2> QED
    BY <1>1, <2>1, <2>2, <2>3 DEF GensCounted, One, Ordered
<1>9. CASE EndReload
  <2>1. /\ at = 0 /\ at' = 2 /\ conf'.cond = "active" /\ due' = due /\ spent' = spent
        /\ gen' = [gen EXCEPT !["c"] = @ + 1]
    BY <1>9 DEF EndReload
  <2>2. gen["c"] + 1 <= spent.orders
    BY <2>1 DEF GensCounted, One
  <2>3. gen'["c"] = gen["c"] + 1 /\ \A m \in Mods \ {"c"} : gen'[m] = gen[m]
    BY <1>1, <2>1
  <2>4. \A m \in Mods \ {"c"} : gen[m] + One(m \in due) <= spent.edits + spent.orders
    BY <1>1, <2>1 DEF GensCounted, One, Ordered
  <2> QED
    BY <1>1, <2>1, <2>2, <2>3, <2>4 DEF GensCounted, One, Ordered
<1>10. CASE FailReload
  <2>1. /\ at = 0 /\ at' = 2 /\ conf'.cond = "loading" /\ UNCHANGED <<due, gen>>
        /\ spent'.edits = spent.edits /\ spent'.orders = spent.orders
    BY <1>10 DEF FailReload, Fault, TypeOK
  <2> QED
    BY <1>1, <2>1, CountKept DEF Ordered
<1>11. CASE EndTick
  <2>1. UNCHANGED <<conf, due, gen, spent>> /\ at > 1 /\ at' = 1
    BY <1>11 DEF EndTick
  <2> QED
    BY <1>1, <2>1, CountKept DEF Ordered
<1> QED
  BY <1>2, <1>3, <1>4, <1>5, <1>6, <1>7, <1>8, <1>9, <1>10, <1>11 DEF Next, Watchdog

LEMMA ApiStep ==
  ASSUME IInv, [Next]_vars
  PROVE  AtTheApi'
<1> USE DEF IInv
<1>1. CASE UNCHANGED <<due, at>> /\ api'.watchdog = api.watchdog
  BY <1>1 DEF AtTheApi, NextIs
<1>2. CASE \/ \E g \in Gens : EventLoop(g) \/ ThrowTask(g)
           \/ \E f \in ToSet(Tasks) \union {"post"} : BeginCall(f)
           \/ EndCall \/ ThrowCall \/ BeginShutdown \/ Shutdown \/ Abort
           \/ Deactivate \/ CloseConnections \/ UNCHANGED vars
  <2>1. api'.watchdog = api.watchdog
    <3>1. CASE \/ EndCall \/ BeginShutdown \/ CloseApi \/ Deactivate \/ CloseConnections
      BY <3>1 DEF EndCall, BeginShutdown, CloseApi, Deactivate, CloseConnections, TypeOK
    <3>2. CASE ~(EndCall \/ BeginShutdown \/ CloseApi \/ Deactivate \/ CloseConnections)
      BY <1>2, <3>2 DEF EventLoop, BeginTask, SkipTask, EndTask, ThrowTask, BeginCall,
           ThrowCall, Shutdown, FlushPool, AppendBlocks, Exit, Abort, vars
    <3> QED
      BY <3>1, <3>2
  <2> QED
    BY <1>1, <1>2, <2>1, OtherSteps
<1>3. CASE BeginDeactivate
  BY <1>3 DEF BeginDeactivate, AtTheApi, NextIs
<1>4. CASE \/ \E m \in Editable : Edit(m)
           \/ Apply \/ Reset \/ JudgeNode
  BY <1>1, <1>4 DEF Edit, Apply, Reset, JudgeNode
\* The tick cannot begin or end while the watchdog waits.
<1>5. CASE BeginReload \/ EndReload \/ PullData \/ EndTick \/ FailReload
  <2>1. api' = api /\ (api.watchdog = NotWaiting \/ ~(at > 1))
    BY <1>5 DEF BeginReload, EndReload, PullData, EndTick, FailReload
  <2> QED
    BY <2>1 DEF AtTheApi, NextIs
\* The module it waits for is the only one it has come to.
<1>6. CASE \/ \E m \in Mods : Restart(m) \/ RestartInVain(m) \/ FailRestart(m)
           \/ RestartEvent
  <2>1. api' = api
    BY <1>6 DEF Restart, RestartInVain, FailRestart, RestartEvent
  <2>2. \E m : m # "a" /\ NextIs(m)
    BY <1>6 DEF Restart, RestartInVain, FailRestart, RestartEvent
  <2>3. due \subseteq Mods
    BY DEF TypeOK
  <2>4. ~NextIs("a")
    BY <2>2, <2>3, NextIsOne
  <2> QED
    BY <2>1, <2>4 DEF AtTheApi
<1>7. CASE Activate \/ FailActivate
  BY <1>7 DEF Activate, FailActivate, AtTheApi, TypeOK
<1> QED
  BY <1>2, <1>3, <1>4, <1>5, <1>6, <1>7 DEF Next, Watchdog

-----------------------------------------------------------------------------
(* The locks *)

LockInv == LocksHeld /\ OneAtATime
LocksOK == locks \in [Gens -> SUBSET ToSet(Tasks)] /\ run \in [Actors -> Runs]

\* Taking a lock that is free: nobody runs the function in this instance.
LEMMA TakeStep ==
  ASSUME TypeOK, LockInv, NEW p \in Actors, NEW f \in ToSet(Tasks), Take(p, f)
  PROVE  LockInv' /\ LocksOK' /\ \A q \in Actors : q # p => run'[q] = run[q]
<1>1. CASE ~Free(f)
  BY <1>1 DEF Take, LockInv, LocksHeld, OneAtATime, Busy, LocksOK, TypeOK
<1>2. CASE Free(f)
  <2> DEFINE g == gen["s"]
             o == [fn |-> f, in |-> g, has |-> Selected(f)]
  <2>1. g \in Gens /\ "s" \in Mods
    BY Modules DEF TypeOK
  <2>2. o \in Runs /\ o.fn = f /\ o.in = g
    BY <2>1 DEF Runs, Selected
  <2>3. /\ locks' = [locks EXCEPT ![g] = @ \union {f}] /\ run' = [run EXCEPT ![p] = o]
        /\ f \notin locks[g]
    BY <1>2 DEF Take, Free
  <2> HIDE DEF g, o
  <2>4. f \in {"postDeliveryPool", "postAppendBlocks"}
    BY TasksAre
  <2>5. /\ \A q \in Actors : run'[q] = IF q = p THEN o ELSE run[q]
        /\ \A h \in Gens : locks'[h] = IF h = g THEN locks[h] \union {f} ELSE locks[h]
        /\ \A q \in Actors : run[q].in \in Gens
    BY <2>1, <2>3 DEF TypeOK, Runs
  <2>6. LocksOK'
    BY <2>1, <2>2, <2>3 DEF LocksOK, TypeOK
  <2>7. LocksHeld'
    BY <2>1, <2>2, <2>4, <2>5, ZenonT(60) DEF LocksHeld, LockInv
  <2>8. \A q \in Actors : run[q].fn = f => run[q].in # g
    BY <2>3, TasksAre DEF LocksHeld, LockInv
  <2>9. OneAtATime'
    BY <2>2, <2>5, <2>8 DEF OneAtATime, LockInv, Busy
  <2> QED
    BY <2>5, <2>6, <2>7, <2>9 DEF LockInv
<1> QED
  BY <1>1, <1>2

LEMMA IdleIsRun == Idle \in Runs /\ Idle.fn = "none" /\ Idle.fn \notin ToSet(Tasks)
<1>1. 0 \in Gens
  BY ConstantsOK DEF Gens
<1> QED
  BY <1>1, TasksAre DEF Idle, Runs

\* Releasing a lock: it is not the lock of anybody else.
LEMMA ReleaseStep ==
  ASSUME TypeOK, LockInv, NEW p \in Actors, Busy(p), Release(p),
         run' = [run EXCEPT ![p] = Idle]
  PROVE  LockInv' /\ LocksOK' /\ \A q \in Actors : q # p => run'[q] = run[q]
<1>1. /\ \A q \in Actors : run'[q] = IF q = p THEN Idle ELSE run[q]
      /\ \A q \in Actors : run[q].in \in Gens
      /\ \A h \in Gens : locks'[h] = IF h = run[p].in THEN locks[h] \ {run[p].fn}
                                     ELSE locks[h]
  BY DEF TypeOK, Runs, Release
<1>2. LocksOK'
  BY IdleIsRun DEF LocksOK, TypeOK, Release
<1>3. OneAtATime'
  BY <1>1, IdleIsRun DEF OneAtATime, LockInv, Busy
<1>4. ASSUME NEW q \in Actors, run'[q].fn \in ToSet(Tasks)
      PROVE  run'[q].fn \in locks'[run'[q].in]
  <2>1. q # p /\ run'[q] = run[q]
    BY <1>1, <1>4, IdleIsRun
  <2>2. run[q].fn \in locks[run[q].in]
    BY <1>4, <2>1 DEF LockInv, LocksHeld
  <2>3. run[q].in # run[p].in \/ run[q].fn # run[p].fn
    BY <2>1 DEF LockInv, OneAtATime
  <2>4. run[q].fn \in locks'[run[q].in]
    BY <1>1, <2>2, <2>3
  <2> QED
    BY <2>1, <2>4
<1>5. \A q \in Actors : run'[q].fn = "post" => q = Call
  BY <1>1, IdleIsRun DEF LockInv, LocksHeld
<1> QED
  BY <1>1, <1>2, <1>3, <1>4, <1>5 DEF LockInv, LocksHeld

\* An exception leaves the lock.
LEMMA ThrowStep ==
  ASSUME TypeOK, LockInv, NEW p \in Actors, run' = [run EXCEPT ![p] = Idle], locks' = locks
  PROVE  LockInv' /\ LocksOK'
<1>1. \A q \in Actors : run'[q] = IF q = p THEN Idle ELSE run[q]
  BY DEF TypeOK
<1> QED
  BY <1>1, IdleIsRun DEF LockInv, LocksHeld, OneAtATime, Busy, LocksOK, TypeOK

\* The shutdown changes from one function to the next.
LEMMA AppendStep ==
  ASSUME TypeOK, LockInv, AppendBlocks, run[Signal].fn = "postDeliveryPool"
  PROVE  LockInv' /\ LocksOK'
<1> DEFINE g == gen["s"]
           r == run[Signal]
           unlocked == [locks EXCEPT ![r.in] = @ \ {r.fn}]
           free == "postAppendBlocks" \notin unlocked[g]
           o == IF free THEN [fn |-> "postAppendBlocks", in |-> g, has |-> Done(r) = "sent"]
                ELSE Idle
<1>1. /\ g \in Gens /\ r \in Runs /\ r.in \in Gens /\ Signal \in Actors /\ Signal # Call
      /\ run' = [run EXCEPT ![Signal] = o]
      /\ \A q \in Actors : run[q].in \in Gens
  BY Modules, ActorsAre DEF TypeOK, Runs, AppendBlocks
<1>2. o \in Runs
  BY <1>1, IdleIsRun, TasksAre DEF Runs
<1>3. /\ unlocked \in [Gens -> SUBSET ToSet(Tasks)]
      /\ \A h \in Gens : unlocked[h] = IF h = r.in THEN locks[h] \ {r.fn} ELSE locks[h]
  BY <1>1 DEF TypeOK
<1>4. /\ locks' \in [Gens -> SUBSET ToSet(Tasks)]
      /\ \A h \in Gens : locks'[h] = IF h = g /\ free
                                     THEN unlocked[h] \union {"postAppendBlocks"} ELSE unlocked[h]
  <2>1. locks' = IF free THEN [unlocked EXCEPT ![g] = @ \union {"postAppendBlocks"}]
                 ELSE unlocked
    BY DEF AppendBlocks
  <2>2. "postAppendBlocks" \in ToSet(Tasks)
    BY TasksAre
  <2> HIDE DEF unlocked, g
  <2> QED
    BY <1>1, <1>3, <2>1, <2>2
<1>5. \A q \in Actors : run'[q] = IF q = Signal THEN o ELSE run[q]
  BY <1>1 DEF TypeOK
<1>6. LocksOK'
  BY <1>1, <1>2, <1>4 DEF LocksOK, TypeOK
\* The others keep their locks.
<1>7. ASSUME NEW q \in Actors, q # Signal, run[q].fn \in ToSet(Tasks)
      PROVE  run[q].fn \in unlocked[run[q].in]
  <2>1. run[q].fn \in locks[run[q].in]
    BY <1>7 DEF LockInv, LocksHeld
  <2>2. Busy(q)
    BY <1>7, TasksAre DEF Busy
  <2>3. run[q].in # r.in \/ run[q].fn # r.fn
    BY <1>1, <1>7, <2>2 DEF LockInv, OneAtATime
  <2> QED
    BY <1>1, <1>3, <2>1, <2>3
<1> HIDE DEF unlocked
<1>8. free => o.fn = "postAppendBlocks" /\ o.in = g
  OBVIOUS
<1>9. ~free => o.fn = "none" /\ o.fn \notin ToSet(Tasks)
  BY IdleIsRun
<1> HIDE DEF o
<1>10. LocksHeld'
  <2>1. ASSUME NEW q \in Actors, run'[q].fn \in ToSet(Tasks)
        PROVE  run'[q].fn \in locks'[run'[q].in]
    BY <1>1, <1>4, <1>5, <1>7, <1>8, <1>9, <2>1
  <2>2. \A q \in Actors : run'[q].fn = "post" => q = Call
    BY <1>5, <1>8, <1>9 DEF LockInv, LocksHeld
  <2> QED
    BY <2>1, <2>2 DEF LocksHeld
<1>11. OneAtATime'
  <2>1. \A q \in Actors : q # Signal /\ free => ~(run[q].fn = "postAppendBlocks" /\ run[q].in = g)
    BY <1>1, <1>7, TasksAre
  <2> QED
    BY <1>1, <1>5, <1>8, <1>9, <2>1 DEF OneAtATime, LockInv, Busy
<1> QED
  BY <1>6, <1>10, <1>11 DEF LockInv

\* The steps at which no function begins or ends
Quiet ==
  \/ \E m \in Editable : Edit(m)
  \/ Apply \/ Reset \/ JudgeNode \/ FailReload \/ FailActivate
  \/ \E m \in Mods : FailRestart(m)
  \/ BeginReload \/ EndReload \/ PullData \/ EndTick
  \/ \E m \in Mods : Restart(m) \/ RestartInVain(m)
  \/ RestartEvent
  \/ BeginDeactivate \/ Deactivate \/ CloseConnections \/ Activate
  \/ \E g \in Gens : SkipTask(g)
  \/ ThrowCall \/ BeginShutdown \/ CloseApi
  \/ UNCHANGED vars

LEMMA QuietStep ==
  ASSUME TypeOK, Quiet
  PROVE  UNCHANGED <<locks, run, tx>> /\ api'.late = api.late
<1>1. UNCHANGED <<locks, run, tx>>
  BY DEF Quiet, Edit, Apply, Reset, JudgeNode, FailReload, FailActivate, FailRestart,
         BeginReload, EndReload, PullData, EndTick, Restart, RestartInVain, RestartEvent,
         BeginDeactivate, Deactivate, CloseConnections, Activate, SkipTask, ThrowCall,
         BeginShutdown, CloseApi, vars
<1>2. CASE FailActivate \/ BeginDeactivate \/ Deactivate \/ CloseConnections \/ Activate
           \/ BeginShutdown \/ CloseApi
  <2>1. api'.late = api.late
    BY <1>2 DEF FailActivate, BeginDeactivate, Deactivate, CloseConnections, Activate,
                BeginShutdown, CloseApi, TypeOK
  <2> QED
    BY <1>1, <2>1
<1>3. CASE ~(FailActivate \/ BeginDeactivate \/ Deactivate \/ CloseConnections \/ Activate
             \/ BeginShutdown \/ CloseApi)
  <2>1. api' = api
    BY <1>3 DEF Quiet, Edit, Apply, Reset, JudgeNode, FailReload, FailRestart, BeginReload,
           EndReload, PullData, EndTick, Restart, RestartInVain, RestartEvent, SkipTask,
           ThrowCall, vars
  <2> QED
    BY <1>1, <2>1
<1> QED
  BY <1>2, <1>3

LEMMA LockStep ==
  ASSUME IInv, [Next]_vars
  PROVE  LockInv' /\ LocksOK'
<1> USE DEF IInv
<1>1. LockInv
  BY DEF LockInv
<1>2. CASE Quiet
  BY <1>1, <1>2, QuietStep
     DEF LockInv, LocksHeld, OneAtATime, Busy, LocksOK, TypeOK
<1>3. ASSUME NEW g \in Gens, BeginTask(g)
      PROVE  LockInv' /\ LocksOK'
  <2>1. Left(g) \in {Tasks, <<"postAppendBlocks">>}
    BY <1>3 DEF BeginTask, Left, RestOK
  <2>2. Head(Left(g)) \in ToSet(Tasks)
    BY <2>1, TasksAre
  <2> QED
    BY <1>1, <1>3, <2>2, TakeStep, ActorsAre DEF BeginTask
<1>4. ASSUME NEW g \in Gens, EndTask(g)
      PROVE  LockInv' /\ LocksOK'
  BY <1>1, <1>4, ReleaseStep, ActorsAre DEF EndTask
<1>5. ASSUME NEW g \in Gens, ThrowTask(g)
      PROVE  LockInv' /\ LocksOK'
  BY <1>1, <1>5, ThrowStep, ActorsAre DEF ThrowTask
<1>6. ASSUME NEW f \in ToSet(Tasks) \union {"post"}, BeginCall(f)
      PROVE  LockInv' /\ LocksOK'
  <2>1. CASE f \in ToSet(Tasks) /\ Take(Call, f)
    BY <1>1, <2>1, TakeStep, ActorsAre
  <2>2. CASE f = "post" /\ run' = [run EXCEPT ![Call] = [Idle EXCEPT !.fn = "post"]]
             /\ UNCHANGED locks
    <3> DEFINE o == [Idle EXCEPT !.fn = "post"]
    <3>1. o \in Runs /\ o.fn = "post"
      BY IdleIsRun DEF Runs
    <3>2. "post" \notin ToSet(Tasks)
      BY TasksAre
    <3> HIDE DEF o
    <3>3. \A q \in Actors : run'[q] = IF q = Call THEN o ELSE run[q]
      BY <2>2 DEF o, TypeOK
    <3>4. LocksOK'
      BY <2>2, <3>1, ActorsAre DEF LocksOK, TypeOK, o
    <3>5. LocksHeld'
      BY <2>2, <3>1, <3>2, <3>3 DEF LocksHeld
    <3>6. OneAtATime'
      BY <3>1, <3>3 DEF OneAtATime, LocksHeld, Busy
    <3> QED
      BY <3>4, <3>5, <3>6 DEF LockInv
  <2> QED
    BY <1>6, <2>1, <2>2 DEF BeginCall
<1>7. CASE EndCall
  BY <1>1, <1>7, ReleaseStep, ActorsAre DEF EndCall
<1>8. CASE FlushPool
  <2>1. "postDeliveryPool" \in ToSet(Tasks)
    BY TasksAre
  <2> QED
    BY <1>1, <1>8, <2>1, TakeStep, ActorsAre DEF FlushPool
<1>9. CASE AppendBlocks
  <2>1. run[Signal].fn = "postDeliveryPool"
    BY <1>9 DEF Flushing, AppendBlocks
  <2> QED
    BY <1>1, <1>9, <2>1, AppendStep
<1>10. CASE Exit \/ Abort
  <2>1. /\ Busy(Signal) /\ Release(Signal) /\ run' = [run EXCEPT ![Signal] = Idle]
    BY <1>10 DEF Flushing, Busy, Exit, Abort
  <2> QED
    BY <1>1, <2>1, ReleaseStep, ActorsAre
<1> QED
  BY <1>2, <1>3, <1>4, <1>5, <1>6, <1>7, <1>8, <1>9, <1>10
     DEF Next, Watchdog, EventLoop, Shutdown, Quiet

-----------------------------------------------------------------------------
(* The shutdown *)

\* What a function does to the transaction when it ends well
LEMMA DoneStep ==
  ASSUME TypeOK, LocksHeld, NEW p \in Actors, Busy(p)
  PROVE  /\ Done(run[p]) \in {"none", "new", "sent", "blocked"}
         /\ \/ Done(run[p]) = tx
            \/ Done(run[p]) = "blocked"
            \/ tx = "new" /\ Done(run[p]) = "sent"
            \/ p = Call /\ run[p].fn = "post" /\ tx = "none" /\ Done(run[p]) = "new"
         /\ run[p].fn = "postDeliveryPool" /\ run[p].has => Done(run[p]) # "new"
         /\ run[p].fn = "postAppendBlocks" /\ run[p].has => Done(run[p]) = "blocked"
<1>1. run[p].fn \in {"post", "postDeliveryPool", "postAppendBlocks"}
  BY TasksAre DEF TypeOK, Runs, Busy
<1>2. tx \in {"none", "new", "sent", "blocked"}
  BY DEF TypeOK
<1>3. CASE run[p].fn = "post"
  BY <1>2, <1>3 DEF Done, LocksHeld
<1>4. CASE run[p].fn = "postDeliveryPool"
  BY <1>2, <1>4 DEF Done
<1>5. CASE run[p].fn = "postAppendBlocks"
  BY <1>2, <1>5 DEF Done
<1> QED
  BY <1>1, <1>3, <1>4, <1>5

LEMMA FlushStep ==
  ASSUME IInv, [Next]_vars
  PROVE  Flushing' /\ FlushedAtExit'
<1> USE DEF IInv
<1>1. ASSUME down' = down, run'[Signal] = run[Signal], tx' = tx, api'.late = api.late
      PROVE  Flushing' /\ FlushedAtExit'
  BY <1>1 DEF Flushing, Carried, FlushedAtExit
<1>2. CASE ThrowCall \/ BeginShutdown \/ CloseApi
  BY <1>2 DEF ThrowCall, BeginShutdown, CloseApi, Flushing, FlushedAtExit
<1>3. CASE Quiet /\ ~(ThrowCall \/ BeginShutdown \/ CloseApi)
  <2>1. down' = down
    BY <1>3 DEF Quiet, Edit, Apply, Reset, JudgeNode, FailReload, FailActivate,
         FailRestart, BeginReload, EndReload, PullData, EndTick, Restart, RestartInVain,
         RestartEvent, BeginDeactivate, Deactivate, CloseConnections, Activate, SkipTask,
         vars
  <2> QED
    BY <1>1, <1>3, <2>1, QuietStep
<1>4. ASSUME NEW g \in Gens, BeginTask(g) \/ ThrowTask(g)
      PROVE  Flushing' /\ FlushedAtExit'
  <2>1. Loop(g) # Signal /\ Signal \in Actors
    BY ActorsAre
  <2>2. run'[Signal] = run[Signal]
    BY <1>4, <2>1 DEF BeginTask, ThrowTask, Take, TypeOK
  <2> QED
    BY <1>1, <1>4, <2>2 DEF BeginTask, ThrowTask
<1>5. ASSUME NEW f \in ToSet(Tasks) \union {"post"}, BeginCall(f)
      PROVE  Flushing' /\ FlushedAtExit'
  <2>1. Call # Signal /\ Signal \in Actors
    BY ActorsAre
  <2>2. run'[Signal] = run[Signal]
    BY <1>5, <2>1 DEF BeginCall, Take, TypeOK
  <2> QED
    BY <1>1, <1>5, <2>2 DEF BeginCall
\* A function ends beside the shutdown: it can only take the transaction further, but
\* for a post, which is late then.
<1>6. ASSUME NEW p \in Actors, p # Signal, Busy(p), Running, down' = down,
             run' = [run EXCEPT ![p] = Idle], tx' = Done(run[p]),
             api'.late <=> api.late \/ (p = Call /\ run[p].fn = "post" /\ down # "up")
      PROVE  Flushing' /\ FlushedAtExit'
  <2>1. run'[Signal] = run[Signal]
    BY <1>6, ActorsAre DEF TypeOK
  <2>2. \/ tx' = tx \/ tx' = "blocked"
        \/ tx = "new" /\ tx' = "sent"
        \/ p = Call /\ run[p].fn = "post" /\ tx = "none" /\ tx' = "new"
    BY <1>6, DoneStep
  <2>3. api.late => api'.late
    BY <1>6
  <2>4. down # "exited"
    BY <1>6 DEF Running
  <2>5. CASE p = Call /\ run[p].fn = "post" /\ tx = "none" /\ tx' = "new"
    <3>1. down \in {"delivering", "appending"} => api'.late
      BY <1>6, <2>5
    <3> QED
      BY <1>6, <2>1, <2>4, <3>1 DEF Flushing, Carried, FlushedAtExit
  <2>6. CASE tx' = tx \/ tx' = "blocked" \/ (tx = "new" /\ tx' = "sent")
    <3>1. down = "delivering" =>
            /\ run[Signal].fn = "postDeliveryPool"
            /\ api.late \/ tx' \in {"none", "blocked", "sent"}
                        \/ (tx' = "new" /\ run[Signal].has)
      BY <2>6 DEF Flushing, Carried
    <3>2. down = "appending" =>
            /\ run[Signal].fn = "postAppendBlocks"
            /\ api.late \/ tx' \in {"none", "blocked"} \/ (tx' = "sent" /\ run[Signal].has)
      BY <2>6 DEF Flushing, Carried
    <3> QED
      BY <1>6, <2>1, <2>3, <2>4, <3>1, <3>2 DEF Flushing, Carried, FlushedAtExit
  <2> QED
    BY <2>2, <2>5, <2>6
<1>7. ASSUME NEW g \in Gens, EndTask(g)
      PROVE  Flushing' /\ FlushedAtExit'
  <2>1. Loop(g) \in Actors /\ Loop(g) # Signal /\ Loop(g) # Call
    BY ActorsAre
  <2>2. api'.late <=> api.late \/ (Loop(g) = Call /\ run[Loop(g)].fn = "post" /\ down # "up")
    BY <1>7, <2>1 DEF EndTask
  <2> QED
    BY <1>6, <1>7, <2>1, <2>2 DEF EndTask
<1>8. CASE EndCall
  <2>1. api'.late <=> api.late \/ (run[Call].fn = "post" /\ down # "up")
    BY <1>8 DEF EndCall, TypeOK
  <2> QED
    BY <1>6, <1>8, <2>1, ActorsAre DEF EndCall
<1>9. CASE FlushPool
  <2>1. /\ run'[Signal].fn = "postDeliveryPool" /\ run'[Signal].has = (tx = "new")
    BY <1>9, ActorsAre DEF FlushPool, Take, Selected, TypeOK
  <2>2. tx' = tx /\ api' = api /\ down' = "delivering"
    BY <1>9 DEF FlushPool
  <2>3. tx \in {"none", "new", "sent", "blocked"}
    BY DEF TypeOK
  <2> QED
    BY <2>1, <2>2, <2>3 DEF Flushing, Carried, FlushedAtExit
<1>10. CASE AppendBlocks
  <2>1. run[Signal].fn = "postDeliveryPool" /\ (Carried("new", run[Signal].has) \/ tx = "sent")
    BY <1>10 DEF AppendBlocks, Flushing
  <2>2. Busy(Signal) /\ Signal \in Actors
    BY <2>1, ActorsAre DEF Busy
  <2>3. api.late \/ Done(run[Signal]) \in {"none", "blocked", "sent"}
    BY <2>1, <2>2, DoneStep DEF Carried, Done
  <2>4. tx' = Done(run[Signal]) /\ api' = api /\ down' \in {"appending", "aborted"}
    BY <1>10 DEF AppendBlocks, Appended
  <2>5. ASSUME down' = "appending"
        PROVE  run'[Signal].fn = "postAppendBlocks" /\ run'[Signal].has = (tx' = "sent")
    BY <1>10, <2>2, <2>5 DEF AppendBlocks, Appended, TypeOK
  <2> QED
    BY <2>3, <2>4, <2>5 DEF Flushing, Carried, FlushedAtExit
<1>11. CASE Exit
  <2>1. run[Signal].fn = "postAppendBlocks" /\ Carried("sent", run[Signal].has)
    BY <1>11 DEF Exit, Flushing
  <2>2. api.late \/ Done(run[Signal]) \in {"none", "blocked"}
    BY <2>1 DEF Carried, Done
  <2> QED
    BY <1>11, <2>2 DEF Exit, Flushing, FlushedAtExit
<1>12. CASE Abort
  BY <1>12 DEF Abort, Flushing, FlushedAtExit
<1> QED
  BY <1>2, <1>3, <1>4, <1>5, <1>7, <1>8, <1>9, <1>10, <1>11, <1>12
     DEF Next, Watchdog, EventLoop, Shutdown, Quiet

-----------------------------------------------------------------------------
(* Types *)

ConfOK == conf \in [edited : SUBSET Mods, applied : SUBSET Mods,
                    cond : {"active", "loading", "pulldataNeeded", "reloadNeeded"}]
SpentOK == spent \in [edits : 0 .. MaxEdits, orders : 0 .. MaxOrders,
                      calls : 0 .. MaxCalls, faults : 0 .. MaxFaults]
ApiOK == api \in [state : {"open", "closing", "closed"}, watchdog : Counts,
                  signal : Counts, of : Gens, late : BOOLEAN]
WatchOK == due \subseteq Mods \ {"c"} /\ at \in 0 .. 11
RefsOK == /\ gen \in [Mods -> Gens]
          /\ DOMAIN ref = Refs /\ \A r \in Refs : ref[r] \in Gens
StageOK ==
  /\ tx \in {"none", "new", "sent", "blocked"}
  /\ down \in {"up", "api", "deliver", "delivering", "appending", "aborted",
               "exited", "halted"}
QueueOK == queue \in [Gens -> 0 .. 1]

LEMMA TypeParts ==
  RestOK => (TypeOK <=> /\ ConfOK /\ SpentOK /\ ApiOK /\ WatchOK /\ RefsOK /\ StageOK
                        /\ QueueOK /\ LocksOK)
<1> SUFFICES ASSUME RestOK
             PROVE  TypeOK <=> /\ ConfOK /\ SpentOK /\ ApiOK /\ WatchOK /\ RefsOK
                               /\ StageOK /\ QueueOK /\ LocksOK
  OBVIOUS
<1>1. \A g \in Gens : ToSet(rest[g]) \subseteq ToSet(Tasks)
  <2>1. ToSet(<<>>) = {} /\ ToSet(<<"postAppendBlocks">>) = {"postAppendBlocks"}
    BY DEF ToSet
  <2> QED
    BY <2>1, TasksAre DEF RestOK
<1>2. {0} \union DOMAIN Order \union {Len(Order) + 1} = 0 .. 11
  BY Modules
<1> QED
  BY <1>1, <1>2 DEF TypeOK, ConfOK, SpentOK, ApiOK, WatchOK, RefsOK, StageOK, QueueOK, LocksOK

LEMMA RestStep ==
  ASSUME IInv, [Next]_vars
  PROVE  RestOK'
<1> USE DEF IInv
<1>1. ASSUME NEW g \in Gens, BeginTask(g) \/ SkipTask(g)
      PROVE  RestOK'
  <2>1. Left(g) \in {Tasks, <<"postAppendBlocks">>}
    BY <1>1 DEF BeginTask, SkipTask, Left, RestOK
  <2>2. Tail(Left(g)) \in {<<>>, <<"postAppendBlocks">>}
    BY <2>1, TasksAre
  <2> QED
    BY <1>1, <2>2 DEF BeginTask, SkipTask, RestOK
<1>2. CASE rest' = rest
  BY <1>2 DEF RestOK
<1>3. CASE \/ \E m \in Editable : Edit(m)
           \/ Apply \/ Reset \/ JudgeNode \/ FailReload \/ FailActivate
           \/ \E m \in Mods : FailRestart(m)
           \/ BeginReload \/ EndReload \/ PullData \/ EndTick
           \/ \E m \in Mods : Restart(m) \/ RestartInVain(m)
           \/ RestartEvent
           \/ BeginDeactivate \/ Deactivate \/ CloseConnections \/ Activate
  BY <1>2, <1>3
     DEF Edit, Apply, Reset, JudgeNode, FailReload, FailActivate, FailRestart, BeginReload,
         EndReload, PullData, EndTick, Restart, RestartInVain, RestartEvent,
         BeginDeactivate, Deactivate, CloseConnections, Activate
<1>4. CASE \/ \E g \in Gens : EndTask(g) \/ ThrowTask(g)
           \/ \E f \in ToSet(Tasks) \union {"post"} : BeginCall(f)
           \/ EndCall \/ ThrowCall \/ BeginShutdown \/ Shutdown \/ Abort
           \/ UNCHANGED vars
  BY <1>2, <1>4
     DEF EndTask, ThrowTask, BeginCall, EndCall, ThrowCall, BeginShutdown, Shutdown,
         CloseApi, FlushPool, AppendBlocks, Exit, Abort, vars
<1> QED
  BY <1>1, <1>3, <1>4 DEF Next, Watchdog, EventLoop

LEMMA ApiTypes ==
  ASSUME IInv, [Next]_vars
  PROVE  ApiOK'
<1> USE DEF IInv
<1>1. ApiOK /\ gen["a"] \in Gens
  BY Modules DEF TypeOK, ApiOK
<1>2. CASE api' = api
  BY <1>1, <1>2 DEF ApiOK
<1>3. CASE FailActivate \/ BeginDeactivate \/ Deactivate \/ CloseConnections \/ Activate
           \/ BeginShutdown \/ CloseApi \/ EndCall
  <2>1. Counted \in Counts /\ NotWaiting \in Counts
    BY DEF Counted, Counts, NotWaiting
  <2>2. Close(api.state) \in {"open", "closing", "closed"}
    BY <1>1 DEF Close, ApiOK
  <2> QED
    BY <1>1, <1>3, <2>1, <2>2
       DEF FailActivate, BeginDeactivate, Deactivate, CloseConnections, Activate,
           BeginShutdown, CloseApi, EndCall, ApiOK
<1>4. CASE \/ \E m \in Editable : Edit(m)
           \/ Apply \/ Reset \/ JudgeNode \/ FailReload
           \/ \E m \in Mods : FailRestart(m)
           \/ BeginReload \/ EndReload \/ PullData \/ EndTick
           \/ \E m \in Mods : Restart(m) \/ RestartInVain(m)
           \/ RestartEvent
  BY <1>2, <1>4
     DEF Edit, Apply, Reset, JudgeNode, FailReload, FailRestart, BeginReload,
         EndReload, PullData, EndTick, Restart, RestartInVain, RestartEvent
<1>5. CASE \/ \E g \in Gens : EventLoop(g) \/ ThrowTask(g)
           \/ \E f \in ToSet(Tasks) \union {"post"} : BeginCall(f)
           \/ ThrowCall \/ FlushPool \/ AppendBlocks \/ Exit \/ Abort
           \/ UNCHANGED vars
  BY <1>2, <1>5
     DEF EventLoop, BeginTask, SkipTask, EndTask, ThrowTask, BeginCall, ThrowCall,
         FlushPool, AppendBlocks, Exit, Abort, vars
<1> QED
  BY <1>3, <1>4, <1>5 DEF Next, Watchdog, Shutdown

LEMMA StageTypes ==
  ASSUME IInv, [Next]_vars
  PROVE  StageOK'
<1> USE DEF IInv
<1>1. StageOK
  BY DEF TypeOK, StageOK
<1>2. CASE Quiet
  <2>1. tx' = tx
    BY <1>2, QuietStep
  <2>2. down' = down \/ down' \in {"halted", "api", "deliver"}
    BY <1>2 DEF Quiet, Edit, Apply, Reset, JudgeNode, FailReload, FailActivate,
         FailRestart, BeginReload, EndReload, PullData, EndTick, Restart, RestartInVain,
         RestartEvent, BeginDeactivate, Deactivate, CloseConnections, Activate, SkipTask,
         ThrowCall, BeginShutdown, CloseApi, vars
  <2> QED
    BY <1>1, <2>1, <2>2 DEF StageOK
<1>3. CASE \/ \E g \in Gens : BeginTask(g) \/ ThrowTask(g)
           \/ \E f \in ToSet(Tasks) \union {"post"} : BeginCall(f)
           \/ FlushPool \/ Abort
  BY <1>1, <1>3 DEF BeginTask, ThrowTask, BeginCall, FlushPool, Abort, StageOK
<1>4. ASSUME NEW p \in Actors, Busy(p), tx' = Done(run[p]),
             down' = down \/ down' \in {"appending", "aborted", "exited"}
      PROVE  StageOK'
  BY <1>1, <1>4, DoneStep DEF StageOK
<1>5. CASE (\E g \in Gens : EndTask(g)) \/ EndCall
  BY <1>4, <1>5, ActorsAre DEF EndTask, EndCall
<1>6. CASE AppendBlocks \/ Exit
  <2>1. Busy(Signal)
    BY <1>6 DEF AppendBlocks, Exit, Flushing, Busy
  <2>2. tx' = Done(run[Signal]) /\ down' \in {"appending", "aborted", "exited"}
    BY <1>6 DEF AppendBlocks, Exit, Appended
  <2> QED
    BY <1>4, <2>1, <2>2, ActorsAre
<1> QED
  BY <1>2, <1>3, <1>5, <1>6 DEF Next, Watchdog, EventLoop, Shutdown, Quiet

LEMMA QueueTypes ==
  ASSUME IInv, [Next]_vars
  PROVE  QueueOK'
<1> USE DEF IInv
<1>1. QueueOK
  BY DEF TypeOK, QueueOK
<1>2. CASE queue' = queue
  BY <1>1, <1>2 DEF QueueOK
<1>3. CASE RestartEvent \/ CloseApi
  BY <1>1, <1>3 DEF RestartEvent, CloseApi, Registered, Unregistered, QueueOK
<1>4. CASE \/ \E m \in Editable : Edit(m)
           \/ Apply \/ Reset \/ JudgeNode \/ FailReload \/ FailActivate
           \/ \E m \in Mods : FailRestart(m)
           \/ BeginReload \/ EndReload \/ PullData \/ EndTick
           \/ \E m \in Mods : Restart(m) \/ RestartInVain(m)
           \/ BeginDeactivate \/ Deactivate \/ CloseConnections \/ Activate
  BY <1>2, <1>4
     DEF Edit, Apply, Reset, JudgeNode, FailReload, FailActivate, FailRestart, BeginReload,
         EndReload, PullData, EndTick, Restart, RestartInVain,
         BeginDeactivate, Deactivate, CloseConnections, Activate
<1>5. CASE \/ \E g \in Gens : EventLoop(g) \/ ThrowTask(g)
           \/ \E f \in ToSet(Tasks) \union {"post"} : BeginCall(f)
           \/ EndCall \/ ThrowCall \/ BeginShutdown
           \/ FlushPool \/ AppendBlocks \/ Exit \/ Abort \/ UNCHANGED vars
  BY <1>2, <1>5
     DEF EventLoop, BeginTask, SkipTask, EndTask, ThrowTask, BeginCall, EndCall, ThrowCall,
         BeginShutdown, FlushPool, AppendBlocks, Exit, Abort, vars
<1> QED
  BY <1>3, <1>4, <1>5 DEF Next, Watchdog, Shutdown

\* The configuration, the watchdog, the instances and what is used up
LEMMA WatchTypes ==
  ASSUME IInv, [Next]_vars
  PROVE  ConfOK' /\ SpentOK' /\ WatchOK' /\ RefsOK'
<1> USE DEF IInv
<1>1. ConfOK /\ SpentOK /\ WatchOK /\ RefsOK /\ "c" \in Mods
  BY Modules DEF TypeOK, ConfOK, SpentOK, WatchOK, RefsOK
<1>2. GensCounted'
  BY CountStep
\* An instance that is counted has a number.
<1>3. ASSUME SpentOK', NEW m \in Mods, gen'[m] \in Nat
      PROVE  gen'[m] \in Gens
  <2>1. /\ spent'.edits \in 0 .. MaxEdits /\ spent'.orders \in 0 .. MaxOrders
        /\ MaxEdits \in Nat /\ MaxOrders \in Nat
    BY <1>3, ConstantsOK DEF SpentOK
  <2>2. gen'[m] <= spent'.edits + spent'.orders
    <3>1. CASE m = "c"
      BY <1>2, <1>3, <2>1, <3>1 DEF GensCounted, One
    <3>2. CASE m # "c"
      BY <1>2, <1>3, <2>1, <3>2 DEF GensCounted, One
    <3> QED
      BY <3>1, <3>2
  <2> QED
    BY <1>3, <2>1, <2>2 DEF Gens
<1>4. \A m \in Mods : gen[m] \in Nat
  BY <1>1, ConstantsOK DEF RefsOK, Gens
<1>5. CASE \/ \E g \in Gens : EventLoop(g) \/ ThrowTask(g)
           \/ \E f \in ToSet(Tasks) \union {"post"} : BeginCall(f)
           \/ EndCall \/ ThrowCall \/ BeginShutdown \/ Shutdown \/ Abort
           \/ BeginDeactivate \/ Deactivate \/ CloseConnections \/ UNCHANGED vars
  <2>1. UNCHANGED <<conf, due, gen, ref, at>> /\ SpentOK'
    BY <1>5, OtherSteps DEF SpentOK
  <2> QED
    BY <1>1, <2>1 DEF ConfOK, WatchOK, RefsOK
<1>6. CASE \/ \E m \in Mods : Restart(m) \/ RestartInVain(m) \/ FailRestart(m)
           \/ RestartEvent \/ Activate \/ FailActivate
  <2>1. PICK m \in Mods :
           /\ NextIs(m) /\ Visited(m) /\ conf' = conf
           /\ (m \in Renewed /\ Renew(m)) \/ UNCHANGED <<gen, ref>>
           /\ SpentOK'
    BY <1>6, VisitStep DEF SpentOK
  <2>2. WatchOK'
    <3>1. due' = due \ {m} /\ at' = Place[m] + 1 /\ Place[m] \in 1 .. 10
      BY <2>1, Modules DEF Visited
    <3> QED
      BY <1>1, <3>1 DEF WatchOK
  <2>3. CASE UNCHANGED <<gen, ref>>
    BY <1>1, <2>1, <2>2, <2>3 DEF ConfOK, RefsOK
  <2>4. CASE m \in Renewed /\ Renew(m)
    <3>1. /\ gen' = [x \in Mods |-> IF x = m THEN gen[m] + 1 ELSE gen[x]]
          /\ \A x \in Mods : gen[x] \in Nat /\ gen'[x] \in Nat
      BY <2>4, RenewStep
    <3>2. \A x \in Mods : gen'[x] \in Gens
      BY <1>3, <2>1, <3>1
    <3>3. gen' \in [Mods -> Gens] /\ gen[m] + 1 \in Gens
      BY <3>1, <3>2
    <3>4. \A r \in Refs : r[1] = m /\ r[2] \in Given[m] => gen[r[2]] \in Gens
      BY <1>1, <2>4, Users DEF RefsOK
    <3>5. DOMAIN ref' = Refs /\ \A r \in Refs : ref'[r] \in Gens
      BY <1>1, <2>4, <3>3, <3>4 DEF Renew, RefsOK
    <3> QED
      BY <1>1, <2>1, <2>2, <3>3, <3>5 DEF ConfOK, RefsOK
  <2> QED
    BY <2>1, <2>3, <2>4
<1>7. CASE EndReload
  <2>1. SpentOK' /\ ConfOK' /\ WatchOK'
    BY <1>1, <1>7 DEF EndReload, SpentOK, ConfOK, WatchOK
  <2>2. gen' = [x \in Mods |-> IF x = "c" THEN gen["c"] + 1 ELSE gen[x]]
    BY <1>1, <1>7 DEF EndReload, RefsOK
  <2>3. \A x \in Mods : gen'[x] \in Gens
    BY <1>1, <1>3, <1>4, <2>1, <2>2
  <2>4. gen' \in [Mods -> Gens] /\ gen["c"] + 1 \in Gens
    BY <1>1, <2>2, <2>3
  <2>5. DOMAIN ref' = Refs /\ \A r \in Refs : ref'[r] \in Gens
    BY <1>1, <1>7, <2>4 DEF EndReload, RefsOK
  <2> QED
    BY <2>1, <2>4, <2>5 DEF RefsOK
<1>8. CASE BeginReload \/ PullData \/ EndTick
  <2>1. UNCHANGED <<gen, ref, spent>> /\ at' \in 0 .. 11
    BY <1>8 DEF BeginReload, PullData, EndTick
  <2>2. ConfOK'
    BY <1>1, <1>8 DEF BeginReload, PullData, EndTick, ConfOK
  <2>3. conf.applied \subseteq Mods /\ conf.edited \subseteq Mods
    BY <1>1 DEF ConfOK
  <2>4. due' \subseteq Mods \ {"c"}
    BY <1>1, <1>8, <2>3 DEF BeginReload, PullData, EndTick, Changed, WatchOK
  <2> QED
    BY <1>1, <2>1, <2>2, <2>4 DEF SpentOK, WatchOK, RefsOK
<1>9. CASE FailReload
  <2>1. SpentOK'
    BY <1>1, <1>9, ConstantsOK DEF FailReload, MayFail, Fault, SpentOK
  <2> QED
    BY <1>1, <1>9, <2>1 DEF FailReload, ConfOK, WatchOK, RefsOK
<1>10. CASE (\E m \in Editable : Edit(m)) \/ Apply \/ Reset \/ JudgeNode
  <2>1. SpentOK'
    BY <1>1, <1>10, ConstantsOK DEF Edit, Apply, Reset, JudgeNode, SpentOK
  <2>2. ConfOK'
    <3>1. CASE \E m \in Editable : Edit(m)
      BY <1>1, <3>1, ConstantsOK DEF Edit, ConfOK
    <3>2. CASE Apply \/ Reset
      BY <1>1, <3>2 DEF Apply, Reset, ConfOK
    <3>3. CASE JudgeNode
      BY <1>1, <3>3 DEF JudgeNode, ConfOK
    <3> QED
      BY <1>10, <3>1, <3>2, <3>3
  <2> QED
    BY <1>1, <1>10, <2>1, <2>2 DEF Edit, Apply, Reset, JudgeNode, WatchOK, RefsOK
<1> QED
  BY <1>5, <1>6, <1>7, <1>8, <1>9, <1>10 DEF Next, Watchdog

-----------------------------------------------------------------------------
(* Theorems *)

LEMMA Inductive == Spec => []IInv
<1>1. ASSUME IInv, [Next]_vars
      PROVE  IInv'
  <2>1. RestOK' /\ LockInv' /\ LocksOK'
    BY <1>1, RestStep, LockStep
  <2>2. RestOK' => (TypeOK' <=> /\ ConfOK' /\ SpentOK' /\ ApiOK' /\ WatchOK' /\ RefsOK'
                                /\ StageOK' /\ QueueOK' /\ LocksOK')
    BY TypeParts, PTL
  <2>3. TypeOK'
    BY <1>1, <2>1, <2>2, ApiTypes, StageTypes, QueueTypes, WatchTypes
  <2> QED
    BY <1>1, <2>1, <2>3, CountStep, ApiStep, WiredStep, FlushStep DEF IInv, LockInv
<1> QED
  BY <1>1, InitIInv, PTL DEF Spec

\* The configuration, the references, the tasks and the locks are what the
\* declarations say; above all, no module is restarted more often than its
\* configuration is changed.
THEOREM TypeCorrect == Spec => []TypeOK
<1>1. IInv => TypeOK
  BY DEF IInv
<1> QED
  BY <1>1, Inductive, PTL

\* Whatever modules are restarted by systemLoop, and in whatever order, each module
\* refers to the current instances of the others and to the current configuration.
THEOREM StaysWired == Spec => []Wired
<1>1. IInv => Wired
  BY DEF IInv
<1> QED
  BY <1>1, Inductive, PTL

\* The serializationLocks keep the loops of the event module, the API and the shutdown
\* from running a function of the system module twice at once in an instance.
THEOREM RunsOneAtATime == Spec => []OneAtATime
<1>1. IInv => OneAtATime
  BY DEF IInv
<1> QED
  BY <1>1, Inductive, PTL

\* A process that has exited by a signal has put its transaction into a block, unless
\* the transaction came after the signal.
THEOREM ExitsFlushed == Spec => []FlushedAtExit
<1>1. IInv => FlushedAtExit
  BY DEF IInv
<1> QED
  BY <1>1, Inductive, PTL
=============================================================================
