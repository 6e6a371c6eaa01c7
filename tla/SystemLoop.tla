----------------------------- MODULE SystemLoop -----------------------------
(***************************************************************************)
(* One node from the end of its start to its exit: the watchdog systemLoop *)
(* of cc.ts and the restart functions of the modules, the editing of the   *)
(* configuration, the loops of the event module with the tasks of the      *)
(* system module, the closing of the API, and the shutdown.                *)
(*                                                                         *)
(* A module is an object "core.x" that holds references to other modules   *)
(* and to its part of the configuration.  A restart makes a new one, and   *)
(* systemLoop replaces the references to it.  gen counts the instances.    *)
(*                                                                         *)
(* The node is not in a testing mode, and enable_internaltasks is set.  Of *)
(* the two listeners of the API one is modelled, and of the posted         *)
(* transactions one.  Times are left out: a task may be due or not.        *)
(***************************************************************************)
EXTENDS Naturals, FiniteSets, Sequences, SequencesExt

CONSTANTS
  Editable,  \* the modules whose configuration is edited
  MaxEdits,  \* bound: edits of the configuration and nodes judged abnormal
  MaxOrders, \* bound: edits applied, and resets of the configuration
  MaxCalls,  \* bound: calls of the API that start or await something
  MaxFaults  \* bound: restarts and functions that fail

\* The modules by the letters of the code, in the order of the watchdog
Order == <<"c", "a", "b", "d", "e", "i", "k", "l", "m", "s">>
Mods == ToSet(Order)
Place == [m \in Mods |-> CHOOSE p \in DOMAIN Order : Order[p] = m]

ASSUME ConstantsOK ==
  /\ Editable \subseteq Mods \ {"c"}
  /\ MaxEdits \in Nat /\ MaxOrders \in Nat /\ MaxCalls \in Nat /\ MaxFaults \in Nat

VARIABLES
  conf,   \* the cache of the config module, and its condition
  due,    \* the modules whose condition is reloadNeeded
  gen,    \* gen[m]: the number of the instance that is core.m
  ref,    \* ref[<<x, y>>]: the number of the instance of y that core.x holds
  at,     \* the place in Order where the watchdog is
  queue,  \* queue[g]: the sets of tasks in the queue of the event instance g
  rest,   \* rest[g]: what is left of the array the loop of instance g runs over
  locks,  \* locks[g]: the serializationLocks taken in the system instance g
  run,    \* run[p]: the function that p awaits
  tx,     \* where the transaction is
  api,    \* the listener of the API, and who waits for its calls
  down,   \* the stage of the shutdown
  spent   \* edits, orders, calls and faults so far

vars == <<conf, due, gen, ref, at, queue, rest, locks, run, tx, api, down, spent>>

\* Whom a module refers to ("conf": its part of the configuration; "r" is the
\* receiver of the internode module)
Knows ==
  [a |-> {"l", "m", "s", "c", "k", "conf"}, b |-> {"l", "i", "k", "m", "s", "conf"},
   d |-> {"l", "conf"}, e |-> {"l", "conf"}, i |-> {"l", "s", "b", "k", "c", "conf"},
   k |-> {"l", "i", "m", "s", "conf"}, l |-> {"conf"}, m |-> {"l", "d", "s", "conf"},
   s |-> {"l", "d", "i", "b", "m", "e", "conf"}, r |-> {"s", "b"}]
Refs == UNION {{<<x, y>> : y \in Knows[x]} : x \in DOMAIN Knows}

Tasks == <<"postDeliveryPool", "postAppendBlocks">>
Gens == 0 .. MaxEdits + MaxOrders
Loop(g) == <<"loop", g>>
Call == <<"call", 0>>
Signal == <<"signal", 0>>
Actors == {Call, Signal} \union {Loop(g) : g \in Gens}

\* "in": the system instance whose lock is held; "has": the transaction is in the
\* snapshot of the pool
Idle == [fn |-> "none", in |-> 0, has |-> FALSE]
Runs == [fn : ToSet(Tasks) \union {"none", "post"}, in : Gens, has : BOOLEAN]
Busy(p) == run[p].fn # "none"

\* "watchdog" and "signal" are the numbers of calls each of them waits for, "of" is
\* the API instance the shutdown closes; "late": the transaction was posted after
\* the shutdown had begun.
NotWaiting == 2
Counts == {0, 1, NotWaiting}

TypeOK ==
  /\ conf \in [edited : SUBSET Mods, applied : SUBSET Mods,
               cond : {"active", "loading", "pulldataNeeded", "reloadNeeded"}]
  /\ due \subseteq Mods \ {"c"}
  /\ gen \in [Mods -> Gens]
  /\ DOMAIN ref = Refs /\ \A r \in Refs : ref[r] \in Gens
  /\ at \in {0} \union DOMAIN Order \union {Len(Order) + 1}
  /\ queue \in [Gens -> 0 .. 1]
  /\ \A g \in Gens : ToSet(rest[g]) \subseteq ToSet(Tasks)
  /\ locks \in [Gens -> SUBSET ToSet(Tasks)]
  /\ run \in [Actors -> Runs]
  /\ tx \in {"none", "new", "sent", "blocked"}
  /\ api \in [state : {"open", "closing", "closed"}, watchdog : Counts,
              signal : Counts, of : Gens, late : BOOLEAN]
  /\ down \in {"up", "api", "deliver", "delivering", "appending", "aborted",
               "exited", "halted"}
  /\ spent \in [edits : 0 .. MaxEdits, orders : 0 .. MaxOrders,
                calls : 0 .. MaxCalls, faults : 0 .. MaxFaults]

Init ==
  /\ conf = [edited |-> {}, applied |-> {}, cond |-> "active"]
  /\ due = {}
  /\ gen = [m \in Mods |-> 0]
  /\ ref = [r \in Refs |-> 0]
  /\ at = 1
  /\ queue = [g \in Gens |-> IF g = 0 THEN 1 ELSE 0]
  /\ rest = [g \in Gens |-> <<>>]
  /\ locks = [g \in Gens |-> {}]
  /\ run = [p \in Actors |-> Idle]
  /\ tx = "none"
  /\ api = [state |-> "open", watchdog |-> NotWaiting, signal |-> NotWaiting,
             of |-> 0, late |-> FALSE]
  /\ down = "up"
  /\ spent = [edits |-> 0, orders |-> 0, calls |-> 0, faults |-> 0]

Running == down \notin {"exited", "halted"}
MayFail == spent.faults < MaxFaults
Fault == spent' = [spent EXCEPT !.faults = @ + 1]

(***************************************************************************)
(* The configuration                                                       *)
(***************************************************************************)
\* /sys/editconf: setConfiguration.  The value changes at once, in the objects that
\* all modules share.
Edit(m) ==
  /\ Running /\ api.state = "open"
  /\ spent.edits < MaxEdits
  /\ conf' = [conf EXCEPT !.edited = @ \union {m}]
  /\ spent' = [spent EXCEPT !.edits = @ + 1]
  /\ UNCHANGED <<due, gen, ref, at, queue, rest, locks, run, tx, api, down>>

\* /sys/applyconf: applyConfiguration
Apply ==
  /\ Running /\ api.state = "open"
  /\ spent.orders < MaxOrders
  /\ conf.edited # {}
  /\ spent' = [spent EXCEPT !.orders = @ + 1]
  /\ conf' = [conf EXCEPT !.applied = @ \union conf.edited, !.cond = "pulldataNeeded"]
  /\ UNCHANGED <<due, gen, ref, at, queue, rest, locks, run, tx, api, down>>

\* /sys/resetconf: reloadConfiguration
Reset ==
  /\ Running /\ api.state = "open"
  /\ spent.orders < MaxOrders
  /\ conf.applied # {}
  /\ conf' = [conf EXCEPT !.cond = "reloadNeeded"]
  /\ spent' = [spent EXCEPT !.orders = @ + 1]
  /\ UNCHANGED <<due, gen, ref, at, queue, rest, locks, run, tx, api, down>>

\* disableAbnormalNodes: setNodeConfiguration on the config instance the internode
\* module holds.  If nobody is editing it is applied.  After one reload the two
\* instances share the cache, and the condition set is not the one looked at.
JudgeNode ==
  LET alone == conf.edited = {}
      seen  == ref[<<"i", "c">>] = gen["c"]
  IN  /\ Running
      /\ spent.edits < MaxEdits
      /\ ref[<<"i", "c">>] + 1 >= gen["c"]
      /\ conf' = [edited  |-> conf.edited \union {"c"},
                  applied |-> IF alone THEN conf.applied \union {"c"} ELSE conf.applied,
                  cond    |-> IF alone /\ seen THEN "pulldataNeeded" ELSE conf.cond]
      /\ spent' = [spent EXCEPT !.edits = @ + 1]
      /\ UNCHANGED <<due, gen, ref, at, queue, rest, locks, run, tx, api, down>>

(***************************************************************************)
(* The watchdog                                                            *)
(***************************************************************************)
\* The next module the watchdog comes to whose condition is reloadNeeded
NextIs(m) ==
  /\ at > 1
  /\ m \in due /\ Place[m] >= at
  /\ \A x \in due : Place[x] >= at => Place[m] <= Place[x]

\* A tick begins with the config module.  applied has the modules to restart.
BeginReload ==
  /\ Running /\ at = 1
  /\ conf.cond = "reloadNeeded"
  /\ due' = due \union (conf.applied \ {"c"})
  /\ at' = 0
  /\ UNCHANGED <<conf, gen, ref, queue, rest, locks, run, tx, api, down, spent>>

\* The files are read: what has been edited meanwhile is gone.  Everybody gets the
\* new configuration, and the API module the new instance.
Reconfigured == {<<x, "conf">> : x \in Mods \ {"c"}} \union {<<"a", "c">>}
EndReload ==
  /\ Running /\ at = 0
  /\ conf' = [edited |-> {}, applied |-> {}, cond |-> "active"]
  /\ gen' = [gen EXCEPT !["c"] = @ + 1]
  /\ ref' = [r \in Refs |-> IF r \in Reconfigured THEN gen["c"] + 1 ELSE ref[r]]
  /\ at' = 2
  /\ UNCHANGED <<due, queue, rest, locks, run, tx, api, down, spent>>

FailReload ==
  /\ Running /\ at = 0
  /\ MayFail /\ Fault
  /\ conf' = [conf EXCEPT !.cond = "loading"]
  /\ at' = 2
  /\ UNCHANGED <<due, gen, ref, queue, rest, locks, run, tx, api, down>>

\* Mutant: the changes are forgotten before they are looked at.
Unread == {}
Changed == conf.edited \ {"c"}

\* recentChanges becomes [""]: no module, but not empty either; so does "c" here.
PullData ==
  /\ Running /\ at = 1
  /\ conf.cond = "pulldataNeeded"
  /\ due' = due \union Changed
  /\ conf' = [conf EXCEPT !.edited = {"c"}, !.cond = "active"]
  /\ at' = 2
  /\ UNCHANGED <<gen, ref, queue, rest, locks, run, tx, api, down, spent>>

EndTick ==
  /\ Running /\ at > 1 /\ api.watchdog = NotWaiting
  /\ \A x \in due : Place[x] < at
  /\ at' = 1
  /\ UNCHANGED <<conf, due, gen, ref, queue, rest, locks, run, tx, api, down, spent>>

\* What restart gives the new instance of m, and who is given the new instance.
\* The keyring module returns its old one.
Given == [a |-> {"l", "m", "s", "c", "k"}, b |-> {"l", "i", "k", "m", "s"}, d |-> {"l"},
          e |-> {"l"}, l |-> {}, m |-> {"l", "d", "s"}, s |-> {"l", "d", "i", "b", "m", "e"}]
\* Mutant: the keyring module is left out when the system module has been restarted.
ReconnectedButK(m) ==
  [a |-> {}, b |-> {"s", "i"}, d |-> {"s", "m"}, e |-> {"s"},
   l |-> {"a", "b", "d", "e", "i", "k", "m", "s"},
   m |-> {"s", "a", "b", "k"}, s |-> {"m", "a", "i", "b"}][m]
Reconnected(m) ==
  [a |-> {}, b |-> {"s", "i"}, d |-> {"s", "m"}, e |-> {"s"},
   l |-> {"a", "b", "d", "e", "i", "k", "m", "s"},
   m |-> {"s", "a", "b", "k"}, s |-> {"m", "a", "i", "b", "k"}][m]

Renew(m) ==
  /\ gen' = [gen EXCEPT ![m] = @ + 1]
  /\ ref' = [r \in Refs |->
       IF r[1] = m /\ r[2] \in Given[m] THEN gen[r[2]]
       ELSE IF r[2] = m /\ r[1] \in Reconnected(m) THEN gen[m] + 1
       ELSE ref[r]]

Visited(m) ==
  /\ due' = due \ {m}
  /\ at' = Place[m] + 1

Restart(m) ==
  /\ m \in {"b", "d", "l", "m", "s"}
  /\ Running /\ NextIs(m)
  /\ Renew(m) /\ Visited(m)
  /\ UNCHANGED <<conf, queue, rest, locks, run, tx, api, down, spent>>

\* Mutant: the tasks are registered again without being unregistered.
RegisteredTwice == [queue EXCEPT ![ref[<<"s", "e">>]] = @ + 1]
Registered == [queue EXCEPT ![ref[<<"s", "e">>]] = 1]

\* The event module: the tasks of its queue are unregistered, and registered again
\* by the system module with the event instance it still holds, the old one, whose
\* loop goes on.  The new instance has an empty queue and a loop of its own.
RestartEvent ==
  /\ Running /\ NextIs("e")
  /\ queue' = Registered
  /\ Renew("e") /\ Visited("e")
  /\ UNCHANGED <<conf, rest, locks, run, tx, api, down, spent>>

\* The keyring module reads its keys and goes on as the instance it was.  The
\* internode module does not stop the server that listens, and cannot bind the port
\* a second time.
RestartInVain(m) ==
  /\ m \in {"i", "k"}
  /\ Running /\ NextIs(m)
  /\ Visited(m)
  /\ UNCHANGED <<conf, gen, ref, queue, rest, locks, run, tx, api, down, spent>>

\* A restart that fails leaves the old instance, in a condition nobody looks at.
FailRestart(m) ==
  /\ m \in {"b", "d", "k"}
  /\ Running /\ NextIs(m)
  /\ MayFail /\ Fault
  /\ Visited(m)
  /\ UNCHANGED <<conf, gen, ref, queue, rest, locks, run, tx, api, down>>

(***************************************************************************)
(* Functions of the system module                                          *)
(***************************************************************************)
\* The transactions a function takes from the pool
Selected(f) == IF f = "postDeliveryPool" THEN tx = "new" ELSE tx = "sent"

\* Mutant: the lock is not looked at.
EvenIfLocked(f) == TRUE
Free(f) == f \notin locks[gen["s"]]

\* The current system instance runs f for p, if its lock is free; otherwise f returns
\* an error at once.
Take(p, f) ==
  LET g == gen["s"]
  IN  IF Free(f)
      THEN /\ locks' = [locks EXCEPT ![g] = @ \union {f}]
           /\ run' = [run EXCEPT ![p] = [fn |-> f, in |-> g, has |-> Selected(f)]]
      ELSE UNCHANGED <<locks, run>>

Release(p) == locks' = [locks EXCEPT ![run[p].in] = @ \ {run[p].fn}]

\* What success does to the transaction
Done(r) ==
  CASE r.fn = "post" -> IF tx = "none" THEN "new" ELSE tx
    [] r.fn = "postDeliveryPool" -> IF r.has /\ tx = "new" THEN "sent" ELSE tx
    [] r.fn = "postAppendBlocks" -> IF r.has THEN "blocked" ELSE tx

(***************************************************************************)
(* The loops of the event module                                           *)
(***************************************************************************)
\* What is left of the array at this tick; a new tick takes the queue.
Left(g) == IF rest[g] = <<>> /\ queue[g] = 1 THEN Tasks ELSE rest[g]

\* A task that is due is run; one that is not is skipped.
BeginTask(g) ==
  /\ Running
  /\ Left(g) # <<>> /\ ~Busy(Loop(g))
  /\ rest' = [rest EXCEPT ![g] = Tail(Left(g))]
  /\ Take(Loop(g), Head(Left(g)))
  /\ UNCHANGED <<conf, due, gen, ref, at, queue, tx, api, down, spent>>

SkipTask(g) ==
  /\ Running
  /\ Left(g) # <<>> /\ ~Busy(Loop(g))
  /\ rest' = [rest EXCEPT ![g] = Tail(Left(g))]
  /\ UNCHANGED <<conf, due, gen, ref, at, queue, locks, run, tx, api, down, spent>>

EndTask(g) ==
  /\ Running /\ Busy(Loop(g))
  /\ Release(Loop(g))
  /\ tx' = Done(run[Loop(g)])
  /\ run' = [run EXCEPT ![Loop(g)] = Idle]
  /\ UNCHANGED <<conf, due, gen, ref, at, queue, rest, api, down, spent>>

\* An exception is caught by the loop; the lock stays taken.
ThrowTask(g) ==
  /\ Running /\ Busy(Loop(g))
  /\ MayFail /\ Fault
  /\ run' = [run EXCEPT ![Loop(g)] = Idle]
  /\ UNCHANGED <<conf, due, gen, ref, at, queue, rest, locks, tx, api, down>>

(***************************************************************************)
(* The API                                                                 *)
(***************************************************************************)
\* A call that posts the transaction, or runs a function of the system module.
\* Routes registered by a shutdown come after those already there and have no effect:
\* calls are accepted until the server is closed.
BeginCall(f) ==
  /\ Running /\ api.state = "open"
  /\ ~Busy(Call)
  /\ spent.calls < MaxCalls
  /\ spent' = [spent EXCEPT !.calls = @ + 1]
  /\ \/ /\ f = "post" /\ tx = "none"
        /\ run' = [run EXCEPT ![Call] = [Idle EXCEPT !.fn = "post"]]
        /\ UNCHANGED locks
     \/ f \in ToSet(Tasks) /\ Free(f) /\ Take(Call, f)
  /\ UNCHANGED <<conf, due, gen, ref, at, queue, rest, tx, api, down>>

EndCall ==
  /\ Running /\ Busy(Call)
  /\ Release(Call)
  /\ tx' = Done(run[Call])
  /\ api' = [api EXCEPT !.late = @ \/ (run[Call].fn = "post" /\ down # "up")]
  /\ run' = [run EXCEPT ![Call] = Idle]
  /\ UNCHANGED <<conf, due, gen, ref, at, queue, rest, down, spent>>

\* An exception in a call is nobody's: the process ends.
ThrowCall ==
  /\ Running /\ Busy(Call)
  /\ MayFail /\ Fault
  /\ down' = "halted"
  /\ UNCHANGED <<conf, due, gen, ref, at, queue, rest, locks, run, tx, api>>

\* The number of calls under way as the closing of the API sees it: as the value
\* given to setInterval it is read once, and never again.
Counted == IF Busy(Call) THEN 1 ELSE 0

\* restart of the API module: deactivateApi counts, closes, and waits for the end of
\* the calls that have begun meanwhile; then the new instance listens.
BeginDeactivate ==
  /\ Running /\ NextIs("a")
  /\ api.watchdog = NotWaiting
  /\ api' = [api EXCEPT !.watchdog = Counted]
  /\ UNCHANGED <<conf, due, gen, ref, at, queue, rest, locks, run, tx, down, spent>>

Close(state) == IF state = "open" THEN "closing" ELSE state

Deactivate ==
  /\ Running /\ api.watchdog = 0
  /\ api.state = "open"
  /\ api' = [api EXCEPT !.state = Close(@)]
  /\ UNCHANGED <<conf, due, gen, ref, at, queue, rest, locks, run, tx, down, spent>>

CloseConnections ==
  /\ Running /\ api.state = "closing" /\ ~Busy(Call)
  /\ api' = [api EXCEPT !.state = "closed"]
  /\ UNCHANGED <<conf, due, gen, ref, at, queue, rest, locks, run, tx, down, spent>>

Activate ==
  /\ Running /\ api.watchdog = 0 /\ api.state = "closed"
  /\ api' = [api EXCEPT !.state = "open", !.watchdog = NotWaiting]
  /\ Renew("a") /\ Visited("a")
  /\ UNCHANGED <<conf, queue, rest, locks, run, tx, down, spent>>

FailActivate ==
  /\ Running /\ api.watchdog = 0 /\ api.state = "closed"
  /\ MayFail /\ Fault
  /\ api' = [api EXCEPT !.watchdog = NotWaiting]
  /\ Visited("a")
  /\ UNCHANGED <<conf, gen, ref, queue, rest, locks, run, tx, down>>

(***************************************************************************)
(* The shutdown                                                            *)
(***************************************************************************)
\* A signal; another one starts again what has been aborted.
BeginShutdown ==
  /\ down \in {"up", "aborted"}
  /\ down' = "api"
  /\ api' = [api EXCEPT !.signal = Counted, !.of = gen["a"]]
  /\ UNCHANGED <<conf, due, gen, ref, at, queue, rest, locks, run, tx, spent>>

\* Mutant: the tasks stay in the queue.
StillQueued == queue
Unregistered == [queue EXCEPT ![ref[<<"s", "e">>]] = 0]

\* The API is closed, if its instance is still the one that listens, without waiting
\* for connections; and unregisterAutoTasks
CloseApi ==
  /\ down = "api" /\ api.signal = 0
  /\ api' = [api EXCEPT !.signal = NotWaiting,
                        !.state = IF api.of = gen["a"] THEN Close(@) ELSE @]
  /\ queue' = Unregistered
  /\ down' = "deliver"
  /\ UNCHANGED <<conf, due, gen, ref, at, rest, locks, run, tx, spent>>

\* postDeliveryPool, which waits for its lock
FlushPool ==
  /\ down = "deliver"
  /\ Free("postDeliveryPool")
  /\ Take(Signal, "postDeliveryPool")
  /\ down' = "delivering"
  /\ UNCHANGED <<conf, due, gen, ref, at, queue, rest, tx, api, spent>>

\* Mutant: the shutdown goes on when the blocks could not be appended.
AppendedAnyway(free) == IF free THEN "appending" ELSE "exited"

\* postAppendBlocks, which does not; the shutdown is aborted then.
Appended(free) == IF free THEN "appending" ELSE "aborted"

AppendBlocks ==
  LET g == gen["s"]
      r == run[Signal]
      t == Done(r)
      unlocked == [locks EXCEPT ![r.in] = @ \ {r.fn}]
      free == "postAppendBlocks" \notin unlocked[g]
  IN  /\ down = "delivering"
      /\ tx' = t
      /\ down' = Appended(free)
      /\ IF free
         THEN /\ locks' = [unlocked EXCEPT ![g] = @ \union {"postAppendBlocks"}]
              /\ run' = [run EXCEPT ![Signal] =
                   [fn |-> "postAppendBlocks", in |-> g, has |-> t = "sent"]]
         ELSE /\ locks' = unlocked
              /\ run' = [run EXCEPT ![Signal] = Idle]
      /\ UNCHANGED <<conf, due, gen, ref, at, queue, rest, api, spent>>

Exit ==
  /\ down = "appending"
  /\ Release(Signal)
  /\ tx' = Done(run[Signal])
  /\ run' = [run EXCEPT ![Signal] = Idle]
  /\ down' = "exited"
  /\ UNCHANGED <<conf, due, gen, ref, at, queue, rest, api, spent>>

\* A function returns a failure
Abort ==
  /\ down \in {"delivering", "appending"}
  /\ MayFail /\ Fault
  /\ Release(Signal)
  /\ run' = [run EXCEPT ![Signal] = Idle]
  /\ down' = "aborted"
  /\ UNCHANGED <<conf, due, gen, ref, at, queue, rest, tx, api>>

(***************************************************************************)
(* The specification                                                       *)
(***************************************************************************)
Watchdog ==
  \/ BeginReload \/ EndReload \/ PullData \/ EndTick
  \/ \E m \in Mods : Restart(m) \/ RestartInVain(m)
  \/ RestartEvent
  \/ BeginDeactivate \/ Deactivate \/ CloseConnections \/ Activate

EventLoop(g) == BeginTask(g) \/ SkipTask(g) \/ EndTask(g)

Shutdown == CloseApi \/ FlushPool \/ AppendBlocks \/ Exit

Next ==
  \/ \E m \in Editable : Edit(m)
  \/ Apply \/ Reset \/ JudgeNode
  \/ Watchdog \/ FailReload \/ FailActivate
  \/ \E m \in Mods : FailRestart(m)
  \/ \E g \in Gens : EventLoop(g) \/ ThrowTask(g)
  \/ \E f \in ToSet(Tasks) \union {"post"} : BeginCall(f)
  \/ EndCall \/ ThrowCall
  \/ BeginShutdown \/ Shutdown \/ Abort

Spec == Init /\ [][Next]_vars

\* Timers fire, and what is awaited ends.  A function of the system module waits for
\* answers of other nodes, each of which comes or fails.
FairSpec ==
  /\ Spec
  /\ WF_vars(Watchdog) /\ WF_vars(EndCall) /\ WF_vars(Shutdown)
  /\ WF_vars(\E g \in Gens : EventLoop(g))

(***************************************************************************)
(* Properties                                                              *)
(***************************************************************************)
\* Whatever modules are restarted, in any order, with any failures, every module
\* refers to the current instance of every other, and to the current configuration.
\* Two are forgotten: the config instance of the internode module, and what the
\* receiver was made with.
Forgotten == {<<"i", "c">>, <<"r", "s">>, <<"r", "b">>}
Latest(y) == IF y = "conf" THEN gen["c"] ELSE gen[y]
Wired == \A r \in Refs \ Forgotten : ref[r] = Latest(r[2])

\* The loops of the event module, the API and the shutdown never run a function of
\* the system module twice at once, but for one begun before a restart of the system
\* module, whose locks are gone.
OneAtATime ==
  \A p, q \in Actors :
    p # q /\ Busy(p) /\ run[p].fn = run[q].fn => run[p].in # run[q].in

\* When the process exits the transaction is in a block, unless it was posted after
\* the shutdown had begun, or a function had failed to be run to its end: whoever
\* has delivered it, and whatever runs beside the shutdown.
FlushedAtExit ==
  down = "exited" => tx \in {"none", "blocked"} \/ api.late

\* In the end every module with an applied edit has been restarted, and the watchdog
\* rests.  The exceptions are a failing restart, and an API call under way when the
\* API is restarted: the watchdog then waits for ever.
Hung == api.watchdog = 1
Settled ==
  /\ due = {} /\ conf.cond = "active"
  /\ \A m \in conf.applied \ {"c", "i", "k"} : gen[m] > 0
EditsTakeEffect == <>[](Settled \/ ~Running \/ Hung \/ spent.faults > 0)

\* A shutdown that finds no call under way ends: the tasks that hold the locks end
\* and no new ones are begun.  (They are, if the event module has been restarted:
\* the shutdown empties the queue of the new instance, the tasks are in the old one.)
ShutdownEnds ==
  down = "api" /\ api.signal = 0
    ~> down \in {"exited", "aborted", "halted"} \/ gen["e"] > 0 \/ spent.faults > 0
=============================================================================
