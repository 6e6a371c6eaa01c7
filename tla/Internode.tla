------------------------------ MODULE Internode ------------------------------
(***************************************************************************)
(* The RPCs of one node to the others: runRpcs, getConnection,             *)
(* waitForRPCisOK and disableAbnormalNodes of internode/core.ts, and what  *)
(* generalReceiver of internode/receiver.ts does with a packet at either   *)
(* end.  Several runs share the calls (generalConnections), the boxes of   *)
(* the answers (generalResults) and the list of nodes.                     *)
(*                                                                         *)
(* A run sends a packet to each node, looks every 500 ms whether all boxes *)
(* hold a result, and calls itself for the nodes that failed, with a reset *)
(* of the connection.  The runs that wait for each other that way are its  *)
(* tries: try k+1 is the inner call of try k.                              *)
(*                                                                         *)
(* The gRPC library is external.  A connection may break, which ends its   *)
(* calls with an error event; a write on a call that has ended goes        *)
(* nowhere, and the library may or may not confirm it or raise the error   *)
(* again; the confirmation of a write and the answer come in any order.    *)
(* What an RPC does at the other end is the matter of the other modules.   *)
(***************************************************************************)
EXTENDS Naturals, FiniteSets

CONSTANTS
  Peers,       \* the other nodes in the configuration of this node
  Runs,        \* the runs of runRpcs that other functions may start (a bound)
  Waiters,     \* those among them that waitForRPCisOK may start
  Limit,       \* abnormalCountForJudging
  CallRetry,   \* maxRetryCount of most callers (30)
  WaitRetry,   \* waitSec, which is maxRetryCount in waitForRPCisOK (100)
  Excluders,   \* the nodes that may come to exclude this one
  MaxFaults    \* bound: how often a connection breaks or a node goes down

\* no -> call -> channel: a run at level "no" makes at most three tries.
Tries == 0 .. 2

ASSUME ConstantsOK ==
  /\ Waiters \subseteq Runs
  /\ Limit \in Nat
  /\ CallRetry \in Nat \ {0}
  /\ WaitRetry \in Tries
  /\ Excluders \subseteq Peers
  /\ MaxFaults \in Nat

VARIABLES
  node,    \* node[p]: p's entry in the list of nodes (nodeProperty)
  admits,  \* admits[p]: p's own list allows this node
  up,      \* up[p]: the server of p runs
  calls,   \* calls[p]: number of calls opened to p; the last one is in use
  ended,   \* ended[p]: those that have ended with an error
  run,     \* run[r]: the innermost try of r
  box,     \* box[x]: the box of packet x in generalResults
  wire,    \* wire[x]: where packet x or its answer is
  on,      \* on[x]: the call on which x was sent
  served,  \* served[r][p]: how often p has executed the request of r
  faults   \* faults so far

vars == <<node, admits, up, calls, ended, run, box, wire, on, served, faults>>

Packets == Runs \X Peers \X Tries

Levels == {"no", "call", "channel", "check", "never"}

\* "done": runRpcs has returned results; "error": it has returned an error;
\* "threw": it has ended with an exception.
Run == [stage : {"idle", "send", "wait", "done", "error", "threw"},
        waiter : BOOLEAN, level : Levels, retries : Nat, try : Tries,
        left : SUBSET Peers, sent : SUBSET Peers]
NoRun == [stage |-> "idle", waiter |-> FALSE, level |-> "no", retries |-> 0,
          try |-> 0, left |-> {}, sent |-> {}]

\* An answer is "yes" or "no" by its payload, RESULT_SUCCESS or RESULT_FAILURE.
Boxes == {"unmade", "yet", "failure", "yes", "no", "deleted"}

\* "lost": neither the request nor an answer is under way any more, because the
\* call has ended; "dropped": because a node has passed over the packet.
Wires == {"none", "going", "yes", "no", "read", "lost", "dropped"}

TypeOK ==
  /\ node \in [Peers -> [allow : BOOLEAN, count : Nat]]
  /\ admits \in [Peers -> BOOLEAN]
  /\ up \in [Peers -> BOOLEAN]
  /\ calls \in [Peers -> Nat]
  /\ ended \in [Peers -> SUBSET Nat]
  /\ run \in [Runs -> Run]
  /\ box \in [Packets -> Boxes]
  /\ wire \in [Packets -> Wires]
  /\ on \in [Packets -> Nat]
  /\ served \in [Runs -> [Peers -> Nat]]
  /\ faults \in 0 .. MaxFaults

Allowed == {p \in Peers : node[p].allow}

\* The packets of try k of run r
Frame(r, k) == {<<r, p, k>> : p \in {q \in Peers : wire[<<r, q, k>>] # "none"}}

Ended(r) == run[r].stage \in {"done", "error", "threw"}

Init ==
  /\ node = [p \in Peers |-> [allow |-> TRUE, count |-> 0]]
  /\ admits = [p \in Peers |-> TRUE]
  /\ up \in [Peers -> BOOLEAN]
  /\ calls = [p \in Peers |-> 0]
  /\ ended = [p \in Peers |-> {}]
  /\ run = [r \in Runs |-> NoRun]
  /\ box = [x \in Packets |-> "unmade"]
  /\ wire = [x \in Packets |-> "none"]
  /\ on = [x \in Packets |-> 0]
  /\ served = [r \in Runs |-> [p \in Peers |-> 0]]
  /\ faults = 0

(***************************************************************************)
(* runRpcs                                                                 *)
(***************************************************************************)
\* A try begins with the targets that are allowed; without any it is an error.
Try(r, waiter, level, retries, k, targets) ==
  [stage |-> IF targets \cap Allowed = {} THEN "error" ELSE "send",
   waiter |-> waiter, level |-> level, retries |-> retries, try |-> k,
   left |-> targets \cap Allowed, sent |-> {}]

\* A caller asks all nodes, at level "no".
Start(r) ==
  /\ run[r].stage = "idle"
  /\ run' = [run EXCEPT ![r] = Try(r, FALSE, "no", CallRetry, 0, Peers)]
  /\ UNCHANGED <<node, admits, up, calls, ended, box, wire, on, served, faults>>

\* waitForRPCisOK pings all nodes, at level "check".  Its loop ends with the
\* first run, which has results of all nodes or none.
StartWait(r) ==
  /\ r \in Waiters
  /\ run[r].stage = "idle"
  /\ run' = [run EXCEPT ![r] = Try(r, TRUE, "check", WaitRetry, 0, Peers)]
  /\ UNCHANGED <<node, admits, up, calls, ended, box, wire, on, served, faults>>

\* getConnection keeps the call in use at level "no", even one that has ended,
\* and opens a new one otherwise.
NewCall(p, level) == level # "no" \/ calls[p] = 0

Connectable(p) == node[p].allow

\* getConnection, makeOnePacket and sendOnePacket for one target
Send(r, p) ==
  /\ run[r].stage = "send"
  /\ p \in run[r].left
  /\ Connectable(p)
  /\ LET x == <<r, p, run[r].try>>
         c == IF NewCall(p, run[r].level) THEN calls[p] + 1 ELSE calls[p]
     IN  /\ calls' = [calls EXCEPT ![p] = c]
         /\ on' = [on EXCEPT ![x] = c]
         /\ wire' = [wire EXCEPT ![x] =
                       IF c \in ended[p] THEN "lost" ELSE "going"]
  /\ run' = [run EXCEPT ![r].left = @ \ {p}, ![r].sent = @ \union {p},
                        ![r].stage = IF run[r].left = {p} THEN "wait" ELSE "send"]
  /\ UNCHANGED <<node, admits, up, ended, box, served, faults>>

\* The node has been disabled since the run began: the run fails, although it
\* has sent to others.
Refused(r, p) ==
  /\ run[r].stage = "send"
  /\ p \in run[r].left
  /\ ~Connectable(p)
  /\ run' = [run EXCEPT ![r].stage = "error"]
  /\ UNCHANGED <<node, admits, up, calls, ended, box, wire, on, served, faults>>

\* The write of x is confirmed: its box is made.  On a call that has ended the
\* library may leave the confirmation out.
BoxMade(x) ==
  /\ wire[x] # "none"
  /\ box[x] = "unmade"
  /\ box' = [box EXCEPT ![x] = "yet"]
  /\ UNCHANGED <<node, admits, up, calls, ended, run, wire, on, served, faults>>

NextLevel(level) ==
  CASE level = "no"      -> "call"
    [] level = "call"    -> "channel"
    [] level = "channel" -> "never"
    [] OTHER             -> level

Sent(r) == Frame(r, run[r].try)
Failures(r) == {p \in Peers : box[<<r, p, run[r].try>>] = "failure"}

\* Mutant: a failure is waited for like an answer.
AllAnswered(r) == \A x \in Sent(r) : box[x] \in {"yes", "no"}
Settled(r) == \A x \in Sent(r) : box[x] \notin {"unmade", "yet"}

\* Mutants: failures are reported at once; the count is not looked at.
NoRetry(r) == FALSE
RetryForEver(r) == Failures(r) # {} /\ NextLevel(run[r].level) # "never"
Retrying(r) == /\ Failures(r) # {}
               /\ run[r].retries > 0
               /\ NextLevel(run[r].level) # "never"

\* Each 500 ms: a box that is not there yet is a TypeError.
PollTooEarly(r) ==
  /\ run[r].stage = "wait"
  /\ \E x \in Sent(r) : box[x] = "unmade"
  /\ run' = [run EXCEPT ![r].stage = "threw"]
  /\ UNCHANGED <<node, admits, up, calls, ended, box, wire, on, served, faults>>

\* All boxes hold a result and some failed: runRpcs calls itself for these.
Retry(r) ==
  /\ run[r].stage = "wait"
  /\ Settled(r)
  /\ Retrying(r)
  /\ run' = [run EXCEPT ![r] =
               Try(r, run[r].waiter, NextLevel(run[r].level),
                   run[r].retries - 1, run[r].try + 1, Failures(r))]
  /\ UNCHANGED <<node, admits, up, calls, ended, box, wire, on, served, faults>>

\* disableAbnormalNodes.  setNodeConfiguration changes the entries that the whole
\* module uses.
Judged(bad) ==
  [p \in Peers |->
     IF Limit # 0 /\ p \in bad
     THEN [allow |-> node[p].allow /\ node[p].count + 1 < Limit,
           count |-> node[p].count + 1]
     ELSE node[p]]

\* The nodes that a caller reports: those with a result other than a success
Blamed(r) == {x[2] : x \in {y \in Sent(r) : box[y] # "yes"}}

Taken(r) == Sent(r)

\* The results go to the caller: their boxes are deleted.  Callers other than
\* waitForRPCisOK report the nodes that answered with a failure.
Return(r) ==
  /\ run[r].stage = "wait"
  /\ run[r].try = 0
  /\ Settled(r)
  /\ ~Retrying(r)
  /\ node' = IF run[r].waiter THEN node ELSE Judged(Blamed(r))
  /\ box' = [x \in Packets |-> IF x \in Taken(r) THEN "deleted" ELSE box[x]]
  /\ run' = [run EXCEPT ![r].stage = "done"]
  /\ UNCHANGED <<admits, up, calls, ended, wire, on, served, faults>>

\* The inner call deletes the boxes of its results.  The outer one deletes those
\* of its successes, and then looks for the boxes of the others: a TypeError.
\* Mutant: it goes on.
GoesOn(r) == "done"
AfterRetry(r) == "threw"

ReturnFromRetry(r) ==
  /\ run[r].stage = "wait"
  /\ run[r].try > 0
  /\ Settled(r)
  /\ ~Retrying(r)
  /\ LET outer == {x \in Frame(r, run[r].try - 1) : box[x] # "failure"}
     IN  box' = [x \in Packets |->
                   IF x \in Sent(r) \union outer THEN "deleted" ELSE box[x]]
  /\ run' = [run EXCEPT ![r].stage = AfterRetry(r)]
  /\ UNCHANGED <<node, admits, up, calls, ended, wire, on, served, faults>>

(***************************************************************************)
(* Packets at either end (generalReceiver) and the library                 *)
(***************************************************************************)
Admitted(p) == admits[p]

\* The request x is executed.  Nobody refuses a Ping.
Serve(x) ==
  /\ wire[x] = "going"
  /\ up[x[2]]
  /\ Admitted(x[2])
  /\ \E a \in IF run[x[1]].waiter THEN {"yes"} ELSE {"yes", "no"} :
       wire' = [wire EXCEPT ![x] = a]
  /\ served' = [served EXCEPT ![x[1]][x[2]] = @ + 1]
  /\ UNCHANGED <<node, admits, up, calls, ended, run, box, on, faults>>

\* The sender is in the deny list: no answer.
Drop(x) ==
  /\ wire[x] = "going"
  /\ up[x[2]]
  /\ ~Admitted(x[2])
  /\ wire' = [wire EXCEPT ![x] = "dropped"]
  /\ UNCHANGED <<node, admits, up, calls, ended, run, box, on, served, faults>>

\* An answer is passed over too when its sender is in the deny list by now, and
\* when it has no box.
Boxed(x) == node[x[2]].allow /\ box[x] \in {"yet", "failure", "yes", "no"}

Arrive(x) ==
  /\ wire[x] \in {"yes", "no"}
  /\ IF Boxed(x)
     THEN /\ box' = [box EXCEPT ![x] = wire[x]]
          /\ wire' = [wire EXCEPT ![x] = "read"]
     ELSE /\ wire' = [wire EXCEPT ![x] = "dropped"]
          /\ UNCHANGED box
  /\ UNCHANGED <<node, admits, up, calls, ended, run, on, served, faults>>

\* The error event of the calls cs: boxes without a result get a failure.
Failed(x, p, cs) == x[2] = p /\ on[x] \in cs /\ box[x] = "yet"

AfterError(p, cs) ==
  [x \in Packets |-> IF Failed(x, p, cs) THEN "failure" ELSE box[x]]

Open(p) == (1 .. calls[p]) \ ended[p]

\* The connection to p breaks.  Requests under way may have been executed.
Break(p) ==
  LET under == {x \in Packets : x[2] = p /\ wire[x] \in {"going", "yes", "no"}}
      going == {x \in under : wire[x] = "going"}
  IN  /\ Open(p) # {}
      /\ ended' = [ended EXCEPT ![p] = 1 .. calls[p]]
      /\ box' = AfterError(p, Open(p))
      /\ wire' = [x \in Packets |-> IF x \in under THEN "lost" ELSE wire[x]]
      /\ \E done \in SUBSET IF up[p] /\ Admitted(p) THEN going ELSE {} :
           served' = [r \in Runs |-> [served[r] EXCEPT ![p] =
                        @ + Cardinality({x \in done : x[1] = r})]]
      /\ UNCHANGED <<node, admits, up, calls, run, on>>

Lose(p) == up[p] /\ faults < MaxFaults /\ faults' = faults + 1 /\ Break(p)

\* No server answers at p.
Unreachable(p) == ~up[p] /\ UNCHANGED faults /\ Break(p)

\* A write on a call that has ended raises the error once more.
ErrorAgain(p) ==
  /\ calls[p] \in ended[p]
  /\ \E x \in Packets : Failed(x, p, {calls[p]})
  /\ box' = AfterError(p, {calls[p]})
  /\ UNCHANGED <<node, admits, up, calls, ended, run, wire, on, served, faults>>

GoDown(p) ==
  /\ up[p]
  /\ faults < MaxFaults
  /\ up' = [up EXCEPT ![p] = FALSE]
  /\ faults' = faults + 1
  /\ UNCHANGED <<node, admits, calls, ended, run, box, wire, on, served>>

ComeUp(p) ==
  /\ ~up[p]
  /\ up' = [up EXCEPT ![p] = TRUE]
  /\ UNCHANGED <<node, admits, calls, ended, run, box, wire, on, served, faults>>

\* disableAbnormalNodes at p
Exclude(p) ==
  /\ p \in Excluders
  /\ admits[p]
  /\ admits' = [admits EXCEPT ![p] = FALSE]
  /\ UNCHANGED <<node, up, calls, ended, run, box, wire, on, served, faults>>

Next ==
  \/ \E r \in Runs :
       \/ Start(r) \/ StartWait(r)
       \/ PollTooEarly(r) \/ Retry(r) \/ Return(r) \/ ReturnFromRetry(r)
       \/ \E p \in Peers : Send(r, p) \/ Refused(r, p)
  \/ \E x \in Packets : BoxMade(x) \/ Serve(x) \/ Drop(x) \/ Arrive(x)
  \/ \E p \in Peers :
       \/ Lose(p) \/ Unreachable(p) \/ ErrorAgain(p)
       \/ GoDown(p) \/ ComeUp(p) \/ Exclude(p)

Spec == Init /\ [][Next]_vars

\* A node works at its packets and polls while it runs; packets arrive; the
\* library confirms a write on a call that has not ended, and reports that no
\* server answers.
Progress(r) ==
  \/ PollTooEarly(r) \/ Retry(r) \/ Return(r) \/ ReturnFromRetry(r)
  \/ \E p \in Peers : Send(r, p) \/ Refused(r, p)

FairSpec ==
  /\ Spec
  /\ \A r \in Runs : WF_vars(Progress(r))
  /\ \A x \in Packets :
       /\ WF_vars(Serve(x) \/ Drop(x))
       /\ WF_vars(Arrive(x))
       /\ WF_vars(BoxMade(x) /\ on[x] \notin ended[x[2]])
  /\ \A p \in Peers : WF_vars(Unreachable(p))

(***************************************************************************)
(* Properties                                                              *)
(***************************************************************************)
\* A run that returns results has had its request executed exactly once at every
\* node it has an answer of: callers need not expect a repeated AddPool or
\* AddBlockCa3 from a call that has not failed.  (runRpcs repeats requests whose
\* answer is lost, but then it never returns.)
ReturnedMeansOnce ==
  \A r \in Runs : run[r].stage = "done" =>
    \A x \in Packets : x[1] = r /\ wire[x] = "read" => served[r][x[2]] = 1

\* No node is judged abnormal for not answering: the count is of the nodes that
\* answer with a failure.  A node that has never executed a request is never
\* counted, whatever Limit is.
OnlyAnswersJudged ==
  \A p \in Peers :
    (\A r \in Runs : served[r][p] = 0) => node[p] = [allow |-> TRUE, count |-> 0]

\* A packet of r that nobody will ever answer: dropped by one end, or written on a
\* call that has ended and confirmed all the same.
Forgotten(r) ==
  \E x \in Sent(r) : wire[x] = "dropped" \/ (wire[x] = "lost" /\ box[x] = "yet")

\* Every run ends, for ever faults or not, unless one of its packets is forgotten:
\* these are the only ways to wait for ever.
RunEnds == \A r \in Runs : run[r].stage = "send" ~> (Ended(r) \/ Forgotten(r))
=============================================================================
