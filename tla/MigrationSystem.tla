-------------------------- MODULE MigrationSystem --------------------------
(***************************************************************************)
(* Several nodes, each with its agent: one process whose only I/O thread   *)
(* runs the handlers of POST /trigger and POST /cmd, one request at a      *)
(* time.  The agents never talk to each other; they meet in the containers *)
(* they start and stop, in the one DNS entry, and in the loads they read.  *)
(*                                                                         *)
(* A tick is seen in the parts between which other nodes may act: judge,   *)
(* select, sample, and the calls of the handover one by one (Trigger has   *)
(* its leaves).  A load is low (a candidate, below all limits), mid (below *)
(* the thresholds only), over (one resource above its threshold) or both.  *)
(* The peers of a tick are read at one moment.  The agents' processes may  *)
(* end and be restarted at any time; nothing is kept on disk.              *)
(***************************************************************************)
EXTENDS FiniteSets

CONSTANTS
  Node,          \* the nodes of graph.txt
  First,         \* the node that has the service at the beginning
  NoNode,        \* an empty address, or a pointer never assigned
  Loads,         \* the loads that occur
  Crashes,       \* whether an agent's process may end at any moment
  Lossy          \* whether requests to docker and to the DNS service may fail

ASSUME SystemAssumption ==
  /\ First \in Node
  /\ NoNode \notin Node
  /\ Loads \subseteq {"low", "mid", "over", "both"}
  /\ Crashes \in BOOLEAN /\ Lossy \in BOOLEAN

VARIABLES
  server,        \* per node: "listening", "trigger", "cmd" or "crashed"
  stage,         \* per node: where its handler stands, "idle" without one
  target,        \* per node: _best of the trigger, dstnode of the cmd
  waiting,       \* per node: a cmd request is in the socket
  configured,    \* per node: nodeIp, etcdUrl and dnsUrl were ever read
  load,          \* per node: what etcd holds of it
  running, dns,  \* the containers that are up; where the DNS entry points
  \* History, not in the code:
  wasLow,        \* per node: the peers that were low at some time of its tick
  crossed,       \* a node was stopped while another was handing over to it
  undercut,      \* per node: its destination was, after its start was acknowledged
  faulty         \* the DNS entry was left at, or moved to, a node that was stopped

agents   == <<server, stage, target, waiting, configured>>
external == <<load, running, dns>>
history  == <<wasLow, crossed, undercut, faulty>>
vars     == <<agents, external, history>>

Low == {m \in Node : load[m] = "low"}

Init == /\ server = [n \in Node |-> "listening"]
        /\ stage = [n \in Node |-> "idle"]
        /\ target = [n \in Node |-> NoNode]
        /\ waiting = [n \in Node |-> FALSE]
        /\ configured = [n \in Node |-> FALSE]
        /\ load \in [Node -> Loads]
        /\ running = {First} /\ dns = First
        /\ wasLow = [n \in Node |-> {}]
        /\ undercut = [n \in Node |-> FALSE]
        /\ crossed = FALSE /\ faulty = FALSE

\* The handler of n, for the request h, is about to do s.
At(n, h, s) == server[n] = h /\ stage[n] = s

Goto(n, s) == stage' = [stage EXCEPT ![n] = s] /\ UNCHANGED server

\* Mutant: what a handler was doing outlives it.
Leave_KeepsStage(n, s) ==
  /\ server' = [server EXCEPT ![n] = s]
  /\ target' = [target EXCEPT ![n] = NoNode]
  /\ wasLow' = [wasLow EXCEPT ![n] = {}]
  /\ undercut' = [undercut EXCEPT ![n] = FALSE]
  /\ UNCHANGED stage

\* The handler is left, its variables are gone.
Leave(n, s) == /\ server' = [server EXCEPT ![n] = s]
               /\ stage' = [stage EXCEPT ![n] = "idle"]
               /\ target' = [target EXCEPT ![n] = NoNode]
               /\ wasLow' = [wasLow EXCEPT ![n] = {}]
               /\ undercut' = [undercut EXCEPT ![n] = FALSE]

\* The handler returns or throws.
Return(n) == /\ Leave(n, "listening")
             /\ UNCHANGED <<waiting, configured, external, crossed, faulty>>

\* The process of n ends, and with it its globals and its sockets.
End(n) == /\ Leave(n, "crashed")
          /\ waiting' = [waiting EXCEPT ![n] = FALSE]
          /\ configured' = [configured EXCEPT ![n] = FALSE]
          /\ UNCHANGED <<external, crossed>>

\* updateGlobalConfig, and its copy in getLocalhost: what was read before
\* stays if configuration.json cannot be read.
ReadConfiguration(n) == configured' \in {configured, [configured EXCEPT ![n] = TRUE]}

-----------------------------------------------------------------------------
(* What the docker daemon of m makes of a request: it is acknowledged (204 *)
(* or 304), or it is not and may have been carried out all the same.  So   *)
(* may an update of the DNS entry to m.                                    *)

Answers == IF Lossy THEN BOOLEAN ELSE {TRUE}

StartAt(m, acked) ==
  \/ running' = running \cup {m}
  \/ ~acked /\ UNCHANGED running

StopAt(m, acked) ==
  \/ running' = running \ {m}
  \/ ~acked /\ UNCHANGED running

DnsAt(m, acked) ==
  \/ dns' = m
  \/ ~acked /\ UNCHANGED dns

-----------------------------------------------------------------------------
(* The trigger.                                                            *)

TriggerStart(n) ==
  /\ server[n] = "listening"
  /\ server' = [server EXCEPT ![n] = "trigger"]
  /\ stage' = [stage EXCEPT ![n] = "judge"]
  /\ UNCHANGED <<target, waiting, configured, external, history>>

\* GetLocalResource and Migration_jugdement.  Without addresses, or when etcd
\* fails, the tick fails, as it does for a node with both resources over.
Judge(n) ==
  /\ At(n, "trigger", "judge")
  /\ ReadConfiguration(n)
  /\ \/ configured'[n] /\ load[n] # "both" /\ Goto(n, "select")
     \/ UNCHANGED <<server, stage>>
  /\ wasLow' = [wasLow EXCEPT ![n] = Low \ {n}]
  /\ UNCHANGED <<target, waiting, external, crossed, undercut, faulty>>

\* Mutant: the node chosen in an earlier tick is kept.
Select_Cached(n) ==
  /\ At(n, "trigger", "select")
  /\ \E m \in (IF target[n] = NoNode THEN Low \ {n} ELSE {target[n]}) :
       target' = [target EXCEPT ![n] = m]
  /\ Goto(n, "sample")
  /\ UNCHANGED <<waiting, configured, external, history>>

\* Migration_policy_calculate: one of the peers that pass the limits.
Select(n) ==
  /\ At(n, "trigger", "select")
  /\ \E m \in Low \ {n} : target' = [target EXCEPT ![n] = m]
  /\ Goto(n, "sample")
  /\ UNCHANGED <<waiting, configured, external, history>>

\* There is none: the null pointer that is printed ends the process.  (Garbage
\* tables may end it too, see Selection; that is one of Crash's moments.)
SelectNobody(n) ==
  /\ At(n, "trigger", "select")
  /\ Low \subseteq {n}
  /\ End(n)
  /\ UNCHANGED faulty

\* MigrationGetImbalance and IsOverloadFrequency: one calm sample ends the
\* tick; the handover follows if the last one, too, is over a threshold.
Sample(n) ==
  /\ At(n, "trigger", "sample")
  /\ \/ Goto(n, "judge")
     \/ load[n] \in {"over", "both"} /\ Goto(n, "start")
  /\ UNCHANGED <<target, waiting, configured, external, history>>

\* stof of a value that etcd did not give throws: the client gets a 500.
EtcdThrows(n) ==
  /\ server[n] = "trigger" /\ stage[n] \in {"judge", "select", "sample"}
  /\ Return(n)

\* Mutant: the answer is not looked at.
StartContainer_AnyAnswer(n) ==
  /\ At(n, "trigger", "start")
  /\ \E acked \in Answers : StartAt(target[n], acked)
  /\ Goto(n, "copy")
  /\ UNCHANGED <<target, waiting, configured, load, dns, history>>

\* bestNodeRun; a start that is not acknowledged fails the tick.
StartContainer(n) ==
  /\ At(n, "trigger", "start")
  /\ \E acked \in Answers :
       /\ StartAt(target[n], acked)
       /\ Goto(n, IF acked THEN "copy" ELSE "judge")
  /\ UNCHANGED <<target, waiting, configured, load, dns, history>>

\* migrateAllKeys, see KeyMigration, which may end the process.
Copy(n) ==
  /\ At(n, "trigger", "copy")
  /\ Goto(n, "stop")
  /\ UNCHANGED <<target, waiting, configured, external, history>>

CopyCrashes(n) ==
  /\ At(n, "trigger", "copy")
  /\ End(n)
  /\ UNCHANGED faulty

\* m has had n started, and counts on it.
HandsOverTo(m, n) == /\ server[m] = "trigger" /\ target[m] = n
                     /\ stage[m] \in {"copy", "stop", "dns"}

\* What the stop of n means to the nodes that count on it.
Undercuts(n) ==
  /\ crossed' = (crossed \/ \E m \in Node : HandsOverTo(m, n))
  /\ undercut' = [m \in Node |-> undercut[m] \/ HandsOverTo(m, n)]

\* Mutant: update does not go on to the DNS entry.
StopContainer_SkipsDns(n) ==
  /\ At(n, "trigger", "stop")
  /\ \E acked \in Answers :
       /\ StopAt(n, acked)
       /\ Goto(n, "reply")
       /\ faulty' = (faulty \/ (~acked /\ dns = n /\ n \notin running'))
  /\ Undercuts(n)
  /\ UNCHANGED <<target, waiting, configured, load, dns, wasLow>>

\* Mutant: the DNS entry is moved before the stop.
StopContainer_DnsFirst(n) ==
  /\ At(n, "trigger", "stop")
  /\ dns' = target[n]
  /\ \E acked \in Answers :
       /\ StopAt(n, acked)
       /\ faulty' = (faulty \/ (~acked /\ dns = n /\ n \notin running'))
  /\ Goto(n, "reply")
  /\ Undercuts(n)
  /\ UNCHANGED <<target, waiting, configured, load, wasLow>>

\* update; a stop that is not acknowledged ends the handover.
StopContainer(n) ==
  /\ At(n, "trigger", "stop")
  /\ \E acked \in Answers :
       /\ StopAt(n, acked)
       /\ Goto(n, IF acked THEN "dns" ELSE "reply")
       /\ faulty' = (faulty \/ (~acked /\ dns = n /\ n \notin running'))
  /\ Undercuts(n)
  /\ UNCHANGED <<target, waiting, configured, load, dns, wasLow>>

\* The answer is not looked at.  An entry that is moved to a node nobody has
\* stopped is right again, whatever happened before.
ModifyDns(n) ==
  /\ At(n, "trigger", "dns")
  /\ \E acked \in Answers : DnsAt(target[n], acked)
  /\ faulty' = IF dns' = target[n] THEN undercut[n] ELSE faulty \/ dns = n
  /\ Goto(n, "reply")
  /\ UNCHANGED <<target, waiting, configured, load, running, wasLow, crossed, undercut>>

\* The loop ends with _distribute set: the client is told success.
TriggerReplies(n) ==
  /\ At(n, "trigger", "reply")
  /\ Return(n)

Trigger(n) == \/ TriggerStart(n) \/ Judge(n) \/ Select(n) \/ Sample(n) \/ EtcdThrows(n)
              \/ StartContainer(n) \/ Copy(n) \/ StopContainer(n) \/ ModifyDns(n)
              \/ TriggerReplies(n)

-----------------------------------------------------------------------------
(* The forced migration.                                                   *)

\* A request of the control centre arrives; nobody reads it before the
\* handler that is running has returned.
CmdArrives(n) ==
  /\ server[n] # "crashed" /\ ~waiting[n]
  /\ waiting' = [waiting EXCEPT ![n] = TRUE]
  /\ UNCHANGED <<server, stage, target, configured, external, history>>

\* cmd reads the configuration, and the node to move to from the request.
CmdStart(n) ==
  /\ server[n] = "listening" /\ waiting[n]
  /\ ReadConfiguration(n)
  /\ waiting' = [waiting EXCEPT ![n] = FALSE]
  /\ \E m \in Node \cup {NoNode} : target' = [target EXCEPT ![n] = m]
  /\ server' = [server EXCEPT ![n] = "cmd"]
  /\ stage' = [stage EXCEPT ![n] = "start"]
  /\ UNCHANGED <<external, history>>

\* A request without a JSON object is answered with 400.
CmdMalformed(n) ==
  /\ server[n] = "listening" /\ waiting[n]
  /\ ReadConfiguration(n)
  /\ waiting' = [waiting EXCEPT ![n] = FALSE]
  /\ UNCHANGED <<server, stage, target, external, history>>

\* Mutant: a start that is not acknowledged is tried again.
CmdStartContainer_Retries(n) ==
  /\ At(n, "cmd", "start")
  /\ \/ \E acked \in Answers : /\ target[n] # NoNode /\ StartAt(target[n], acked)
                                /\ Goto(n, IF acked THEN "stop" ELSE "start")
     \/ target[n] = NoNode /\ UNCHANGED <<running, server, stage>>
  /\ UNCHANGED <<target, waiting, configured, load, dns, history>>

\* The outcome of the start is only printed.  migrateAllKeys, from an empty
\* address, cannot connect and copies nothing.
CmdStartContainer(n) ==
  /\ At(n, "cmd", "start")
  /\ \/ target[n] # NoNode /\ \E acked \in Answers : StartAt(target[n], acked)
     \/ target[n] = NoNode /\ UNCHANGED running
  /\ Goto(n, "stop")
  /\ UNCHANGED <<target, waiting, configured, load, dns, history>>

\* The nodeIp of cmd is its own, declared and never assigned.
CmdNodeIp(n) == NoNode

\* Nor is its dnsUrl: the stop and the DNS update go nowhere, and the reply
\* is success (成功) whatever happened.
CmdStopAndReply(n) ==
  /\ At(n, "cmd", "stop")
  /\ \E acked \in Answers : StopAt(CmdNodeIp(n), acked)
  /\ Leave(n, "listening")
  /\ UNCHANGED <<waiting, configured, load, dns, crossed, faulty>>

Cmd(n) == CmdStartContainer(n) \/ CmdStopAndReply(n)

-----------------------------------------------------------------------------

\* The process may end at any moment.  Started again, it has its globals blank
\* and no memory of what it was doing.
Crash(n) ==
  /\ Crashes /\ server[n] # "crashed"
  /\ End(n)
  /\ faulty' = (faulty \/ (At(n, "trigger", "dns") /\ dns = n))

Restart(n) ==
  /\ server[n] = "crashed"
  /\ Return(n)

LoadChanges(n) ==
  /\ load' \in {[load EXCEPT ![n] = l] : l \in Loads}
  /\ wasLow' = [m \in Node |-> IF server[m] = "trigger" THEN wasLow[m] \cup (Low' \ {m})
                               ELSE {}]
  /\ UNCHANGED <<agents, running, dns, crossed, undercut, faulty>>

\* What the thread of n does by itself once it has a request.
Handle(n) == \/ server[n] = "trigger" /\ Trigger(n)
             \/ SelectNobody(n) \/ CopyCrashes(n) \/ Cmd(n)

Next == \E n \in Node :
          \/ Trigger(n) \/ SelectNobody(n) \/ CopyCrashes(n)
          \/ CmdArrives(n) \/ CmdStart(n) \/ CmdMalformed(n) \/ Cmd(n)
          \/ Crash(n) \/ Restart(n) \/ LoadChanges(n)

Spec == Init /\ [][Next]_vars

\* A handler that runs goes on running.  When it returns, drogon dispatches
\* whatever lies in its sockets, so that a request that is dispatchable again
\* and again is dispatched.
FairSpec == /\ Spec
            /\ \A n \in Node : /\ WF_vars(Handle(n))
                               /\ SF_vars(CmdStart(n) \/ CmdMalformed(n))

-----------------------------------------------------------------------------

TypeOK ==
  /\ server \in [Node -> {"listening", "trigger", "cmd", "crashed"}]
  /\ stage \in [Node -> {"idle", "judge", "select", "sample", "start", "copy", "stop",
                         "dns", "reply"}]
  /\ \A n \in Node : /\ stage[n] = "idle" <=> server[n] \in {"listening", "crashed"}
                     /\ server[n] = "cmd" => stage[n] \in {"start", "stop"}
  /\ target \in [Node -> Node \cup {NoNode}]
  /\ waiting \in [Node -> BOOLEAN] /\ configured \in [Node -> BOOLEAN]
  /\ load \in [Node -> Loads]
  /\ running \subseteq Node /\ dns \in Node
  /\ wasLow \in [Node -> SUBSET Node]
  /\ crossed \in BOOLEAN /\ faulty \in BOOLEAN /\ undercut \in [Node -> BOOLEAN]

\* The service is up somewhere, whatever requests are lost and whatever
\* processes end, unless a node was stopped while another, counting on it,
\* was handing the service over to it: no agent looks at what the others do.
NoOutageUnlessCrossed == crossed \/ running # {}

\* The service's name points to a node where it is up, or the agent of the node
\* it points to has stopped that node and is about to move the entry.  Only a
\* failed DNS update, a stop that took effect unacknowledged, or a process that
\* ended in between leaves the entry behind, only a crossed handover moves it
\* astray, and the next handover that completes mends it, whichever node's.
DnsFollows ==
  \/ faulty
  \/ dns \in running
  \/ At(dns, "trigger", "dns")

\* The choice of a node is at most one tick old when the service is handed
\* over to it: it was below the limits at some moment of that tick.
ChoiceIsOfThisTick ==
  \A n \in Node : (server[n] = "trigger" /\ stage[n] \in {"start", "copy", "stop", "dns"})
                    => target[n] \in wasLow[n]

\* What a tick of one node does to the containers and the DNS entry is what
\* Handover allows, with the other nodes doing as they like in between.
Phase(n) == IF server[n] # "trigger" THEN "open"
            ELSE CASE stage[n] \in {"copy", "stop"} -> "committed"
                   [] stage[n] = "dns"              -> "stopped"
                   [] stage[n] = "reply"            -> "settled"
                   [] OTHER                         -> "open"

Promise(n) == INSTANCE Handover WITH
                Local <- n, Peers <- Node \ {n}, chosen <- target[n], phase <- Phase(n)

AgentsKeepThePromise ==
  [][\A n \in Node : Trigger(n) => Promise(n)!Next \/ UNCHANGED Promise(n)!vars]_vars

\* A forced migration is taken up, if need be after the handler that runs,
\* unless a trigger goes on for ever: that one holds the only thread.
CmdIsServed ==
  \A n \in Node : (waiting[n] ~> ~waiting[n]) \/ <>[](server[n] = "trigger")

\* When IsPolicySuccess lets update stop the local container, the container
\* of the destination is up ("judge whether the container of the destination
\* node is started", comment of isPolicySuccess).
PolicySuccessMeansUp ==
  \A n \in Node : At(n, "trigger", "stop") => target[n] \in running

\* A forced migration to another node, on a node whose addresses were read, has
\* closed the local container and moved the name when it replies success
\* ("close the local container" and "DNS modified successfully" in cmd).
CmdMigrates ==
  [][\A n \in Node :
       (/\ At(n, "cmd", "stop") /\ server'[n] = "listening"
        /\ configured[n] /\ target[n] \in Node \ {n})
         => n \notin running' /\ dns' = target[n]]_vars
=============================================================================
