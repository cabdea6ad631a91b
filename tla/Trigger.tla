------------------------------ MODULE Trigger ------------------------------
(***************************************************************************)
(* The handler of POST /trigger on one node, service_migration::trigger,   *)
(* with the PolicyInterface object it drives through the behaviour tree.   *)
(* drogon runs the handler on its only I/O thread: it is sequential, and   *)
(* serves requests one after the other.  What it talks to is not: etcd,    *)
(* the docker daemons of this node and of its peers, and the DNS service   *)
(* answer in every way its code can tell apart, including not at all.      *)
(*                                                                         *)
(* Abstracted: a reading of this node's CPU and memory usage is the pair   *)
(* of answers to "above imbalanceThreshold...?"; the peers' readings, path *)
(* lengths and gains are left to another module, so that MigrationNodesGet *)
(* keeps any set of peers and BestNodeGet picks any of them.  The agents   *)
(* of the peers, which may stop containers too, are left to another module *)
(* as well: here this node's agent acts alone.  _resource is never         *)
(* assigned after its initialisation to false, so the early return of      *)
(* migrationNodesGet is dead, and _policy is never read.                   *)
(***************************************************************************)
EXTENDS Naturals, FiniteSets, Sequences, MigrationTree

CONSTANTS
  Local,               \* this node, nodeIp in configuration.json
  Peers,               \* the other nodes of graph.txt
  NoNode,              \* a struct Node pointer that was never assigned
  NoReading,           \* a LocalHost that was never filled in
  Readings,            \* the readings etcd may hold for this node
  EtcdFails,           \* whether an etcd request may fail
  CandidateSets,       \* the sets of peers whose readings may pass the limits
  Replies,             \* the status codes the docker daemons may answer
  GraphFails,          \* whether get_graph may fail to read graph.txt
  DnsFails,            \* whether the DNS service may refuse an update
  RedisFails,          \* whether a connection to redis may break
  SampleRounds,        \* the 20 rounds of getOverloadFrequency
  overloadFrequencyThreshold

Nodes == Peers \cup {Local}
Reading == [cpu : BOOLEAN, mem : BOOLEAN]
Acknowledged == {204, 304}    \* done, and already done
NoAnswer == 0                 \* cpr's status code when no reply arrives

ASSUME TriggerAssumption ==
  /\ Local \notin Peers
  /\ NoNode \notin Nodes
  /\ Readings \subseteq Reading
  /\ CandidateSets \subseteq SUBSET Peers
  /\ NoReading \notin Reading
  /\ EtcdFails \in BOOLEAN
  /\ GraphFails \in BOOLEAN
  /\ DnsFails \in BOOLEAN
  /\ RedisFails \in BOOLEAN
  /\ Replies \subseteq {204, 304, 500, NoAnswer}
  /\ SampleRounds \in Nat
  /\ overloadFrequencyThreshold \in Nat

VARIABLES
  server,          \* "listening", "handling" or "crashed"
  reply,           \* how the latest request was answered
  dstnode,         \* the node named in the latest successful reply
  cursor, dir, ret, idx,                     \* the tree, see BehaviorTree
  step,            \* where a leaf with several calls stands
  localhost,       \* _localhost, its two readings
  global,          \* _global, the candidate nodes
  graph,           \* whether _graph holds what graph.txt says
  best,            \* _best
  overloadCount,   \* _overloadCount
  cunt, round,     \* the locals of getOverloadFrequency
  distribute,      \* _distribute
  running, dns,    \* the containers that are up; where the DNS entry points
  \* History of the request, not in the code:
  fresh,           \* the members assigned since the tick began
  calm,            \* a sample of this tick was not above the thresholds
  begun,           \* containers that the request brought up
  lost             \* a reply to one of its start requests did not arrive

tree     == <<cursor, dir, ret, idx>>
policy   == <<localhost, global, graph, best, overloadCount, cunt, round, distribute>>
external == <<running, dns>>
history  == <<fresh, calm, begun, lost>>
vars     == <<server, reply, dstnode, tree, step, policy, external, history>>

INSTANCE BehaviorTree WITH Root <- XmlRoot, Kind <- XmlKind,
                           Children <- XmlChildren, Parent <- XmlParent

-----------------------------------------------------------------------------
(* The request loop.                                                       *)

Init == /\ server = "listening" /\ reply = "none" /\ dstnode = NoNode
        /\ TreeInit /\ step = "call"
        /\ localhost = NoReading /\ global = {} /\ graph = FALSE /\ best = NoNode
        /\ overloadCount = 0 /\ cunt = 0 /\ round = 0 /\ distribute = FALSE
        /\ running = {Local} /\ dns = Local
        /\ fresh = {} /\ calm = FALSE /\ begun = {} /\ lost = FALSE

\* A request arrives: a new PolicyInterface and a new tree are built.
TriggerStart ==
  /\ server = "listening"
  /\ server' = "handling" /\ reply' = "pending" /\ dstnode' = NoNode
  /\ cursor' = XmlRoot /\ dir' = "idle" /\ ret' = "SUCCESS" /\ idx' = FreshIdx
  /\ step' = "call"
  /\ localhost' = NoReading /\ global' = {} /\ graph' = FALSE /\ best' = NoNode
  /\ overloadCount' = 0 /\ cunt' = 0 /\ round' = 0 /\ distribute' = FALSE
  /\ fresh' = {} /\ calm' = FALSE /\ begun' = {} /\ lost' = FALSE
  /\ UNCHANGED external

\* migration_subtree.xml cannot be read: the handler returns and drops the
\* callback, so the client is never answered.
TriggerWithoutXml ==
  /\ server = "listening"
  /\ reply' = "dropped"
  /\ UNCHANGED <<server, dstnode, tree, step, policy, external, history>>

\* while (!policy._distribute) tree.tickRoot();
LoopTick ==
  /\ server = "handling" /\ ~distribute
  /\ TickRoot
  /\ fresh' = {} /\ calm' = FALSE
  /\ UNCHANGED <<server, reply, dstnode, step, policy, external, begun, lost>>

\* Mutant: while (tree.tickRoot() != SUCCESS).
LoopExit_OnSuccess ==
  /\ server = "handling" /\ dir = "idle" /\ distribute /\ ret = "SUCCESS"
  /\ server' = "listening" /\ reply' = "success" /\ dstnode' = best
  /\ UNCHANGED <<tree, step, policy, external, history>>

LoopExit ==
  /\ server = "handling" /\ dir = "idle" /\ distribute
  /\ server' = "listening" /\ reply' = "success" /\ dstnode' = best
  /\ UNCHANGED <<tree, step, policy, external, history>>

TreeStep ==
  /\ server = "handling"
  /\ Walk
  /\ UNCHANGED <<server, reply, dstnode, step, policy, external, history>>

-----------------------------------------------------------------------------
(* The leaves.  Each deposits what it fetched in a member of the policy.   *)

At(leaf, s) == server = "handling" /\ dir = "tick" /\ cursor = leaf /\ step = s

Over(r) == r.cpu \/ r.mem

\* Mutant: the error code is printed and the leaf goes on.
GetLocalResource_IgnoresError ==
  /\ At("GetLocalResource", "call")
  /\ \/ /\ localhost' \in Readings
        /\ fresh' = fresh \cup {"localhost"}
     \/ /\ EtcdFails
        /\ localhost' = NoReading
        /\ UNCHANGED fresh
  /\ ActionReturns("SUCCESS")
  /\ UNCHANGED <<server, reply, dstnode, step, global, graph, best, overloadCount, cunt,
                 round, distribute, external, calm, begun, lost>>

\* localResourceGet: etcd's error code is checked for the CPU request only;
\* the new LocalHost then stays without readings.
GetLocalResource ==
  /\ At("GetLocalResource", "call")
  /\ \/ /\ localhost' \in Readings
        /\ fresh' = fresh \cup {"localhost"}
        /\ ActionReturns("SUCCESS")
     \/ /\ EtcdFails
        /\ localhost' = NoReading
        /\ ActionReturns("FAILURE")
        /\ UNCHANGED fresh
  /\ UNCHANGED <<server, reply, dstnode, step, global, graph, best, overloadCount, cunt,
                 round, distribute, external, calm, begun, lost>>

\* isCpuOver and isMemOver succeed when the resource is NOT above threshold.
IsCpuOver ==
  /\ At("IsCpuOver", "call")
  /\ ActionReturns(IF localhost.cpu THEN "FAILURE" ELSE "SUCCESS")
  /\ UNCHANGED <<server, reply, dstnode, step, policy, external, history>>

IsMemOver ==
  /\ At("IsMemOver", "call")
  /\ ActionReturns(IF localhost.mem THEN "FAILURE" ELSE "SUCCESS")
  /\ UNCHANGED <<server, reply, dstnode, step, policy, external, history>>

\* migrationNodesGet keeps the peers whose readings pass the limits, and
\* succeeds whether or not getGraph could fill the graph.
MigrationNodesGet ==
  /\ At("MigrationNodesGet", "call")
  /\ global' \in CandidateSets
  /\ graph' \in IF GraphFails THEN BOOLEAN ELSE {TRUE}
  /\ fresh' = fresh \cup {"global"}
  /\ ActionReturns("SUCCESS")
  /\ UNCHANGED <<server, reply, dstnode, step, localhost, best, overloadCount, cunt,
                 round, distribute, external, calm, begun, lost>>

\* Mutant: with no candidate this node is taken.
BestNodeGet_LocalIfNone ==
  /\ At("BestNodeGet", "call")
  /\ best' \in IF global = {} THEN {Local} ELSE global
  /\ fresh' = fresh \cup {"best"}
  /\ ActionReturns("SUCCESS")
  /\ UNCHANGED <<server, reply, dstnode, step, localhost, global, graph, overloadCount,
                 cunt, round, distribute, external, calm, begun, lost>>

\* bestNodeGet: some candidate has the least gain, or what passes for it on a
\* graph that was not filled.
BestNodeGet ==
  /\ At("BestNodeGet", "call")
  /\ best' \in global
  /\ fresh' = fresh \cup {"best"}
  /\ ActionReturns("SUCCESS")
  /\ UNCHANGED <<server, reply, dstnode, step, localhost, global, graph, overloadCount,
                 cunt, round, distribute, external, calm, begun, lost>>

\* With no candidate getBestNode returns a null pointer, which bestNodeGet
\* dereferences to print its address; without a graph its loops may run off
\* the tables: the process ends.
BestNodeGetCrashes ==
  /\ At("BestNodeGet", "call")
  /\ global = {} \/ ~graph
  /\ server' = "crashed"
  /\ UNCHANGED <<reply, dstnode, tree, step, policy, external, history>>

\* Mutant: the reading that starts the rounds is not counted.
FirstSample_NotCounted ==
  /\ At("MigrationGetImbalance", "call")
  /\ \E r \in Readings :
       IF Over(r)
       THEN /\ cunt' = 0 /\ step' = "sample"
            /\ UNCHANGED <<tree, overloadCount, fresh, calm>>
       ELSE /\ overloadCount' = 0 /\ ActionReturns("SUCCESS")
            /\ fresh' = fresh \cup {"overloadCount"} /\ calm' = TRUE
            /\ UNCHANGED <<cunt, step>>
  /\ UNCHANGED <<server, reply, dstnode, localhost, global, graph, best, round,
                 distribute, external, begun, lost>>

\* overloadCountGet calls getOverloadFrequency: one reading, and if that is
\* above a threshold SampleRounds more (the sleep(0.2) between is sleep(0)).
FirstSample ==
  /\ At("MigrationGetImbalance", "call")
  /\ \E r \in Readings :
       IF Over(r)
       THEN /\ cunt' = 1 /\ step' = "sample"
            /\ UNCHANGED <<tree, overloadCount, fresh, calm>>
       ELSE /\ overloadCount' = 0 /\ ActionReturns("SUCCESS")
            /\ fresh' = fresh \cup {"overloadCount"} /\ calm' = TRUE
            /\ UNCHANGED <<cunt, step>>
  /\ UNCHANGED <<server, reply, dstnode, localhost, global, graph, best, round,
                 distribute, external, begun, lost>>

NextSample ==
  /\ At("MigrationGetImbalance", "sample")
  /\ round < SampleRounds
  /\ round' = round + 1
  /\ \E r \in Readings : /\ cunt' = IF Over(r) THEN cunt + 1 ELSE cunt
                         /\ calm' = (calm \/ ~Over(r))
  /\ UNCHANGED <<server, reply, dstnode, tree, step, localhost, global, graph, best,
                 overloadCount, distribute, external, fresh, begun, lost>>

\* Mutant: the count is not a local of the call.
SamplesTaken_KeepsCount ==
  /\ At("MigrationGetImbalance", "sample")
  /\ round = SampleRounds
  /\ overloadCount' = cunt /\ round' = 0 /\ step' = "call"
  /\ fresh' = fresh \cup {"overloadCount"}
  /\ ActionReturns("SUCCESS")
  /\ UNCHANGED <<server, reply, dstnode, localhost, global, graph, best, cunt, distribute,
                 external, calm, begun, lost>>

SamplesTaken ==
  /\ At("MigrationGetImbalance", "sample")
  /\ round = SampleRounds
  /\ overloadCount' = cunt /\ cunt' = 0 /\ round' = 0 /\ step' = "call"
  /\ fresh' = fresh \cup {"overloadCount"}
  /\ ActionReturns("SUCCESS")
  /\ UNCHANGED <<server, reply, dstnode, localhost, global, graph, best, distribute,
                 external, calm, begun, lost>>

\* Mutant: a count at the threshold is enough.
IsOverloadFrequency_AtThreshold ==
  /\ At("IsOverloadFrequency", "call")
  /\ \/ /\ overloadCount < overloadFrequencyThreshold
        /\ ActionReturns("SUCCESS")
        /\ UNCHANGED calm
     \/ /\ overloadCount >= overloadFrequencyThreshold
        /\ \E r \in Readings :
             /\ ActionReturns(IF Over(r) THEN "FAILURE" ELSE "SUCCESS")
             /\ calm' = (calm \/ ~Over(r))
  /\ UNCHANGED <<server, reply, dstnode, step, policy, external, fresh, begun, lost>>

\* isOverload takes one more reading if the count is above the threshold,
\* and fails when a migration is due.
IsOverloadFrequency ==
  /\ At("IsOverloadFrequency", "call")
  /\ \/ /\ overloadCount <= overloadFrequencyThreshold
        /\ ActionReturns("SUCCESS")
        /\ UNCHANGED calm
     \/ /\ overloadCount > overloadFrequencyThreshold
        /\ \E r \in Readings :
             /\ ActionReturns(IF Over(r) THEN "FAILURE" ELSE "SUCCESS")
             /\ calm' = (calm \/ ~Over(r))
  /\ UNCHANGED <<server, reply, dstnode, step, policy, external, fresh, begun, lost>>

\* An etcd request fails where its error code is not checked: stof throws on
\* the empty value, the exception leaves the handler and drogon answers 500.
EtcdThrows ==
  /\ EtcdFails
  /\ server = "handling" /\ dir = "tick"
  /\ \/ cursor \in {"GetLocalResource", "MigrationNodesGet"}
     \/ cursor = "MigrationGetImbalance" /\ (step = "sample" => round < SampleRounds)
     \/ cursor = "IsOverloadFrequency" /\ overloadCount > overloadFrequencyThreshold
  /\ server' = "listening" /\ reply' = "error"
  /\ UNCHANGED <<dstnode, tree, step, policy, external, history>>

-----------------------------------------------------------------------------
(* The leaves that move the service.  The docker daemon of n answers a     *)
(* request with a status and leaves its container up or down; a request or *)
(* its answer may be lost.                                                 *)

Outcome == [status : Replies, up : BOOLEAN]

StartOutcomes(n) ==
  { o \in Outcome : \/ o.status = 204 /\ o.up
                    \/ o.status = 304 /\ n \in running /\ o.up
                    \/ o.status = 500 /\ o.up = (n \in running)
                    \/ o.status = NoAnswer /\ (n \in running => o.up) }

StopOutcomes(n) ==
  { o \in Outcome : \/ o.status = 204 /\ ~o.up
                    \/ o.status = 304 /\ n \notin running /\ ~o.up
                    \/ o.status = 500 /\ o.up = (n \in running)
                    \/ o.status = NoAnswer /\ (o.up => n \in running) }

SetContainer(n, up) == running' = IF up THEN running \cup {n} ELSE running \ {n}

\* Mutant: the branch for every other status code is missing.
StartContainer_OnlyRejects500 ==
  /\ At("runBestNode", "call")
  /\ \E o \in StartOutcomes(best) :
       /\ SetContainer(best, o.up)
       /\ begun' = IF o.up THEN begun \cup ({best} \ running) ELSE begun
       /\ lost' = (lost \/ o.status = NoAnswer)
       /\ IF o.status # 500
          THEN distribute' = TRUE /\ step' = "copy" /\ UNCHANGED tree
          ELSE ActionReturns("FAILURE") /\ UNCHANGED <<distribute, step>>
  /\ UNCHANGED <<server, reply, dstnode, localhost, global, graph, best, overloadCount,
                 cunt, round, dns, fresh, calm>>

\* Mutant: _distribute is set before the answer is looked at.
StartContainer_DistributesFirst ==
  /\ At("runBestNode", "call")
  /\ \E o \in StartOutcomes(best) :
       /\ SetContainer(best, o.up)
       /\ begun' = IF o.up THEN begun \cup ({best} \ running) ELSE begun
       /\ lost' = (lost \/ o.status = NoAnswer)
       /\ IF o.status \in Acknowledged
          THEN step' = "copy" /\ UNCHANGED tree
          ELSE ActionReturns("FAILURE") /\ UNCHANGED step
  /\ distribute' = TRUE
  /\ UNCHANGED <<server, reply, dstnode, localhost, global, graph, best, overloadCount,
                 cunt, round, dns, fresh, calm>>

\* bestNodeRun, up to the migration of the keys: the container of the best
\* node is started; any answer but 204 and 304 fails the leaf.
StartContainer ==
  /\ At("runBestNode", "call")
  /\ \E o \in StartOutcomes(best) :
       /\ SetContainer(best, o.up)
       /\ begun' = IF o.up THEN begun \cup ({best} \ running) ELSE begun
       /\ lost' = (lost \/ o.status = NoAnswer)
       /\ IF o.status \in Acknowledged
          THEN distribute' = TRUE /\ step' = "copy" /\ UNCHANGED tree
          ELSE ActionReturns("FAILURE") /\ UNCHANGED <<distribute, step>>
  /\ UNCHANGED <<server, reply, dstnode, localhost, global, graph, best, overloadCount,
                 cunt, round, dns, fresh, calm>>

\* migrateAllKeys, see KeyMigration, returns nothing: the leaf succeeds
\* whether or not the keys arrived.
MigrateAllKeys ==
  /\ At("runBestNode", "copy")
  /\ step' = "call"
  /\ ActionReturns("SUCCESS")
  /\ UNCHANGED <<server, reply, dstnode, policy, external, history>>

\* The connection breaks before the reply to an AUTH, whose null pointer is
\* dereferenced: the process ends in the middle of the handover.
MigrateAllKeysCrashes ==
  /\ At("runBestNode", "copy")
  /\ RedisFails
  /\ server' = "crashed"
  /\ UNCHANGED <<reply, dstnode, tree, step, policy, external, history>>

IsPolicySuccess ==
  /\ At("IsPolicySuccess", "call")
  /\ ActionReturns(IF distribute THEN "FAILURE" ELSE "SUCCESS")
  /\ UNCHANGED <<server, reply, dstnode, step, policy, external, history>>

\* Mutant: the answer to the stop request is not looked at.
StopContainer_IgnoresStatus ==
  /\ At("Update", "call")
  /\ \E o \in StopOutcomes(Local) :
       /\ SetContainer(Local, o.up)
  /\ step' = "dns"
  /\ UNCHANGED <<server, reply, dstnode, tree, policy, dns, history>>

\* update: stop the local container; unless that is acknowledged, give up.
StopContainer ==
  /\ At("Update", "call")
  /\ \E o \in StopOutcomes(Local) :
       /\ SetContainer(Local, o.up)
       /\ IF o.status \in Acknowledged
          THEN step' = "dns" /\ UNCHANGED tree
          ELSE ActionReturns("FAILURE") /\ UNCHANGED step
  /\ UNCHANGED <<server, reply, dstnode, policy, dns, history>>

\* update, after the stop: the answer of the DNS service is only printed.
ModifyDns ==
  /\ At("Update", "dns")
  /\ dns' \in IF DnsFails THEN {best, dns} ELSE {best}
  /\ step' = "call"
  /\ ActionReturns("SUCCESS")
  /\ UNCHANGED <<server, reply, dstnode, policy, running, history>>

-----------------------------------------------------------------------------

Judge   == GetLocalResource \/ IsCpuOver \/ IsMemOver \/ IsOverloadFrequency
Select  == MigrationNodesGet \/ BestNodeGet \/ BestNodeGetCrashes
Sample  == FirstSample \/ NextSample \/ SamplesTaken
Move    == StartContainer \/ MigrateAllKeys \/ MigrateAllKeysCrashes \/ IsPolicySuccess
             \/ StopContainer \/ ModifyDns

\* What the handler does by itself once a request is there.
Handle  == LoopTick \/ LoopExit \/ TreeStep \/ Judge \/ Select \/ Sample \/ Move \/ EtcdThrows

Next == TriggerStart \/ TriggerWithoutXml \/ Handle

Spec == Init /\ [][Next]_vars

\* The thread keeps running: every call it makes returns in the end.
FairSpec == Spec /\ WF_vars(Handle)

-----------------------------------------------------------------------------

Member == {"localhost", "global", "best", "overloadCount"}

TypeOK ==
  /\ server \in {"listening", "handling", "crashed"}
  /\ reply \in {"none", "pending", "dropped", "error", "success"}
  /\ dstnode \in Peers \cup {NoNode}
  /\ TreeTypeOK
  /\ step \in {"call", "sample", "copy", "dns"}
  /\ localhost \in Readings \cup {NoReading}
  /\ global \subseteq Peers
  /\ graph \in BOOLEAN
  /\ best \in Peers \cup {NoNode}
  /\ overloadCount \in 0..(SampleRounds + 1)
  /\ cunt \in 0..(round + 1)
  /\ round \in 0..SampleRounds
  /\ distribute \in BOOLEAN
  /\ running \subseteq Nodes
  /\ dns \in Nodes
  /\ fresh \subseteq Member
  /\ calm \in BOOLEAN
  /\ begun \subseteq Peers
  /\ lost \in BOOLEAN

\* The members that a leaf dereferences, or reads, when it is called.
Uses(leaf) ==
  CASE leaf \in {"IsCpuOver", "IsMemOver", "MigrationNodesGet",
                 "MigrationGetImbalance"}  -> {"localhost"}
    [] leaf = "BestNodeGet"                -> {"global"}
    [] leaf = "IsOverloadFrequency"        -> {"localhost", "overloadCount"}
    [] leaf \in {"runBestNode", "Update"}  -> {"localhost", "best"}
    [] OTHER                               -> {}

\* PolicyInterface's pointers start out indeterminate and outlive a tick: no
\* leaf may use a member that was not assigned earlier in the same tick, and
\* the reply may only name a node chosen in the last one.
FreshAtUse ==
  server = "handling" =>
    /\ dir = "tick" => Uses(cursor) \subseteq fresh
    /\ distribute => "best" \in fresh

\* A start request is sent only in a tick all of whose samples, those of
\* getOverloadFrequency and the one of isOverload, were above a threshold.
StartsOnlyUnderLastingOverload ==
  At("runBestNode", "call") => ~calm /\ overloadCount = SampleRounds + 1

\* The local container goes down only while the node that replaces it runs
\* and has been acknowledged (update after bestNodeRun).
StopsOnlyWhenReplaced ==
  [][(Local \in running /\ Local \notin running')
       => (distribute /\ best # Local /\ best \in running')]_vars

\* The service is up on some node at every moment.
NoOutage == running # {}

\* A successful reply names a node that runs the service, the only one this
\* request started unless the answer to a start request was lost on the way.
SuccessNamesTheOneStarted ==
  /\ reply = "success" => dstnode \in running
  /\ ~lost => begun \subseteq {best}

\* Once a start is acknowledged the client gets its answer, whatever fails
\* later in the tick, unless the process ends.
DistributedIsAnswered ==
  (distribute /\ server = "handling") ~> (reply = "success" \/ server = "crashed")

\* A step of a time in which this node's readings are over a threshold, and as R
\* when the tick begins, there are candidates, a start is acknowledged, and
\* neither etcd nor the process fails.
Favours(R) ==
  /\ server' # "crashed" /\ reply' # "error" /\ ~calm'
  /\ GetLocalResource => localhost' \in R
  /\ MigrationNodesGet => global' # {} /\ graph'
  /\ StartContainer => distribute'

\* From some time on, whatever went wrong before.
LastingOverload(R) == <>[][Favours(R)]_vars

\* On a node where one resource is over its threshold for good, a request is
\* answered: the samples add up to more than the threshold, the guard of the
\* policy lets the tick pass, and failed ticks leave nothing that stops the next
\* (isOverload fails "so that a migration is carried out").
OneOverIsAnswered ==
  LastingOverload({r \in Reading : r.cpu # r.mem})
    => (server = "handling" ~> server # "handling")

\* So it is whichever resources are over.
OverloadIsAnswered ==
  LastingOverload({r \in Reading : Over(r)})
    => (server = "handling" ~> server # "handling")

\* A reply "success" means that the service moved to the node it names.
SuccessIsSwitched ==
  reply = "success" => (Local \notin running /\ dns = dstnode)

\* The phase of the handover as Handover has it.
Phase == IF server = "listening" \/ ~distribute THEN "open"
         ELSE IF step = "dns" THEN "stopped"
         ELSE IF dir = "tick" \/ (dir = "ret" /\ cursor \in {"runBestNode", "IsPolicySuccess"})
              THEN "committed"
              ELSE "settled"

Promise == INSTANCE Handover WITH chosen <- best, phase <- Phase

ImplementsHandover == Promise!Spec

\* The stage of the choice of a node as Choice has it.
Stage == IF "global" \notin fresh THEN "listing"
         ELSE IF "best" \in fresh THEN "chosen"
         ELSE IF server = "crashed" THEN "over"
         ELSE IF graph THEN "listed" ELSE "blind"

Choices == INSTANCE Choice WITH stage <- Stage, candidates <- global, chosen <- best

\* Each tick chooses from the candidates it listed itself, at most once, and a
\* choice once begun ends without a node only for want of candidates or graph.
ImplementsChoice == Choices!Spec
=============================================================================
