# A verification project for the service-migration node agent

`NewMigration` is a small agent that runs on every node of a group. A node runs one service
(a docker container, `PISKES_Server`, with a redis database behind it). When the node is
overloaded, a `POST /trigger` request makes the agent decide whether to move the service to
another node, and to which one, and carry the move out: start the peer's container, copy the redis
keys, stop the local container, move the DNS entry. A second request, `cmd`, forces a move.

This directory holds TLA+ modules of that agent, TLC configurations that check them on small
instances, and TLAPS proofs of the most important results for every value of the constants.
Paths below are relative to the repository (`src/` here); the abbreviations used are

| short | file |
|---|---|
| MP  | `src/src/migration_process/migration_process.cpp` (decision logic, leaves of the tree) |
| MPH | `src/include/migration_process.h` |
| MA  | `src/src/migration_action/migration_action.cpp` (copy of the redis keys) |
| CSM | `src/controllers/container_service_migration.cc` (the two handlers) |
| API | `src/src/web_client/migration_api.cpp` (docker and DNS calls) |
| LC  | `src/src/utils/load_configuration.cpp` |
| main | `src/main.cc` |
| XML | `src/build/migration_subtree.xml` (the behaviour tree that is read at run time) |

About 1200 lines are the program's own. The rest of the tree is the vendored headers of
BehaviorTree.CPP v3, whose implementation is linked as a binary.

## 1. Inventory

**Trigger handler** (CSM 24-73) and its `PolicyInterface` (MPH 70-140, MP 420-815).
*State:* per request, `_localhost`, `_global`, `_graph`, `_best` (pointers with no initial value),
`_overloadCount`, `_distribute`; `_policy` is written and never read, `_resource` is always false.
*Operations:* ten leaves registered with the tree factory, and the loop
`while (!policy._distribute) tree.tickRoot()`. *Talks to:* etcd (readings), docker (start, stop),
redis (copy), the DNS service. *Hard:* every one of these calls can fail or lose its answer; the
tree is ticked again and again over the same object, so leftovers of one tick are seen by the next;
the loop ends only with a migration. *Correct when:* the service is up somewhere at every moment;
the local container goes down only after the start of another one was acknowledged; a leaf uses only
what an earlier leaf of the same tick fetched; a move is made only under lasting overload; the
client is told what happened.

**Behaviour tree** (XML; BehaviorTree.CPP Sequence, Fallback, SimpleActionNode).
*State:* the child index each control node keeps between ticks. *Operations:* tick, halt.
*Correct when:* a tick returns what the structure says, visits no action twice, ends, and leaves
nothing behind. The copy at the top level of the repository (`src/migration_subtree.xml`) misspells
two identifiers (`BsetNodeGet`, `runBsetNode`) that no handler registers; the program is started from
`build/`, and the model is of that directory's copy.

**Key migration** (MA). *State:* the two redis databases, the list of keys, the dumped payload.
*Operations:* `migrateAllKeys` (KEYS, then `migrateKey` for each), `migrateKey` (DUMP at the source,
RESTORE at the target). *Hard:* clients of the service go on writing while the copy runs; each
command may fail; nothing is reported; the target may hold keys of an earlier term. *Correct when:*
it invents nothing, and every key that nothing disturbs arrives.

**Path cost** (MP 93-155, 209-260, `src/build/graph.txt`). *State:* adjacency matrix, distance
table `D`, path table `p`. *Correct when:* `D` holds the shortest distances, with `INFINITY = 65535`
for no path.

**Candidate selection** (MP 40-90, 265-405, 560-700). *State:* a doubly linked list of nodes with
reading, benefit, cost and gain, and a header with head, tail and count. *Operations:* push, delete,
`standardCalculate`, `getBenefit`, `getGain`, `getBestNode`. *Hard:* the loops trust links and count
at once; the delete breaks both, reads a freed node, and dereferences null for the first node;
`graph.txt` is opened twice, for the addresses and for the matrix, and neither result is looked at.
*Correct when:* the list is the peers below the limits, in order; the chosen one has the least gain;
the process ends here only if there is none.

**Forced migration** `cmd` (CSM 83-154). *State:* none of its own; locals that hide the globals of
the configuration. *Hard:* it ignores the outcome of each of its calls, and shares its thread with
trigger. *Correct when:* it moves service and name when it says so, never leaves the service down, and
is served.

**Configuration** (LC, `src/build/configuration.json`): three global strings, refreshed from a file.

**Registration and main** (`src/main.cc`): drogon with its default of one I/O thread, on which both
handlers run to completion.

**Several nodes.** *State:* the agents of all nodes, the loads in etcd, the containers, the DNS entry.
*Hard:* no agent knows what another does; the target of one handover may be the origin of another;
a process may end anywhere, with nothing on disk. *Correct when:* some container is up and the DNS
entry points to one.

**Interaction.** main → drogon → handler → tree → leaves → {etcd, docker here, docker there, redis
here, redis there, DNS}; the agents of different nodes share nothing but those services, so that two
agents can act on each other's container.

PROJECT.json lists these parts with their status, and the hazards of the code line by line.

## 2. Modules

| module | models | extends / instantiates |
|---|---|---|
| `BehaviorTree` | one tick over Sequence, Fallback, action | – |
| `MigrationTree` | the tree of XML as tables | – |
| `TickHistory` | the walk with arbitrary action results, what they were, and the verdict the node kinds' contracts give them | `BehaviorTree` |
| `MCBehaviorTree` | `TickHistory` on the tree of XML | `TickHistory`, `MigrationTree` |
| `Handover` | abstract: what a request may do to containers and DNS | – |
| `Choice` | abstract: what listing the candidates and choosing one promise | – |
| `Trigger` | handler, policy, leaves, docker, DNS, etcd answers | `MigrationTree`, `BehaviorTree`, `Handover`, `Choice` |
| `MCTrigger` | readings and candidate sets for TLC | `Trigger` |
| `KeyMigration`, `MCKeyMigration` | the redis copy among clients | – |
| `Dijkstra`, `MCDijkstra` | topology and shortest paths | – |
| `Selection`, `MCSelection` | the candidate list and the choice | `Dijkstra`, `Choice` |
| `MigrationSystem`, `MCMigrationSystem` | several agents: trigger, cmd, configuration, crashes | `Handover` |
| `BehaviorTreeProofs`, `TriggerProofs`, `HandoverProofs`, `KeyMigrationProofs`, `DijkstraProofs`, `SelectionProofs`, `MigrationSystemProofs` | theorems | their component, TLAPS; `SelectionProofs` instantiates `DijkstraProofs` |
| `Induction` | induction and recursion up to a bound, for the proofs | – |

### BehaviorTree and MigrationTree
A tick is a depth-first walk. `cursor` is the node on top of the call stack, `dir` says whether the
call goes down or returns, `ret` is the status being returned, `idx` is `current_child_idx_` of
every control node. The action names of the walk: `TickRoot`, `TickChild`, `NextChild`, `Decide`,
`EndTick`; an action leaf conjoins `ActionReturns(s)` to its effect; `TickLeaf` is an action that
may return anything, and `TreeSpec` the walk with such actions. `TreeAssumption` ties the two tables
of a tree together: every child of a control node has it for its parent, and no node has a child
twice. `TickHistory` adds `outcome`, what each leaf returned in the current tick, and the reference
`Verdict`, which knows neither indices nor a walk: statuses are computed from the leaves up, a node
at a time, by the contract of its kind. That a node class outside the repository behaves this way is
taken from its declarations and use, and is marked external in the map.

### Trigger
One step per call that leaves the process, so that anything may happen between two of them.

| code | action |
|---|---|
| request arrives, policy and tree are built (CSM 24-52) | `TriggerStart` |
| tree file missing: return without calling the callback | `TriggerWithoutXml` |
| `while (!_distribute) tickRoot()`, reply (CSM 56-73) | `LoopTick`, `LoopExit` |
| walk of the tree | `TreeStep` |
| `localResourceGet`, `isCpuOver`, `isMemOver` | `GetLocalResource`, `IsCpuOver`, `IsMemOver` |
| `migrationNodesGet`, `bestNodeGet` | `MigrationNodesGet`, `BestNodeGet`, `BestNodeGetCrashes` |
| `overloadCountGet`, `getOverloadFrequency` | `FirstSample`, `NextSample`, `SamplesTaken` |
| `isOverload` | `IsOverloadFrequency` |
| an unchecked etcd error (`stof("")` throws) | `EtcdThrows` |
| `bestNodeRun` | `StartContainer`, `MigrateAllKeys`, `MigrateAllKeysCrashes` |
| `isPolicySuccess` | `IsPolicySuccess` |
| `update` | `StopContainer`, `ModifyDns` |

The pointers of the policy start as `NoReading`, `{}`, `NoNode` and the history variable `fresh`
says which were assigned in this tick. A reading is a pair of truth values ("CPU over 0.7", "memory
over 0.7"), the only thing the handler asks of it. `graph` says whether `get_graph` filled `_graph`;
if it did not (allowed by `GraphFails`), `bestNodeGet` returns any candidate or ends the process.
`calm` records a sample of this tick that was not over a threshold, `begun` the containers that this
request brought up, `lost` that the answer to a start request did not arrive. The docker daemons
answer 204, 304, 500 or not at all (`cpr`'s status code 0), and a request without an answer may or
may not have taken effect (`StartOutcomes`, `StopOutcomes`); a 500 is taken to mean that the
container did not come up. A process that dereferences a null pointer has crashed and is not
restarted (nothing in the repository would); an exception that leaves the handler is answered by
drogon with an error. drogon's single I/O thread makes one handler run at a time. The agents of the
peers, which could stop containers too, are left out of this module.

### Handover
What is promised whatever the tree looks like: `Choose`, `Attempt` (a start that is not
acknowledged), `Commit`, `Stop`, `StopFails`, `MoveDns`, `Finish`. `Trigger!ImplementsHandover` maps
`chosen` to `_best` and `phase` to a function of the handler's position.
`MigrationSystem!AgentsKeepThePromise` maps each node to a Handover of its own.

### Choice
`List`, `Choose`, `NoChoice`, `Collapse`, `Abandon`, `Again`: the candidates are peers and are listed
once, the node chosen is one of them, and a choice that has begun fails only for want of candidates
(`NoChoice`) or of the topology (`blind`, `Collapse`). The two
views of the same code meet here: `Trigger!ImplementsChoice` with each of `migrationNodesGet` and
`bestNodeGet` as one step, `Selection!ImplementsChoice` with their loops node by node. So Trigger
assumes of the selection no more than Selection delivers, and the failures that Trigger allows it (an
exception of etcd, the null pointer of an empty list, a graph that was not filled) are the ones it has.

### KeyMigration
`ListKeys`/`ListFails` (KEYS), `DumpKey`/`DumpFails`, `RestoreKey`/`RestoreFails`, `AuthReplyIsNull`
(the null pointer behind a broken connection), `AllKeysTried`; `ClientWrite`, `ClientDelete` between
any two of them; `Begin` and `Finish` for the migrations that start a copy and move the service,
also back. A value is the number of the client write that made it, `Garbage` is an error text or a
nil reply that the code takes for a payload; history: `written`, `quiet` (no fault and no write
since the copy began), `touched` (the keys a fault or a write has hit since then), `leftover` (the
keys the target had already), `before`. `open` counts the connections a node's process has open, up
to `MaxOpen`: every early return of the code leaves its contexts open, and with none left
`NoDescriptor` takes the same early returns although nothing outside is wrong. TTLs are not modelled
(RESTORE is sent with 0).

### Dijkstra
One action per round of the main loop. `Settle` is a round that finds an open vertex, `SettleNothing`
one that does not and settles the `k` of an earlier round again, with `min = INFINITY`.

### Selection
The two calls `MigrationNodesGet` and `BestNodeGet` of Trigger, loop by loop and node by node.
`phase` is the loop that runs, `at` its counter and `n` its pointer; `head`, `tail`, `count`, `next`
and `prior` are the code's list.

| code | action |
|---|---|
| `globalInit`, `nodeInit`, `globalPush` | `Init`, `Push` |
| `graph.txt` for the addresses, loop over them (MP 588-655) | `GraphUnreadable`, `ReadPeer`, `EtcdThrows`, `PeersRead` |
| `getBenefit`, `standardCalculate`, `globalDelete` | `Benefit`, `StandardCalculate`, `GlobalDelete` |
| `graph.txt` for the matrix: `getGraph`, `get_graph` | `BenefitsDone`, `GraphNotFilled` |
| `shortestPathDijkstra` | `ShortestPaths` (Dijkstra's `Next`), `PathsDone` |
| `getGain`, `getBestNode`, printing the best | `Gain`, `GainsDone`, `Scan`, `BestKnown` |
| `bestNodeGet` on a graph that was not filled | `BestOfGarbage` |

Readings are tenths and benefits multiples of 1/15080, so that the formula of `standardCalculate` is
an integer for every reading in tenths that passes the limits. The limits compare a float with a
double, so that a reading of 0.6, which rounds up, is over its limit and one of 0.5, which is exact,
is not (`PassesLimits`). `filled` says whether `get_graph` filled the graph. If its open fails,
after the candidates may have been listed, `vexnum` and the matrix are what `malloc` returned; if
there are more than 30 vertices it writes past its arrays. Either way `bestNodeGet` goes on (phase
`garbage`) and chooses any candidate or ends the process. `Worth` is what a candidate should be
judged by, from its reading and the graph alone: the benefit and the length of the shortest path,
without list, `D`, `cost` or `gain`. The rounding of floats in benefit and gain is left out. A call
of `globalDelete` is the phase `freed`, after which the C code has undefined behaviour:
`NothingDeleted` says that it is never reached. `chosen`, `crashed` and `thrown` are the other ends.

### MigrationSystem
All nodes at once. `server` and `stage` say what the one thread of a node's process is doing. A tick
is cut where another node can act: `Judge`, `Select` (or `SelectNobody`, the null pointer that is
printed), `Sample`, then `StartContainer`, `Copy` (or `CopyCrashes`), `StopContainer`, `ModifyDns`,
`TriggerReplies`. The peers of a tick are read at one moment. `CmdArrives`, `CmdStart`,
`CmdMalformed`, `CmdStartContainer`, `CmdStopAndReply` are `cmd`; a request waits in the socket
while the thread is busy. `ReadConfiguration` is `updateGlobalConfig` and its copy in
`getLocalhost`: `configured` tells whether the three globals were ever read. `Crash` ends a process
at any moment, `Restart` starts it with blank globals. Answers of docker and DNS may be lost, as in
Trigger. A load is `low` (below all limits), `mid`, `over` (one resource above its threshold) or
`both`, and changes freely. `Answers` is what requests to docker and the DNS service come to: with
`Lossy` any of them may go unacknowledged, and take effect or not. `cmd` uses the variables it
declares itself, `CmdNodeIp` among them, so that its stop and its DNS update go nowhere. History:
`wasLow`, `crossed` (a node was stopped while another was handing over to it), `undercut` (per node:
its destination was so stopped since its start was acknowledged) and `faulty` (the DNS entry was
left at a node that was stopped, by a failed update, an unacknowledged stop or an end of the process
in between, or moved to one that had been undercut; the next update that names a node nobody
undercut ends it).

## 3. Runs

| run | question | bounds and why they are enough |
|---|---|---|
| `tree` | does the walk compute what the structure says? | the real tree, every combination of results: no bound |
| `trigger` | service stays up, order of the handover, no stale member, answer after a start | two peers (so that a later tick can choose another one), all readings, candidate sets, docker answers, etcd, DNS and graph failures, any number of requests; the 20 sampling rounds and the threshold 20 are scaled to 2 and 2, which keeps `1 + SampleRounds > threshold` and its tightness, both at the edge; also whether the choice is one of this tick's candidates (`Choice`), and whether a request ends in a migration once one resource is over its limit for good, there are candidates and everybody obeys, whatever happened before |
| `trigger_both_over` (violation) | does such a request end also with both resources over? | one counterexample: a lasso in which the guard fails in every tick |
| `trigger_success` (violation) | does "success" mean the service moved? | one peer suffices |
| `keys` | the copy invents nothing, brings over every key that nothing disturbs, is complete and closes its connections when undisturbed, returns | 2 hosts, 2 keys, 3 writes, 3 migrations, 4 descriptors: enough for a fault on one key beside a healthy one, for a copy onto leftovers, and for failed copies that leave no descriptor at any of the three places that need one |
| `keys_all` (violation) | does a copy bring all data over? | no faults, no writes during the copy |
| `dijkstra` | shortest distances and paths | every graph of 4 vertices with weights 1, 2, 4 or no edge (three edges, of unequal weight, against one are the shortest case in which a wrong choice of vertex shows) |
| `dijkstra_local` (violation) | are they distances from this node? | a 3-vertex graph and a node that is not vertex 0 |
| `selection` | is the list what links and count say, and the choice the least by readings and graph? is it a `Choice`? | 4 vertices, so that the list has a first, a middle and a last node; every graph with weight 2 or no edge; 7 readings: idle, CPU just below its limit and lower, memory at its limit, CPU at its limit (and over it by rounding), CPU far over with a negative benefit, memory over; etcd failures at any peer, either open of graph.txt failing |
| `system` | is the service up somewhere and findable, whatever the nodes do to each other? | 2 nodes, the least that can hand over to one another; loads low and over (a mid node is never chosen and never migrates; both only fails the guard: the theorems have all four); any number of ticks, requests, crashes, lost answers; is a forced migration taken up? (one that is lost with its process counts as taken up) |
| `system_mutual` (violation) | is the destination up when the local container is stopped? | the same as `system` without crashes |
| `system_cmd` (violation) | does a forced migration that replies success migrate? | the same with no crash and no lost answer |

Deadlock checking is off where the system really stops: a crashed process, a copy after its last
migration, the end of the Dijkstra loop and of a selection. In the runs of `Trigger` it is off
because a process that crashed (`BestNodeGetCrashes`) takes no further step.

**Fairness.** `WF_vars(Handle)` in Trigger: while a request is being handled the only I/O thread
keeps executing it, and every etcd, docker, redis and DNS call returns (with an answer or an error).
It says nothing about *which* result a call returns: no fairness is assumed of etcd, of the daemons,
or of requests arriving. `WF_vars(Copy)` in KeyMigration likewise, with no fairness of clients. In
MCBehaviorTree `WF_vars(Next)` is the thread that ticks, in Selection the thread that computes. In
MigrationSystem `WF_vars(Handle(n))` is again the thread of each node, without crashes, restarts,
new triggers or loads. `SF_vars(CmdStart(n) \/ CmdMalformed(n))` stands for drogon's event loop:
when a handler returns, the loop dispatches every socket that is ready, so that a request that is in
its socket each time the thread becomes free is not passed over for ever by later ones. Calls that
never return (no time-out is set in API or MA) are thereby excluded, and the liveness properties are
conditional on that.

### What the properties say
- `TickReturnsVerdict`, `NoLeafTwice`, `TicksStartFresh`, `TicksEnd`: the tree.
- `FreshAtUse`: no leaf uses a pointer that was not assigned earlier in the same tick.
- `StartsOnlyUnderLastingOverload`: a start request follows a full window of samples, all over a
  threshold, and one more. It depends on the edge `1 + 20 > 20`.
- `NoOutage`, `StopsOnlyWhenReplaced`, `SuccessNamesTheOneStarted`: the containers, over lost answers
  and repeated attempts. When the answer to a start is lost, a second peer may be started: the
  property says that this is the only way.
- `ImplementsHandover`: the order of the steps and at most one stop and DNS update per request.
- `DistributedIsAnswered` (after an acknowledged start the client is answered, or the process is
  gone), `OneOverIsAnswered` (if from some time on one resource is over its threshold, there
  are candidates and nothing fails, every request ends in a migration, whatever failed before).
- `NothingInvented`, `QuietCopyIsComplete`, `CopyReturns`: the copy. `UndisturbedKeysArrive`: whatever
  else fails or is written, a key that nothing touches and that the target did not hold arrives as it
  is; a failure stays with its key.
- `QuietCopyClosesAll`: only a failed call leaves a connection open. A copy needs three at a time
  (`HadRoom`); once earlier failures have left fewer, a copy loses keys without any fault.
- `ShortestFromV0` (against a reference by number of edges), `SettledAreNearest`,
  `PathsAreTight`: the path costs.
- `ListIsOrdered`, `CrashesOnlyWithoutCandidate`, `SelectionEnds`: the loops over the list stay on
  it and end; with the graph in place only an empty list ends the process. `NothingDeleted`: the
  benefit of a peer below the limits is positive (a matter of the formula and of 0.6 and 0.5
  together; without the CPU limit it is not). `ChoiceIsOptimal`: with the graph in place, the chosen
  node is the first with the least sum of benefit and shortest path, so that no fault of list,
  tables or loops can cost the best candidate its place. `ReachableIsPreferred`: INFINITY, an
  ordinary int, does outweigh every benefit.
- `ImplementsChoice`, of Trigger and of Selection: the node is one of the candidates of the same tick.
  In Trigger this spans ticks, as `_global` and `_best` of a failed tick are still there in the next.
- `NoOutageUnlessCrossed`: for any interleaving of the nodes, lost answers and crashes, one pattern
  only takes the service down: a node is stopped by its own trigger while another is between the
  start of that node and the end of its own handover. `DnsFollows`: the name points to a running
  container, or the agent of the node it points to has stopped that one and is about to move the
  entry. A crash or a lost call in between leaves the name behind (no agent remembers it), and the
  property says that the next complete handover of any node mends it, and that nothing else breaks it.
- `ChoiceIsOfThisTick`: the destination was below the limits during the tick that hands over to it (no
  stronger statement holds: the readings are not renewed after the samples).
- `AgentsKeepThePromise`: Handover, per node.
- `CmdIsServed`: a forced migration is taken up unless one trigger holds the thread for ever, which the
  loop of CSM 56 does on a calm node.

### Disagreements between the code and its comments
1. **A node that is over both limits never migrates** (`trigger_both_over`, XML 8-11). The guard is
   `Fallback(IsCpuOver, IsMemOver)`, each failing when its resource is over; with both over, the
   guard fails and the rest of the policy is never reached. (With neither over the guard succeeds.)
2. **"success" does not mean switched** (`trigger_success`, CSM 56-68): the loop ends when the start
   is acknowledged. If the stop is refused, or the DNS service refuses, the client is told success.
3. **"Migrate all data" leaves old values** (`keys_all`, MA 84): RESTORE without REPLACE, and no key
   is ever deleted at a source.
4. **Distances "from this node"** (`dijkstra_local`, MP 686) are from the first address in graph.txt.
5. **"Judge whether the destination's container is up"** (`system_mutual`, MP 771-780): isPolicySuccess
   reads a flag that the start set. Two nodes that choose each other are both told 304; one stops, and
   the other then stops with nothing up.
6. **"Close the local container"** (`system_cmd`, comments CSM 111 and 121): `cmd` declares locals
   that hide `dnsUrl` and `nodeIp` (CSM 85-86); with everything configured and every service
   obedient the local container stays up, the name stays where it is, and the reply is 成功 (success).
   As `cmd` does not look at the outcome of its start either, it would take the service down after a
   failed start if only the locals were removed.

Also met, not the subject of a run: the count of samples goes to 21 where the comment (MP 453)
speaks of 20 points in time; `sleep(0.2)` is `sleep(0)`; with no candidate the process ends (MP
692-696); `cmd` compares status codes with 200 where the daemon says 204; `getGraph` ignores that
`get_graph` could not open its file (MP 417), and the node that is called optimal (MP 671) is then
chosen on uninitialised memory, so that every statement about which node is chosen supposes a graph
that was filled. What is called the gain of a migration (迁移收益, MP 262) is minimised, and its benefit
is the growth of an imbalance. A peer just below the limits 0.6 and 0.5 is over 0.7 with the
service's 0.2 and 0.3 on it, and will migrate in turn. Each tick allocates its lists and tables and
frees none.

## 4. Proofs

Proved with TLAPS for every value of the constants that satisfies the named assumption of each
module. Nothing else is assumed.

**TriggerProofs** (`TypeCorrect`, `MembersAreFresh`, `ServiceStaysUp`, `StopIsCovered`,
`SuccessIsNamed`; assumption `TriggerAssumption`, any set of peers, any readings, candidate sets and
failures). None of them is inductive. The invariant `IInv` adds four parts:
- `IdxInv`: the indices of the control nodes above `cursor` are those of the path to it and every other
  index is 0. This is what makes the walk predictable from `cursor` alone.
- `StepInv`: a leaf with several calls is in its second call only while it is on top of the stack.
- `FreshInv`: at each position of the walk, on the way down and on the way up, which members have
  been assigned in this tick: `FreshAtUse` needs the positions between two leaves.
- `DistributeInv`: `_distribute` is set only inside or after runBestNode, and then `_best` runs.

`NoOutage` follows since a stop is reached only in positions where `_distribute` holds, and
`_best` is never the local node. Lemmas about the tables of the tree (`ParentOfNode`, `TwoChildren`,
`SecondHalves`) and about one step of the walk (`WayDown`, `WayUp`) carry the case analysis.
`SuccessIsNamed` needs `ReplyInv` besides: as long as no answer was lost, the request has brought up
nothing before the start that was acknowledged, and after it only that node.

**TriggerProofs**, refinements (`Refinement`): Trigger implements Handover under the mapping
`Phase`. Initial states map to initial states, and under `IInv` each action is one step of Handover
or a stutter: the start is `Commit` or `Attempt`, the stop `Stop` or `StopFails`, the DNS call
`MoveDns`, the reply `Finish`, a new request and the choice of a node `Choose`. The walk of the tree
stutters (`WalkSettles`), because after an acknowledged start it can only pass through runBestNode
and IsPolicySuccess to Update and then up. `ChoiceIsSound`: Trigger implements Choice too. Its
invariant `ChoiceInv` says at which positions of the walk neither leaf has run yet and at which the
candidates are listed and the choice is still to come, so that nothing lists or chooses a second
time between them.

**TriggerProofs**, second part (`StartsUnderLastingOverload`; further assumption `NoSlack`, the
threshold is at least the number of rounds, 20 and 20 in the code). The invariant says, by position
of the walk, that a full count excludes a calm sample (`Lasting`), and that beyond isOverload both
hold (`Due`).

**HandoverProofs** (`HandoverKeepsServiceUp`): the promise alone keeps the service up, and up on the
chosen peer from the acknowledgement on, for whatever implements it.

**KeyMigrationProofs** (`TypeCorrect`, `ValuesComeFromClients`, `QuietCopy`, `QuietCopyLeaksNothing`,
`UndisturbedArrive`): the invariant ties the payload in hand to the key it was dumped for (`PayloadInv`),
describes each key that nothing has disturbed, which is still listed, in hand, or equal on both
sides (`KeyInv`), and counts the connections that the functions on the stack hold (`ConnInv`), from
which an undisturbed copy with room never takes `NoDescriptor`.

**Induction** holds the two facts about the first naturals that the proofs need in a form the provers
can use: not with an operator as parameter, but with a set (`InductionUpTo`: a subset of 0..m that has
0 and the successors of its members is all of it) and with a step function (`RecursionUpTo`: a function
on 0..m that is defined from its value one below exists and satisfies its equation). The references
`Dist` of Dijkstra and `Verdict` of TickHistory are recursive functions, so that these apply.

**DijkstraProofs** (`TypeCorrect`, `SettledNearest`, `Tight`, `Shortest`; any topology that
satisfies `Topology`): the invariant adds that every edge at a settled vertex has been relaxed
(`SettledAreRelaxed`) and that after i rounds either i + 1 vertices are settled or none is open
(`Progress`), from which N rounds suffice. `Shortest` is full correctness against `Dist`, the least
weight of a walk of at most N edges: every distance in the table is that of a walk
(`DistancesAreWalks`), so none is too small, and as nothing is left to relax (`FixedPoint`), by
induction on the number of edges none is too large.

**BehaviorTreeProofs** (`WalkStaysInTree`, `NoIndexIsLeft`; any tree that satisfies `TreeAssumption`,
any results): the invariant says that there is a line of nodes from the root to the cursor, each the
parent of the next and none twice, that the index of every control node on the line is that of the
next node on it, and that every other control node is at its first child (`OnLine`). At the root
the line has no control node above, so all indices are 0.

`LeavesRunOnce` and `TickIsVerdict` (finite trees: `HistoryAssumption`) are about what the walk computes.
`Ran` says which leaves only can have run in this tick, by lines again: those whose line branches off to an
earlier child somewhere along the line to the cursor (`Passed`), and, on the way up, those below it
(`Inside`); so the next leaf is not among them. `Judged` is the invariant behind the verdict. The
nodes above the cursor are not decided yet, so it speaks of every completion of the outcomes so far
(`Completions`): in each, all earlier siblings along the line have the neutral status of their parent, and a
returning node has the status it returns. At the root, with the present outcomes for the completion,
this is `TickReturnsVerdict`. `VerdictsAre` shows that `Verdicts` satisfies its equation; a node that is `j`
nodes down the line is judged with `j` levels less, of which there are enough, as no line has more
control nodes than the tree (`LineFits`).

**SelectionProofs** (`TypeCorrect`, `ListStaysOrdered`, `NothingIsDeleted`, `CrashNeedsEmptyList`,
`ChoiceIsLeast`, `ReachableIsTaken`, `Refinement`; any topology, any readings in tenths; the three
about the chosen node and the end of the process speak of a graph that was filled, which one of more
than 30 vertices never is, `Refinement` of both): the pointer of a loop is on the list or has left
it at its end, and the counter is the number of candidates it has left behind (`WalkInv`, with
`ListIsOrdered` this is why the counted loops stop exactly at the end); the benefits and gains of
those are computed (`GainInv`) and `best` is the first of least gain among them (`BestInv`). The
benefit of a reading below the limits lies in 1..9*UNIT (`BenefitRange`, by the formula alone).
`ChoiceIsLeast` composes this with the theorem about the path costs: a behaviour of Selection is one
of Dijkstra (`RunsDijkstra`), the loops over the gains run on finished tables (`PathsFinished`), and
`DijkstraProofs!Shortest` gives the distances. `ReachableIsTaken` has a hypothesis on the topology,
`LightEdges`: no edge weighs more than 2100 (those of graph.txt all weigh 1). Every finite cost is
then at most 2100 times the number of rounds (`CostInv`), below INFINITY by more than any benefit;
with heavier edges the property does not hold, as a path of thirty vertices could weigh as much as
INFINITY. `Refinement`: every action of the loops is an action of Choice or leaves it alone, the end
of `getBestNode` being `Choose`.

**MigrationSystemProofs** (`TypeCorrect`, `ServiceStaysUpUnlessCrossed`, `NameFollowsService`,
`ChoiceIsFresh`, `EachKeepsThePromise`; any set of nodes, any loads): the
invariant says that the target of every handover is up unless somebody stopped it since, which is a
crossing (`TargetsAreUp`), that a target is another node which was low in this tick
(`TargetsAreKnown`, `LowAreNoted`), and `NoOutageUnlessCrossed` and `DnsFollows` themselves.
A node that stops without being another's destination leaves its own target up, hence no outage.

**Only model-checked:** liveness (`TicksEnd`, `DistributedIsAnswered`, `OneOverIsAnswered`,
`CopyReturns`, `SelectionEnds`, `CmdIsServed`), since liveness under fairness is out of the prover's
reach. Every invariant and every action property of the passing runs is a theorem.

## 5. Not modelled

- The vendored headers of BehaviorTree.CPP (15437 of the repository's 16755 lines of implementation:
  flatbuffers, `expected`, `string_view`, `any`, node classes that the tree never instantiates, and
  declarations whose definitions are in a binary). What the program uses of them is `BehaviorTree`.
  The share of all lines that the map can reach is bounded by this. Of the program's own functions, those
  of API are not mapped line by line: each builds one request, which is part of `StartContainer`,
  `StopContainer` and `ModifyDns`; nor is `getLocalhost`, whose etcd read is part of `GetLocalResource` and
  whose reading of the configuration is the same as `updateGlobalConfig`'s (`ReadConfiguration`).
- The logger, drogon's empty test template, the DB model and the build files: no state of the program.
- Memory: allocation failures, and what each tick leaks. Calls that never return (no time-out is set).
- Rounding of floats in benefit and gain, TTLs and binary key names in redis, a `configuration.json` or
  `graph.txt` with only part of its members, and what the overrun of a graph of more than 30 vertices
  does to the heap beyond that graph.
- Unused code: `GripperInterface`, `printCost`, `printGlobal`, `getSource`.

## 6. Order of the work

The tree, Handover, Trigger, KeyMigration and Dijkstra with their proofs came first; then Selection,
MigrationSystem with `cmd`, configuration and crashes, the connections of KeyMigration, and the proofs
of these and of BehaviorTree; then Choice and its two implementations, and the theorems that compare
the walk, the path costs and the choice with their references. Worth doing next: a three-node run of
MigrationSystem (the theorems cover any number of nodes, the liveness property does not), and partial
configuration files.
