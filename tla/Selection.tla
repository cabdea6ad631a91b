----------------------------- MODULE Selection -----------------------------
(***************************************************************************)
(* The choice of the node to migrate to: migrationNodesGet, which lists    *)
(* the peers of graph.txt whose readings pass the limits and computes      *)
(* their benefit, and bestNodeGet, which adds the path costs of Dijkstra   *)
(* and takes the first node of least gain.  The list is the code's: the    *)
(* fields next and prior of its nodes, and a struct Global with head, tail *)
(* and count.  A vertex stands for its struct Node.                        *)
(*                                                                         *)
(* graph.txt is opened twice, by migrationNodesGet for the addresses and   *)
(* by get_graph for the matrix; each open may fail, and neither result is  *)
(* looked at.                                                              *)
(*                                                                         *)
(* Readings are in tenths and benefits in 1/UNIT, which is exact for every *)
(* reading in tenths that passes the limits; the rounding of floats, which *)
(* decides between different readings of equal gain, is left out.          *)
(***************************************************************************)
EXTENDS Integers, FiniteSets

CONSTANTS
  N, Graphs, Local,   \* the topology and this node's vertex, see Dijkstra
  Readings,           \* the readings etcd may hold for a peer
  EtcdFails,          \* whether an etcd request may fail
  NULL

VARIABLES
  phase,              \* the loop that is running, or how the selection ended
  at, n,              \* the counter and the node pointer of that loop
  head, tail, count,  \* _global
  next, prior,        \* the links of the nodes
  value,              \* their readings, NULL for a vertex that is not on the list
  filled,             \* whether _graph holds what graph.txt says
  benefit, gain,
  best,               \* _best
  edge, D, p, final, k, i   \* the graph and its path tables, see Dijkstra

Paths == INSTANCE Dijkstra

V     == Paths!V
Peers == V \ {Local}
Reading == [computing : Nat, store : Nat]
UNIT  == 15080        \* 1 in the unit of benefit and gain

ASSUME SelectionAssumption ==
  /\ N \in Nat \ {0}
  /\ Local \in V
  /\ \A g \in Graphs : Paths!Topology(g)
  /\ NULL \notin V
  /\ Readings \subseteq Reading /\ NULL \notin Reading
  /\ EtcdFails \in BOOLEAN

global == <<head, tail, count, next, prior, value>>
paths  == <<edge, D, p, final, k, i>>
vars   == <<phase, at, n, global, filled, benefit, gain, best, paths>>

\* globalInit and nodeInit; edge is the matrix that graph.txt describes.
Init == /\ phase = "nodes" /\ at = 0 /\ n = NULL
        /\ head = NULL /\ tail = NULL /\ count = 0
        /\ next = [v \in V |-> NULL] /\ prior = [v \in V |-> NULL]
        /\ value = [v \in V |-> NULL]
        /\ filled = FALSE
        /\ benefit = [v \in V |-> 0] /\ gain = [v \in V |-> 0]
        /\ best = NULL
        /\ Paths!Init

-----------------------------------------------------------------------------
(* migrationNodesGet.                                                      *)

\* Mutant: the list is not entered at its first node.
Push_NoHead(v) ==
  /\ head' = head /\ tail' = v /\ count' = count + 1
  /\ next' = IF tail = NULL THEN [next EXCEPT ![v] = NULL]
             ELSE [next EXCEPT ![tail] = v, ![v] = NULL]
  /\ prior' = [prior EXCEPT ![v] = tail]

\* Mutant: the new node becomes the tail before it is linked to the old one.
Push_TailFirst(v) ==
  /\ head' = IF tail = NULL THEN v ELSE head
  /\ tail' = v /\ count' = count + 1
  /\ next' = [next EXCEPT ![v] = NULL]
  /\ prior' = [prior EXCEPT ![v] = IF tail = NULL THEN NULL ELSE v]

\* globalPush appends the node of v.
Push(v) ==
  /\ head' = IF tail = NULL THEN v ELSE head
  /\ tail' = v /\ count' = count + 1
  /\ next' = IF tail = NULL THEN [next EXCEPT ![v] = NULL]
             ELSE [next EXCEPT ![tail] = v, ![v] = NULL]
  /\ prior' = [prior EXCEPT ![v] = tail]

\* Mutant: the limit on the CPU is missing.
PassesLimits_StoreOnly(r) == r.store <= 5

\* A float is compared with a double: 0.6, which the float exceeds, is over the
\* limit, 0.5 is exact and is not.
PassesLimits(r) == r.computing < 6 /\ r.store <= 5

\* Mutant: this node is not skipped.
ReadPeer_LocalToo ==
  /\ phase = "nodes" /\ at < N
  /\ \E r \in Readings :
       IF PassesLimits(r)
       THEN Push(at) /\ value' = [value EXCEPT ![at] = r]
       ELSE UNCHANGED global
  /\ at' = at + 1
  /\ UNCHANGED <<phase, n, filled, benefit, gain, best, paths>>

\* One address of graph.txt: this node is skipped, a peer is read and kept
\* if it is below the limits.
ReadPeer ==
  /\ phase = "nodes" /\ at < N
  /\ IF at = Local THEN UNCHANGED global
     ELSE \E r \in Readings :
            IF PassesLimits(r)
            THEN Push(at) /\ value' = [value EXCEPT ![at] = r]
            ELSE UNCHANGED global
  /\ at' = at + 1
  /\ UNCHANGED <<phase, n, filled, benefit, gain, best, paths>>

\* The error of an etcd request is not looked at: stof throws.
EtcdThrows ==
  /\ EtcdFails
  /\ phase = "nodes" /\ at < N /\ at # Local
  /\ phase' = "thrown"
  /\ UNCHANGED <<at, n, global, filled, benefit, gain, best, paths>>

\* graph.txt cannot be opened for the addresses: no peer is read, and the leaf
\* goes on.
GraphUnreadable ==
  /\ phase = "nodes" /\ at = 0
  /\ phase' = "benefit" /\ n' = head
  /\ UNCHANGED <<at, global, filled, benefit, gain, best, paths>>

PeersRead ==
  /\ phase = "nodes" /\ at = N
  /\ phase' = "benefit" /\ n' = head
  /\ UNCHANGED <<at, global, filled, benefit, gain, best, paths>>

\* standardCalculate, in twentieths: by how much the variance of a peer's CPU
\* and memory usage grows, relatively, with the service's 0.2 and 0.3 on it.
\* (The mean with the service, ave2, is computed there and not used.)
StandardCalculate(r) ==
  LET ave1   == r.computing + r.store
      stand1 == ((2 * r.computing - ave1) * (2 * r.computing - ave1)
                  + (2 * r.store - ave1) * (2 * r.store - ave1)) \div 2
      stand2 == ((2 * r.computing + 4 - ave1) * (2 * r.computing + 4 - ave1)
                  + (2 * r.store + 6 - ave1) * (2 * r.store + 6 - ave1)) \div 2
  IN  (UNIT * (stand2 - stand1)) \div (stand1 + 4)

\* Mutant: the pointer is not moved on.
Benefit_SameNode ==
  /\ phase = "benefit" /\ n # NULL
  /\ benefit' = [benefit EXCEPT ![n] = StandardCalculate(value[n])]
  /\ UNCHANGED <<phase, at, n, global, filled, gain, best, paths>>

\* globalDelete leaves count as it is and dereferences a null link if the node
\* is the first, and the loop reads the link of the node just freed: anything
\* may follow.
GlobalDelete == phase' = "freed" /\ UNCHANGED n

\* getBenefit deletes a node without benefit.
Benefit ==
  /\ phase = "benefit" /\ n # NULL
  /\ benefit' = [benefit EXCEPT ![n] = StandardCalculate(value[n])]
  /\ IF benefit'[n] > 0
     THEN n' = next[n] /\ UNCHANGED phase
     ELSE GlobalDelete
  /\ UNCHANGED <<at, global, filled, gain, best, paths>>

\* getGraph, for a file that opens and whose vertices fit.
BenefitsDone ==
  /\ phase = "benefit" /\ n = NULL
  /\ N <= Paths!MAX_VERTEX_NUM
  /\ phase' = "paths" /\ filled' = TRUE
  /\ UNCHANGED <<at, n, global, benefit, gain, best, paths>>

\* The second open fails and get_graph leaves vexnum, the addresses and the
\* matrix as malloc returned them; or there are more vertices than the arrays
\* have places, and it writes past them.  The leaf succeeds all the same.
GraphNotFilled ==
  /\ phase = "benefit" /\ n = NULL
  /\ phase' = "garbage"
  /\ UNCHANGED <<at, n, global, filled, benefit, gain, best, paths>>

-----------------------------------------------------------------------------
(* bestNodeGet.                                                            *)

ShortestPaths ==
  /\ phase = "paths"
  /\ Paths!Next
  /\ UNCHANGED <<phase, at, n, global, filled, benefit, gain, best>>

PathsDone ==
  /\ phase = "paths" /\ i = N
  /\ phase' = "gain" /\ at' = 0 /\ n' = head
  /\ UNCHANGED <<global, filled, benefit, gain, best, paths>>

\* Mutant: the cost is left out.
GainOf_NoCost(v) == benefit[v]

\* Twice the gain of v: its benefit and its path cost, an integer.
GainOf(v) == benefit[v] + UNIT * D[v]

\* getGain, for one node: its loops run count times and follow next.
Gain ==
  /\ phase = "gain" /\ at < count
  /\ IF n = NULL
     THEN phase' = "crashed" /\ UNCHANGED <<at, n, gain>>
     ELSE /\ gain' = [gain EXCEPT ![n] = GainOf(n)]
          /\ n' = next[n] /\ at' = at + 1
          /\ UNCHANGED phase
  /\ UNCHANGED <<global, filled, benefit, best, paths>>

GainsDone ==
  /\ phase = "gain" /\ at = count
  /\ phase' = "scan" /\ at' = 0 /\ n' = head /\ best' = head
  /\ UNCHANGED <<global, filled, benefit, gain, paths>>

Better(v) == gain[v] < gain[best]

\* getBestNode, for one node.
Scan ==
  /\ phase = "scan" /\ at < count
  /\ IF n = NULL
     THEN phase' = "crashed" /\ UNCHANGED <<at, n, best>>
     ELSE /\ best' = IF Better(n) THEN n ELSE best
          /\ n' = next[n] /\ at' = at + 1
          /\ UNCHANGED phase
  /\ UNCHANGED <<global, filled, benefit, gain, paths>>

\* The address of the best node is printed, also if there is none.
BestKnown ==
  /\ phase = "scan" /\ at = count
  /\ phase' = IF best = NULL THEN "crashed" ELSE "chosen"
  /\ UNCHANGED <<at, n, global, filled, benefit, gain, best, paths>>

\* bestNodeGet on such a graph: the loops run off the arrays and the process
\* ends, or they stop and leave any gains, so that any candidate is the best.
BestOfGarbage ==
  /\ phase = "garbage"
  /\ \/ phase' = "crashed" /\ UNCHANGED best
     \/ phase' = "chosen" /\ \E v \in V : value[v] # NULL /\ best' = v
  /\ UNCHANGED <<at, n, global, filled, benefit, gain, paths>>

Next == ReadPeer \/ EtcdThrows \/ GraphUnreadable \/ PeersRead \/ Benefit
          \/ BenefitsDone \/ GraphNotFilled \/ ShortestPaths \/ PathsDone \/ Gain
          \/ GainsDone \/ Scan \/ BestKnown \/ BestOfGarbage

Spec == Init /\ [][Next]_vars

\* The thread runs; etcd answers or fails.
FairSpec == Spec /\ WF_vars(Next)

-----------------------------------------------------------------------------

Link == Peers \cup {NULL}

TypeOK ==
  /\ phase \in {"nodes", "benefit", "paths", "garbage", "gain", "scan", "chosen",
                "crashed", "thrown", "freed"}
  /\ filled \in BOOLEAN
  /\ at \in 0..N /\ count \in 0..N
  /\ n \in Link /\ head \in Link /\ tail \in Link /\ best \in Link
  /\ next \in [V -> Link] /\ prior \in [V -> Link]
  /\ value \in [V -> Reading \cup {NULL}]
  /\ benefit \in [V -> Int] /\ gain \in [V -> Int]
  /\ edge \in [V -> [V -> 1..Paths!INFINITY]] /\ D \in [V -> 0..Paths!INFINITY]

Candidates == {v \in V : value[v] # NULL}    \* the peers kept

\* w comes right after v among the candidates: in the order of graph.txt.
Follows(v, w) == /\ v \in Candidates /\ w \in Candidates /\ v < w
                 /\ \A u \in Candidates : u <= v \/ w <= u

\* The list is the candidates in the order of graph.txt: walked from head by
\* next it meets each of them and ends at tail, walked from tail by prior it
\* meets them backwards, and count, which bounds the walks of getGain and
\* getBestNode, is their number (globalPush).
ListIsOrdered ==
  /\ head = NULL \/ (head \in Candidates /\ \A u \in Candidates : head <= u)
  /\ tail = NULL \/ (tail \in Candidates /\ \A u \in Candidates : u <= tail)
  /\ Candidates # {} => head # NULL /\ tail # NULL
  /\ \A v \in Candidates :
       /\ IF v = tail THEN next[v] = NULL ELSE Follows(v, next[v])
       /\ IF v = head THEN prior[v] = NULL ELSE Follows(prior[v], v)
  /\ count = Cardinality(Candidates)

\* A peer that passes the limits has a positive benefit, so that getBenefit
\* never calls globalDelete, which would leave count and the links wrong.
NothingDeleted == phase # "freed"

\* With the graph in place the process ends in a selection only if no peer
\* passes the limits: the loops never step off the list, and there is a best
\* node to print.
CrashesOnlyWithoutCandidate == phase = "crashed" /\ filled => Candidates = {}

\* What bestNodeGet is to compare, from a candidate's reading and distance.
Total(v) == StandardCalculate(value[v]) + UNIT * D[v]

\* The chosen node is a candidate and, with the graph in place, has the least
\* sum of benefit and path cost and is the first in graph.txt among equals
\* (getBestNode).
BestHasLeastGain ==
  phase = "chosen" =>
    /\ best \in Candidates
    /\ filled => \A u \in Candidates : \/ Total(best) < Total(u)
                                       \/ Total(best) = Total(u) /\ best <= u

\* The node chosen is the optimal one (comment of bestNodeGet), from the
\* readings and the graph alone, without the list and the tables the loops work
\* on: it has the least sum of benefit and length of the shortest way from
\* vertex 0.
Worth(v) == StandardCalculate(value[v]) + UNIT * Paths!Dist(Paths!v0)[v]

ChosenIsOptimal ==
  phase = "chosen" =>
    /\ best \in Candidates
    /\ \A u \in Candidates :
         \/ Worth(best) < Worth(u)
         \/ Worth(best) = Worth(u) /\ best <= u

\* So it is whenever get_graph has filled the graph (getBestNode).
ChoiceIsOptimal == filled => ChosenIsOptimal

\* A node to which graph.txt has no path is chosen only if every candidate is
\* such a node: INFINITY outweighs any benefit.
ReachableIsPreferred ==
  (phase = "chosen" /\ filled /\ D[best] = Paths!INFINITY) =>
    \A u \in Candidates : D[u] = Paths!INFINITY

\* The loops over the list end, the do-while of getBenefit included.
SelectionEnds == <>(phase \in {"chosen", "crashed", "thrown"})

\* The choice as Choice has it.
Stage == CASE phase \in {"nodes", "benefit"}       -> "listing"
           [] phase \in {"paths", "gain", "scan"}  -> "listed"
           [] phase = "garbage"                    -> "blind"
           [] phase = "chosen"                     -> "chosen"
           [] OTHER                                -> "over"
Listed == IF phase \in {"nodes", "benefit", "thrown", "freed"} THEN {} ELSE Candidates
Chosen == IF phase = "chosen" THEN best ELSE NULL

Promise == INSTANCE Choice WITH NoNode <- NULL, stage <- Stage,
                                candidates <- Listed, chosen <- Chosen

\* Whatever the loops do to the list, the candidates stay what was listed, the
\* result is one of them, and only an empty list or a missing graph leaves none.
ImplementsChoice == Promise!Spec
=============================================================================
