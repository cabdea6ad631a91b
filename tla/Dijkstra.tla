------------------------------ MODULE Dijkstra ------------------------------
(***************************************************************************)
(* shortestPathDijkstra on the topology that get_graph reads from          *)
(* graph.txt.  One action is one round of the main loop: the nearest open  *)
(* vertex is settled and the edges at it are relaxed.  bestNodeGet calls   *)
(* it from vertex 0; getGain reads the table D as the cost of the peers.   *)
(***************************************************************************)
EXTENDS Integers, FiniteSets

CONSTANTS
  N,        \* vexnum
  Graphs,   \* the adjacency matrices that graph.txt may describe
  Local     \* the vertex whose ip is this node's

MAX_VERTEX_NUM == 30
INFINITY == 65535
V  == 0..(N - 1)
v0 == 0

\* get_graph enters an edge in both directions, and nothing on the diagonal.
Topology(g) == /\ g \in [V -> [V -> 1..INFINITY]]
               /\ \A u, w \in V : g[u][w] = g[w][u]
               /\ \A u \in V : g[u][u] = INFINITY

ASSUME DijkstraAssumption ==
  /\ N \in 1..MAX_VERTEX_NUM
  /\ Local \in V
  /\ \A g \in Graphs : Topology(g)

VARIABLES
  edge,    \* G->edge
  D, p,    \* the tables: distance, and the vertex before the last on the path
  final,   \* the settled vertices
  k,       \* the vertex settled last
  i        \* rounds done

vars == <<edge, D, p, final, k, i>>

Init == /\ edge \in Graphs
        /\ D = [edge[v0] EXCEPT ![v0] = 0]
        /\ p = [v \in V |-> 0]
        /\ final = {v0}
        /\ k = 0 /\ i = 0

Open == {w \in V \ final : D[w] < INFINITY}

\* Mutant: the first open vertex is taken for the nearest.
Nearest_FirstOpen(w) == w \in Open /\ \A u \in Open : w <= u

\* The scan keeps the first of several equally near vertices.
Nearest(w) == w \in Open /\ \A u \in Open : D[w] < D[u] \/ (D[w] = D[u] /\ w <= u)

\* Mutant: the edges of the graph are taken for the distances.
Relax_EdgeOnly(n, min) ==
  LET Shorter(w) == w \notin final' /\ edge[n][w] < D[w]
  IN  /\ D' = [w \in V |-> IF Shorter(w) THEN edge[n][w] ELSE D[w]]
      /\ p' = [w \in V |-> IF Shorter(w) THEN n ELSE p[w]]

\* Mutant: p is not written.
Relax_NoPath(n, min) ==
  LET Shorter(w) == w \notin final' /\ min + edge[n][w] < D[w]
  IN  /\ D' = [w \in V |-> IF Shorter(w) THEN min + edge[n][w] ELSE D[w]]
      /\ p' = p

\* Mutant: the comparison with the old distance is missing.
Relax_Always(n, min) ==
  LET Shorter(w) == w \notin final'
  IN  /\ D' = [w \in V |-> IF Shorter(w) THEN min + edge[n][w] ELSE D[w]]
      /\ p' = [w \in V |-> IF Shorter(w) THEN n ELSE p[w]]

\* The open vertices next to n, which is min away, are updated.
Relax(n, min) ==
  LET Shorter(w) == w \notin final' /\ min + edge[n][w] < D[w]
  IN  /\ D' = [w \in V |-> IF Shorter(w) THEN min + edge[n][w] ELSE D[w]]
      /\ p' = [w \in V |-> IF Shorter(w) THEN n ELSE p[w]]

Settle ==
  /\ i < N
  /\ Nearest(k')
  /\ final' = final \cup {k'}
  /\ Relax(k', D[k'])
  /\ i' = i + 1
  /\ UNCHANGED edge

\* With nothing left to reach, k is that of an earlier round and min INFINITY.
SettleNothing ==
  /\ i < N
  /\ Open = {}
  /\ final' = final \cup {k}
  /\ Relax(k, INFINITY)
  /\ i' = i + 1
  /\ UNCHANGED <<edge, k>>

Next == Settle \/ SettleNothing

Spec == Init /\ [][Next]_vars

-----------------------------------------------------------------------------

TypeOK == /\ edge \in [V -> [V -> 1..INFINITY]]
          /\ D \in [V -> 0..INFINITY]
          /\ p \in [V -> V]
          /\ final \subseteq V
          /\ k \in V
          /\ i \in 0..N

\* The reference: Walks(s)[n][w] is the length of the shortest walk from s to w
\* of at most n edges, or INFINITY; no shortest walk needs more than N.
MinOf(S) == CHOOSE x \in S : \A y \in S : x <= y

NoEdges(s) == [w \in V |-> IF w = s THEN 0 ELSE INFINITY]

OneMore(t) == [w \in V |-> MinOf({t[w]} \cup {t[u] + edge[u][w] : u \in V})]

Walks(s) ==
  LET d[n \in 0..N] == IF n = 0 THEN NoEdges(s) ELSE OneMore(d[n - 1])
  IN  d

Dist(s) == Walks(s)[N]

\* When the loop is done D holds the shortest distances from v0.
ShortestFromV0 == i = N => D = Dist(v0)

\* D is at its fixed point: no edge at a vertex that was reached offers a
\* shorter way.  This is what N rounds, no more, have to suffice for.
NothingToRelax ==
  i = N => \A u, w \in V : D[u] < INFINITY => D[w] <= D[u] + edge[u][w]

\* At every moment the settled vertices are nearer than the others, and the
\* distance of a reached vertex is that of its predecessor, a settled one,
\* plus the edge between them.
SettledAreNearest == \A u \in final, w \in V \ final : D[u] <= D[w]

PathsAreTight ==
  \A w \in V \ {v0} : D[w] < INFINITY =>
    /\ p[w] \in final
    /\ D[w] = D[p[w]] + edge[p[w]][w]

\* The table holds the distances from this node (comment of the function).
DistancesAreFromLocal == i = N => D = Dist(Local)
=============================================================================
