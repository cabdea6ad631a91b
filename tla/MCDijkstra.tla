----------------------------- MODULE MCDijkstra -----------------------------
EXTENDS Dijkstra

\* Every undirected graph on N vertices with these edge weights or no edge.
CONSTANT Weights

Pairs == {e \in SUBSET V : Cardinality(e) = 2}

AllGraphs ==
  { [u \in V |-> [w \in V |-> IF u = w THEN INFINITY ELSE f[{u, w}]]] :
      f \in [Pairs -> Weights \cup {INFINITY}] }
=============================================================================
