---------------------------- MODULE MCSelection ----------------------------
(***************************************************************************)
(* Four vertices, three of them peers, so that the list has a first, a     *)
(* middle and a last node; one edge weight.  The readings: idle, CPU just  *)
(* below the limit and lower, memory at the limit, and three that are over *)
(* a limit: CPU by its rounding, CPU with a negative benefit, memory.      *)
(***************************************************************************)
EXTENDS Selection

CONSTANT Weights

\* AllGraphs is the value of a parameter of Paths, whose V and INFINITY these
\* are: it is written without them.
Vertices == 0..(N - 1)
NoEdge   == 65535

Pairs == {e \in SUBSET Vertices : Cardinality(e) = 2}

AllGraphs ==
  { [u \in Vertices |->
       [w \in Vertices |-> IF u = w THEN NoEdge ELSE f[{u, w}]]] :
      f \in [Pairs -> Weights \cup {NoEdge}] }

SomeReadings ==
  { [computing |-> c[1], store |-> c[2]] :
      c \in {<<0, 0>>, <<5, 0>>, <<3, 0>>, <<0, 5>>, <<6, 0>>, <<15, 0>>, <<2, 6>>} }
=============================================================================
