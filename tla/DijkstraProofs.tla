--------------------------- MODULE DijkstraProofs ---------------------------
(***************************************************************************)
(* Proofs about Dijkstra, for every number of vertices up to               *)
(* MAX_VERTEX_NUM and every topology that get_graph can build.             *)
(***************************************************************************)
EXTENDS Dijkstra, Induction

\* No edge at a settled vertex offers a shorter way.
SettledAreRelaxed == \A u \in final, w \in V : D[w] <= D[u] + edge[u][w]

\* A round settles one more vertex as long as one is left to reach.
Progress == Open = {} \/ Cardinality(final) >= i + 1

\* After i rounds a distance is that of a walk of at most i + 1 edges.
Rounds == IF i < N THEN i + 1 ELSE N

DistancesAreWalks == \A w \in V : Walks(v0)[Rounds][w] <= D[w]

IInv == /\ TypeOK
        /\ v0 \in final /\ D[v0] = 0 /\ k \in final
        /\ SettledAreNearest
        /\ SettledAreRelaxed
        /\ PathsAreTight
        /\ Progress
        /\ DistancesAreWalks

LEMMA Bounds == N \in Nat /\ N >= 1 /\ v0 \in V /\ INFINITY \in Nat
  <1>1. N \in 1..30
    BY DijkstraAssumption DEF MAX_VERTEX_NUM
  <1> QED BY <1>1 DEF v0, V, INFINITY

LEMMA FiniteVertices == IsFiniteSet(V) /\ Cardinality(V) = N
  <1>1. 0 \in Int /\ N - 1 \in Int /\ 0 <= N - 1 /\ N - 1 - 0 + 1 = N
    BY Bounds
  <1> QED BY <1>1, FS_Interval DEF V

-----------------------------------------------------------------------------
(* The reference.                                                          *)

Tables == [V -> 0..INFINITY]

\* OneMore takes the least of a vertex's own distance and those by one edge.
LEMMA OneMoreIsLeast ==
  ASSUME edge \in [V -> [V -> 1..INFINITY]], NEW t \in Tables
  PROVE  /\ OneMore(t) \in Tables
         /\ \A w \in V : /\ OneMore(t)[w] <= t[w]
                         /\ \A u \in V : OneMore(t)[w] <= t[u] + edge[u][w]
                         /\ \/ OneMore(t)[w] = t[w]
                            \/ \E u \in V : OneMore(t)[w] = t[u] + edge[u][w]
  <1> DEFINE S(w) == {t[w]} \cup {t[u] + edge[u][w] : u \in V}
  <1>1. ASSUME NEW w \in V
        PROVE  /\ OneMore(t)[w] \in S(w) /\ \A x \in S(w) : OneMore(t)[w] <= x
               /\ S(w) \subseteq Nat
    <2>1. S(w) \subseteq Nat /\ S(w) # {}
      <3>1. \A u \in V : t[u] \in Nat /\ edge[u][w] \in Nat
        BY Bounds DEF Tables
      <3>2. \A x \in S(w) : x = t[w] \/ \E u \in V : x = t[u] + edge[u][w]
        OBVIOUS
      <3>3. \A x \in S(w) : x \in Nat
        <4> HIDE DEF S
        <4> QED BY <3>1, <3>2
      <3> QED BY <3>3
    <2>2. OneMore(t)[w] = MinOf(S(w))
      BY DEF OneMore
    <2> HIDE DEF S
    <2>3. \E x \in S(w) : \A y \in S(w) : x <= y
      BY <2>1, LeastOf
    <2> QED BY <2>1, <2>2, <2>3 DEF MinOf
  <1>2. \A w \in V : OneMore(t)[w] \in 0..INFINITY
    <2> SUFFICES ASSUME NEW w \in V PROVE OneMore(t)[w] \in 0..INFINITY
      OBVIOUS
    <2>1. t[w] \in 0..INFINITY /\ t[w] \in S(w)
      BY DEF Tables
    <2>2. OneMore(t)[w] \in Nat /\ OneMore(t)[w] <= t[w]
      <3> HIDE DEF S
      <3> QED BY <1>1, <2>1
    <2> QED BY <2>1, <2>2, Bounds
  <1>3. OneMore(t) \in Tables
    BY <1>2 DEF OneMore, Tables
  <1> QED BY <1>1, <1>3

\* The tables of the reference are what their definition says.
LEMMA WalksAre ==
  ASSUME edge \in [V -> [V -> 1..INFINITY]], NEW s \in V
  PROVE  /\ Walks(s) \in [0..N -> Tables]
         /\ Walks(s)[0] = NoEdges(s)
         /\ \A n \in 1..N : Walks(s)[n] = OneMore(Walks(s)[n - 1])
  <1> DEFINE step == [t \in Tables |-> OneMore(t)]
             Solves(f) == f = [n \in 0..N |-> IF n = 0 THEN NoEdges(s) ELSE OneMore(f[n - 1])]
  <1>1. NoEdges(s) \in Tables
    BY Bounds DEF NoEdges, Tables
  <1>2. Recursion(N, Tables, NoEdges(s), step)
    BY <1>1, OneMoreIsLeast, Bounds DEF Recursion
  <1>3. PICK f : IsTable(f, N, Tables, NoEdges(s), step)
    <2> HIDE DEF step
    <2> QED BY <1>2, RecursionUpTo
  <1>4. ASSUME NEW n \in 0..N
        PROVE  f[n] = IF n = 0 THEN NoEdges(s) ELSE OneMore(f[n - 1])
    <2>1. CASE n = 0
      BY <1>3, <2>1 DEF IsTable
    <2>2. CASE n # 0
      <3>1. n \in 1..N /\ n - 1 \in 0..N
        BY <2>2, Bounds
      <3>2. f[n - 1] \in Tables /\ f[n] = step[f[n - 1]]
        <4> HIDE DEF step
        <4> QED BY <1>3, <3>1 DEF IsTable
      <3> QED BY <2>2, <3>2
    <2> QED BY <2>1, <2>2
  <1>5. Solves(f)
    <2>1. f \in [0..N -> Tables]
      BY <1>3 DEF IsTable
    <2> QED BY <1>4, <2>1
  <1>6. Walks(s) = CHOOSE g : Solves(g)
    BY DEF Walks
  <1>7. Solves(Walks(s))
    <2> HIDE DEF Solves
    <2> QED BY <1>5, <1>6
  <1> DEFINE d == Walks(s)
             S == {n \in 0..N : d[n] \in Tables}
  <1>8. DOMAIN d = 0..N /\ d[0] = NoEdges(s) /\ \A n \in 1..N : d[n] = OneMore(d[n - 1])
    BY <1>7, Bounds
  <1>9. 0..N \subseteq S
    <2>1. 0 \in S
      BY <1>1, <1>8, Bounds
    <2>2. \A n \in 0..(N - 1) : n \in S => n + 1 \in S
      BY <1>8, OneMoreIsLeast, Bounds
    <2> HIDE DEF S
    <2> QED BY <2>1, <2>2, Bounds, InductionUpTo
  <1>10. d = [n \in 0..N |-> d[n]]
    BY <1>7
  <1> QED BY <1>8, <1>9, <1>10

-----------------------------------------------------------------------------

LEMMA InitIInv == Init => IInv
  <1> SUFFICES ASSUME Init PROVE IInv
    OBVIOUS
  <1>1. edge \in [V -> [V -> 1..INFINITY]]
    BY DijkstraAssumption DEF Init, Topology
  <1>2. /\ D \in [V -> 0..INFINITY] /\ D[v0] = 0
        /\ \A w \in V \ {v0} : D[w] = edge[v0][w]
    BY <1>1, Bounds DEF Init
  <1>3. TypeOK
    BY <1>1, <1>2, Bounds DEF Init, TypeOK, v0
  <1>4. final = {v0} /\ \A w \in V : edge[v0][w] \in Nat /\ p[w] = v0
    BY <1>1, Bounds DEF Init, v0
  <1>a. SettledAreNearest
    BY <1>2, <1>4, Bounds DEF SettledAreNearest
  <1>b. SettledAreRelaxed
    BY <1>2, <1>4, Bounds DEF SettledAreRelaxed
  <1>c. PathsAreTight
    BY <1>2, <1>4, Bounds DEF PathsAreTight
  <1>5. Cardinality(final) = 1 /\ i = 0
    BY FS_Singleton DEF Init
  <1>6. DistancesAreWalks
    <2> DEFINE t == Walks(v0)[0]
    <2>1. v0 \in V /\ Rounds = 1 /\ 1 \in 1..N /\ 1 - 1 = 0 /\ 0 \in 0..N
      BY <1>5, Bounds DEF Rounds
    <2>2. t = NoEdges(v0) /\ t \in Tables /\ Walks(v0)[1] = OneMore(t)
      BY <1>1, <2>1, WalksAre
    <2>3. t[v0] = 0
      BY <2>1, <2>2 DEF NoEdges
    <2> HIDE DEF t
    <2>4. ASSUME NEW w \in V PROVE OneMore(t)[w] <= D[w]
      <3>1. OneMore(t)[w] <= t[w] /\ OneMore(t)[w] <= t[v0] + edge[v0][w]
        BY <1>1, <2>1, <2>2, OneMoreIsLeast
      <3>2. CASE w = v0
        BY <1>2, <2>3, <3>1, <3>2
      <3>3. CASE w # v0
        BY <1>2, <1>4, <2>3, <3>1, <3>3
      <3> QED BY <3>2, <3>3
    <2> QED BY <2>1, <2>2, <2>4 DEF DistancesAreWalks
  <1> QED BY <1>2, <1>3, <1>a, <1>b, <1>c, <1>5, <1>6 DEF IInv, Init, Progress, v0

LEMMA SettleKeepsIInv ==
  ASSUME IInv, Settle
  PROVE  IInv'
  <1> DEFINE n == k'
  <1> USE Bounds
  <1>1. /\ edge \in [V -> [V -> 1..INFINITY]] /\ D \in [V -> 0..INFINITY]
        /\ p \in [V -> V] /\ final \subseteq V /\ i \in 0..N
    BY DEF IInv, TypeOK
  <1>2. /\ n \in V \ final /\ D[n] < INFINITY
        /\ \A w \in V \ final : D[n] <= D[w]
    BY <1>1 DEF Settle, Nearest, Open
  <1>3. final' = final \cup {n} /\ edge' = edge /\ i' = i + 1 /\ i < N
    BY DEF Settle
  <1>4. \A w \in V :
          /\ D'[w] = IF w \notin final' /\ D[n] + edge[n][w] < D[w]
                     THEN D[n] + edge[n][w] ELSE D[w]
          /\ p'[w] = IF w \notin final' /\ D[n] + edge[n][w] < D[w] THEN n ELSE p[w]
    BY DEF Settle, Relax
  <1>5. DOMAIN D' = V /\ DOMAIN p' = V /\ D' = [w \in V |-> D'[w]] /\ p' = [w \in V |-> p'[w]]
    BY DEF Settle, Relax
  <1>6. D' \in [V -> 0..INFINITY] /\ p' \in [V -> V]
    BY <1>1, <1>2, <1>4, <1>5
  <1>7. TypeOK'
    BY <1>1, <1>2, <1>3, <1>6 DEF TypeOK
  <1>8. \A w \in final' : D'[w] = D[w]
    BY <1>1, <1>2, <1>3, <1>4
  <1>9. SettledAreNearest'
    BY <1>1, <1>2, <1>3, <1>4, <1>8 DEF IInv, SettledAreNearest
  <1>10. SettledAreRelaxed'
    <2> SUFFICES ASSUME NEW u \in final', NEW w \in V
                 PROVE  D'[w] <= D'[u] + edge[u][w]
      BY <1>3 DEF SettledAreRelaxed
    <2>1. u \in V /\ edge[u][w] \in 1..INFINITY /\ D[w] \in 0..INFINITY /\ D[u] \in 0..INFINITY
      BY <1>1, <1>2, <1>3
    <2>2. D'[u] = D[u] /\ D'[w] <= D[w]
      BY <1>1, <1>2, <1>4, <1>8, <2>1
    <2>3. CASE u \in final
      BY <2>1, <2>2, <2>3, <1>6 DEF IInv, SettledAreRelaxed
    <2>4. CASE u = n /\ w \in final'
      BY <1>2, <1>3, <1>8, <2>1, <2>2, <2>4 DEF IInv, SettledAreNearest
    <2>5. CASE u = n /\ w \notin final'
      BY <1>1, <1>2, <1>4, <2>1, <2>2, <2>5
    <2> QED BY <1>3, <2>3, <2>4, <2>5
  <1>11. PathsAreTight'
    BY <1>1, <1>2, <1>3, <1>4, <1>8 DEF IInv, PathsAreTight
  <1>12. Progress'
    <2>1. IsFiniteSet(final)
      BY <1>1, FiniteVertices, FS_Subset
    <2>2. Cardinality(final') = Cardinality(final) + 1 /\ Cardinality(final) \in Nat
      BY <1>2, <1>3, <2>1, FS_AddElement, FS_CardinalityType
    <2>3. Open # {}
      BY <1>2 DEF Open
    <2> QED BY <1>1, <1>3, <2>2, <2>3 DEF IInv, Progress
  <1>13. DistancesAreWalks'
    <2>1. i + 1 < N
      <3>1. Cardinality(final) \in Nat /\ Cardinality(final) < N
        <4>1. IsFiniteSet(final) /\ Cardinality(final) <= N /\ final # V
          BY <1>1, <1>2, FiniteVertices, FS_Subset
        <4> QED BY <1>1, <4>1, FiniteVertices, FS_Subset, FS_CardinalityType
      <3>2. Open # {}
        BY <1>2 DEF Open
      <3> QED BY <1>1, <3>1, <3>2 DEF IInv, Progress
    <2> DEFINE t == Walks(v0)[i + 1]
    <2>2. i + 1 \in 0..N /\ i + 2 \in 1..N /\ i + 2 - 1 = i + 1 /\ Rounds = i + 1 /\ Rounds' = i + 2
      BY <1>1, <1>3, <2>1 DEF Rounds
    <2>3. t \in Tables /\ Walks(v0)[i + 2] = OneMore(t)
      BY <1>1, <2>2, WalksAre
    <2>4. Walks(v0)' = Walks(v0)
      BY <1>3 DEF Walks, OneMore
    <2>5. \A w \in V : t[w] <= D[w]
      BY <2>2 DEF IInv, DistancesAreWalks
    <2>6. /\ OneMore(t) \in Tables
          /\ \A w \in V : OneMore(t)[w] <= t[w] /\ OneMore(t)[w] <= t[n] + edge[n][w]
      BY <1>1, <1>2, <2>3, OneMoreIsLeast
    <2> HIDE DEF t
    <2>7. ASSUME NEW w \in V PROVE OneMore(t)[w] <= D'[w]
      <3>1. /\ t[w] \in Nat /\ t[n] \in Nat /\ OneMore(t)[w] \in Nat /\ edge[n][w] \in Nat
            /\ D[w] \in Nat /\ D[n] \in Nat
        BY <1>1, <1>2, <2>3, <2>6 DEF Tables
      <3>2. D'[w] = D[w] \/ D'[w] = D[n] + edge[n][w]
        BY <1>4
      <3> QED BY <1>2, <2>5, <2>6, <3>1, <3>2
    <2> QED BY <2>2, <2>3, <2>4, <2>7 DEF DistancesAreWalks
  <1> QED BY <1>2, <1>3, <1>7, <1>8, <1>9, <1>10, <1>11, <1>12, <1>13 DEF IInv

LEMMA SettleNothingKeepsIInv ==
  ASSUME IInv, SettleNothing
  PROVE  IInv'
  <1> USE Bounds
  <1>1. /\ edge \in [V -> [V -> 1..INFINITY]] /\ D \in [V -> 0..INFINITY]
        /\ p \in [V -> V] /\ final \subseteq V /\ k \in final /\ i \in 0..N
    BY DEF IInv, TypeOK
  <1>2. /\ final' = final /\ UNCHANGED <<edge, k>> /\ i' = i + 1 /\ i < N
    BY <1>1 DEF SettleNothing
  <1>3. \A w \in V : ~(INFINITY + edge[k][w] < D[w])
    BY <1>1
  <1>4. D' = D /\ p' = p
    BY <1>1, <1>3 DEF SettleNothing, Relax
  <1>5. Open' = {}
    BY <1>2, <1>4 DEF SettleNothing, Open
  <1>6. DistancesAreWalks'
    <2>1. Walks(v0)' = Walks(v0)
      BY <1>2 DEF Walks, OneMore
    <2>2. Rounds' = Rounds \/ (Rounds' = Rounds + 1 /\ Rounds \in 0..(N - 1))
      BY <1>1, <1>2 DEF Rounds
    <2>3. CASE Rounds' = Rounds
      BY <1>4, <2>1, <2>3 DEF IInv, DistancesAreWalks
    <2>4. CASE Rounds' = Rounds + 1 /\ Rounds \in 0..(N - 1)
      <3> DEFINE t == Walks(v0)[Rounds]
      <3>1. t \in Tables /\ Walks(v0)[Rounds + 1] = OneMore(t)
        BY <1>1, <2>4, WalksAre
      <3>2. OneMore(t) \in Tables /\ \A w \in V : OneMore(t)[w] <= t[w] /\ t[w] <= D[w]
        BY <1>1, <3>1, OneMoreIsLeast DEF IInv, DistancesAreWalks
      <3> HIDE DEF t
      <3>3. \A w \in V : OneMore(t)[w] <= D[w]
        BY <1>1, <3>1, <3>2 DEF Tables
      <3> QED BY <1>4, <2>1, <2>4, <3>1, <3>3 DEF DistancesAreWalks
    <2> QED BY <2>2, <2>3, <2>4
  <1> QED BY <1>1, <1>2, <1>4, <1>5, <1>6 DEF IInv, TypeOK, SettledAreNearest, SettledAreRelaxed,
                                        PathsAreTight, Progress

LEMMA SpecKeepsIInv == Spec => []IInv
  <1>1. IInv /\ UNCHANGED vars => IInv'
    <2> SUFFICES ASSUME IInv, UNCHANGED vars PROVE IInv'
      OBVIOUS
    <2>1. DistancesAreWalks'
      <3>1. Walks(v0)' = Walks(v0) /\ Rounds' = Rounds /\ D' = D
        BY DEF vars, Walks, OneMore, Rounds
      <3> QED BY <3>1 DEF IInv, DistancesAreWalks
    <2> QED BY <2>1 DEF vars, IInv, TypeOK, SettledAreNearest, SettledAreRelaxed, PathsAreTight,
                        Progress, Open
  <1>2. IInv /\ [Next]_vars => IInv'
    BY <1>1, SettleKeepsIInv, SettleNothingKeepsIInv DEF Next
  <1> QED BY InitIInv, <1>2, PTL DEF Spec

-----------------------------------------------------------------------------

\* The tables stay in their types: no sum with INFINITY is ever stored.
THEOREM TypeCorrect == Spec => []TypeOK
  BY SpecKeepsIInv, PTL DEF IInv

\* The greedy choice is right: what is settled is nearer than what is not.
THEOREM SettledNearest == Spec => []SettledAreNearest
  BY SpecKeepsIInv, PTL DEF IInv

\* Every distance is the length of a path: along p, back to v0.
THEOREM Tight == Spec => []PathsAreTight
  BY SpecKeepsIInv, PTL DEF IInv

\* N rounds suffice.
LEMMA AllRelaxed == IInv => NothingToRelax
  <1> SUFFICES ASSUME IInv, i = N, NEW u \in V, NEW w \in V, D[u] < INFINITY
               PROVE  D[w] <= D[u] + edge[u][w]
    BY DEF NothingToRelax
  <1>1. Cardinality(final) <= N
    BY FiniteVertices, FS_Subset DEF IInv, TypeOK
  <1>2. Cardinality(final) \in Nat
    BY FiniteVertices, FS_Subset, FS_CardinalityType DEF IInv, TypeOK
  <1>3. Open = {}
    BY <1>1, <1>2, Bounds DEF IInv, Progress
  <1>4. u \in final
    BY <1>3 DEF Open
  <1> QED BY <1>4 DEF IInv, SettledAreRelaxed

\* At the end no edge offers a shorter way.
THEOREM FixedPoint == Spec => []NothingToRelax
  BY AllRelaxed, SpecKeepsIInv, PTL

\* No walk is shorter than the distance, once no edge offers a shorter way.
LEMMA WalksAreNotShorter ==
  ASSUME IInv, i = N
  PROVE  \A n \in 0..N : \A w \in V : D[w] <= Walks(v0)[n][w]
  <1> DEFINE d == Walks(v0)
             S == {n \in 0..N : \A w \in V : D[w] <= d[n][w]}
  <1>1. edge \in [V -> [V -> 1..INFINITY]] /\ D \in [V -> 0..INFINITY] /\ D[v0] = 0
    BY DEF IInv, TypeOK
  <1>2. /\ d \in [0..N -> Tables] /\ d[0] = NoEdges(v0)
        /\ \A n \in 1..N : d[n] = OneMore(d[n - 1])
    BY <1>1, Bounds, WalksAre
  <1>3. 0 \in S
    <2>1. \A w \in V : d[0][w] = IF w = v0 THEN 0 ELSE INFINITY
      BY <1>2 DEF NoEdges
    <2>2. \A w \in V : D[w] <= d[0][w]
      BY <1>1, <2>1, Bounds
    <2> QED BY <2>2, Bounds
  <1>4. ASSUME NEW n \in 0..(N - 1), n \in S PROVE n + 1 \in S
    <2> DEFINE t == d[n]
    <2>1. t \in Tables /\ \A w \in V : D[w] <= t[w]
      BY <1>2, <1>4, Bounds
    <2>2. n + 1 \in 1..N /\ d[n + 1] = OneMore(t)
      BY <1>2, Bounds
    <2> HIDE DEF t
    <2>3. ASSUME NEW w \in V PROVE D[w] <= OneMore(t)[w]
      <3>1. CASE OneMore(t)[w] = t[w]
        BY <2>1, <3>1
      <3>2. ASSUME NEW u \in V, OneMore(t)[w] = t[u] + edge[u][w] PROVE D[w] <= OneMore(t)[w]
        <4>1. t[u] \in Nat /\ edge[u][w] \in Nat /\ D[u] \in 0..INFINITY /\ D[w] \in 0..INFINITY
          BY <1>1, <2>1, Bounds DEF Tables
        <4>2. D[u] < INFINITY => D[w] <= D[u] + edge[u][w]
          BY AllRelaxed DEF NothingToRelax
        <4> QED BY <2>1, <3>2, <4>1, <4>2, Bounds
      <3> QED BY <1>1, <2>1, <3>1, <3>2, OneMoreIsLeast
    <2> QED BY <2>2, <2>3, Bounds
  <1>5. 0..N \subseteq S
    <2> HIDE DEF S
    <2> QED BY <1>3, <1>4, Bounds, InductionUpTo
  <1> QED BY <1>5

\* What getGain reads as the cost of a node is the shortest distance from the
\* first vertex of graph.txt: every other walk is at least as long.
THEOREM Shortest == Spec => []ShortestFromV0
  <1>1. IInv => ShortestFromV0
    <2> SUFFICES ASSUME IInv, i = N PROVE D = Dist(v0)
      BY DEF ShortestFromV0
    <2>1. edge \in [V -> [V -> 1..INFINITY]] /\ D \in [V -> 0..INFINITY]
      BY DEF IInv, TypeOK
    <2>2. Dist(v0) \in [V -> 0..INFINITY]
      <3>1. N \in 0..N /\ v0 \in V
        BY Bounds
      <3>2. Walks(v0) \in [0..N -> Tables]
        BY <2>1, <3>1, WalksAre
      <3> QED BY <3>1, <3>2 DEF Dist, Tables
    <2>3. \A w \in V : Dist(v0)[w] <= D[w]
      BY Bounds DEF IInv, DistancesAreWalks, Rounds, Dist
    <2>4. \A w \in V : D[w] <= Dist(v0)[w]
      BY Bounds, WalksAreNotShorter DEF Dist
    <2>5. ASSUME NEW w \in V PROVE D[w] = Dist(v0)[w]
      <3>1. D[w] \in 0..INFINITY /\ Dist(v0)[w] \in 0..INFINITY
        BY <2>1, <2>2
      <3>2. D[w] <= Dist(v0)[w] /\ Dist(v0)[w] <= D[w]
        BY <2>3, <2>4
      <3> QED BY <3>1, <3>2, Bounds
    <2> QED BY <2>1, <2>2, <2>5
  <1> QED BY <1>1, SpecKeepsIInv, PTL
=============================================================================
