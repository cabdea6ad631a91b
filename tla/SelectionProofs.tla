-------------------------- MODULE SelectionProofs --------------------------
(***************************************************************************)
(* Proofs about Selection, for every topology of any size, every vertex as *)
(* this node's, and every reading in tenths.                               *)
(***************************************************************************)
EXTENDS Selection, FiniteSetTheorems, TLAPS

\* The candidates that the loop of this phase has left behind.
Seen == {u \in Candidates : n = NULL \/ u < n}

\* What the choice rests on: candidates are peers below the limits, and as
\* long as the file is read all of them precede its position.
CandidatesInv ==
  /\ Candidates \subseteq Peers
  /\ \A v \in Candidates : PassesLimits(value[v])
  /\ phase = "nodes" => \A v \in Candidates : v < at

\* The pointer of a loop is on the list or has left it at its end, and the
\* loops that count have counted what they left behind.
WalkInv ==
  /\ phase \in {"benefit", "gain", "scan"} => n \in Candidates \cup {NULL}
  /\ phase \in {"gain", "scan"} => at = Cardinality(Seen)

\* Benefits and gains are computed as the loops pass.
GainInv ==
  /\ phase = "benefit" =>
       \A u \in Seen : benefit[u] = StandardCalculate(value[u])
  /\ phase \in {"paths", "gain", "scan"} =>
       \A u \in Candidates : benefit[u] = StandardCalculate(value[u])
  /\ phase = "gain" => \A u \in Seen : gain[u] = Total(u)
  /\ phase = "scan" => \A u \in Candidates : gain[u] = Total(u)

\* best is the first of least gain among the nodes seen.
Least(S) == \A u \in S : gain[best] < gain[u] \/ (gain[best] = gain[u] /\ best <= u)

BestInv ==
  phase = "scan" =>
    IF Candidates = {} THEN best = NULL
    ELSE best \in Seen \cup {head} /\ best # NULL /\ Least(Seen)

\* getGraph runs between the benefits and the paths.
FilledInv ==
  /\ phase \in {"nodes", "benefit", "garbage"} => ~filled
  /\ phase \in {"paths", "gain", "scan"} => filled
  /\ filled => N <= Paths!MAX_VERTEX_NUM

IInv == /\ TypeOK /\ k \in V
        /\ ListIsOrdered /\ CandidatesInv /\ WalkInv /\ GainInv /\ BestInv
        /\ FilledInv /\ NothingDeleted /\ CrashesOnlyWithoutCandidate /\ BestHasLeastGain

-----------------------------------------------------------------------------

LEMMA Bounds == /\ N \in Nat /\ N >= 1 /\ V = 0..(N - 1) /\ V \subseteq Int
                /\ NULL \notin V /\ Local \in V /\ Peers \subseteq V
  <1>1. N \in Nat /\ N # 0 /\ Local \in V
    BY SelectionAssumption
  <1>2. V = 0..(N - 1)
    BY DEF V, Paths!V
  <1>3. N \in Nat /\ N >= 1 /\ V \subseteq Int
    BY <1>1, <1>2
  <1>4. NULL \notin V /\ Peers \subseteq V
    BY SelectionAssumption DEF Peers
  <1> QED BY <1>1, <1>2, <1>3, <1>4

\* (The numerals of this lemma are for the SMT solver only.)
LEMMA Numbers == UNIT \in Nat /\ UNIT >= 3 /\ Paths!INFINITY \in Nat
  <1>1. UNIT \in Nat /\ UNIT >= 3
    BY SMT DEF UNIT
  <1>2. Paths!INFINITY \in Nat
    BY SMT DEF Paths!INFINITY
  <1> QED BY <1>1, <1>2

LEMMA GraphsTyped == /\ Paths!v0 \in V
                     /\ \A g \in Graphs : g \in [V -> [V -> 1..Paths!INFINITY]]
  <1>1. \A g \in Graphs : Paths!Topology(g)
    BY SelectionAssumption
  <1>2. \A g \in Graphs : g \in [V -> [V -> 1..Paths!INFINITY]]
    BY <1>1 DEF V, Paths!Topology
  <1>3. Paths!v0 \in V
    BY Bounds DEF Paths!v0
  <1> QED BY <1>2, <1>3

LEMMA FiniteCandidates == IsFiniteSet(Candidates) /\ Candidates \subseteq V
  <1>1. N - 1 \in Int /\ 0 \in Int /\ V = 0..(N - 1)
    BY Bounds
  <1>2. IsFiniteSet(V)
    BY <1>1, FS_Interval
  <1> QED BY <1>2, FS_Subset DEF Candidates

\* standardCalculate gives every peer below the limits a positive benefit, of
\* at most 9: in tenths of usage it is 2 * (13 - f) / (f * f + 4) with f
\* the difference of CPU and memory usage.
LEMMA BenefitRange ==
  ASSUME NEW r \in Reading, PassesLimits(r)
  PROVE  StandardCalculate(r) \in 1..(9 * UNIT)
  <1> DEFINE f == r.computing - r.store
             g == f * f
  <1>1. f \in -5..5 /\ r.computing \in Nat /\ r.store \in Nat
    BY DEF Reading, PassesLimits
  <1>2. /\ 2 * r.computing - (r.computing + r.store) = f
        /\ 2 * r.store - (r.computing + r.store) = 0 - f
        /\ 2 * r.computing + 4 - (r.computing + r.store) = f + 4
        /\ 2 * r.store + 6 - (r.computing + r.store) = 6 - f
    BY <1>1
  <1>3. /\ (0 - f) * (0 - f) = g /\ (f + 4) * (f + 4) = g + 8 * f + 16
        /\ (6 - f) * (6 - f) = g - 12 * f + 36
    BY <1>1
  <1>4. \/ g = 0 \/ g = 1 \/ g = 4 \/ g = 9 \/ g = 16 \/ g = 25
    <2>1. \/ f = -5 \/ f = -4 \/ f = -3 \/ f = -2 \/ f = -1 \/ f = 0
          \/ f = 1 \/ f = 2 \/ f = 3 \/ f = 4 \/ f = 5
      BY <1>1
    <2> QED BY <2>1
  <1>5. StandardCalculate(r) = (UNIT * ((g + 8 * f + 16 + (g - 12 * f + 36)) \div 2
                                          - (g + g) \div 2)) \div ((g + g) \div 2 + 4)
    BY <1>2, <1>3 DEF StandardCalculate
  <1> HIDE DEF f, g
  <1>6. /\ (g + g) \div 2 = g
        /\ (g + 8 * f + 16 + (g - 12 * f + 36)) \div 2 = g - 2 * f + 26
    BY <1>1, <1>4
  <1>7. StandardCalculate(r) = (UNIT * (26 - 2 * f)) \div (g + 4)
    BY <1>1, <1>4, <1>5, <1>6
  <1> DEFINE a == UNIT * (26 - 2 * f)
  <1>8. a \in (16 * UNIT)..(36 * UNIT)
    <2>1. \/ f = -5 \/ f = -4 \/ f = -3 \/ f = -2 \/ f = -1 \/ f = 0
          \/ f = 1 \/ f = 2 \/ f = 3 \/ f = 4 \/ f = 5
      BY <1>1
    <2> QED BY <2>1, Numbers
  <1> HIDE DEF a
  <1>9. \A h \in {4, 5, 8, 13, 20, 29} : a \div h \in 1..(9 * UNIT)
    BY <1>8, Numbers
  <1>10. g + 4 \in {4, 5, 8, 13, 20, 29}
    BY <1>4
  <1> QED BY <1>7, <1>9, <1>10 DEF a

-----------------------------------------------------------------------------
(* One step along the list.                                                *)

LEMMA StartOfList ==
  ASSUME IInv, n' = head, UNCHANGED value
  PROVE  /\ Seen' = {} /\ Cardinality(Seen') = 0
         /\ n' \in Candidates \cup {NULL}
         /\ n' = NULL <=> Candidates = {}
  <1>1. Candidates' = Candidates
    BY DEF Candidates
  <1>2. \A u \in Candidates : u \in Int /\ u # NULL
    BY FiniteCandidates, Bounds
  <1>3. head = NULL \/ (head \in Candidates /\ \A u \in Candidates : head <= u)
    BY DEF IInv, ListIsOrdered
  <1>4. Candidates # {} => head # NULL
    BY DEF IInv, ListIsOrdered
  <1>5. Seen' = {}
    BY <1>1, <1>2, <1>3, <1>4 DEF Seen
  <1> QED BY <1>1, <1>2, <1>3, <1>4, <1>5, FS_EmptySet

LEMMA StepOnList ==
  ASSUME IInv, n \in Candidates, n' = next[n], UNCHANGED value
  PROVE  /\ Seen' = Seen \cup {n} /\ n \notin Seen
         /\ Cardinality(Seen') = Cardinality(Seen) + 1
         /\ n' \in Candidates \cup {NULL}
  <1>1. Candidates' = Candidates
    BY DEF Candidates
  <1>2. \A u \in Candidates : u \in Int /\ u # NULL
    BY FiniteCandidates, Bounds
  <1>3. \/ n = tail /\ next[n] = NULL
        \/ Follows(n, next[n])
    BY DEF IInv, ListIsOrdered
  <1>4. tail = NULL \/ \A u \in Candidates : u <= tail
    BY DEF IInv, ListIsOrdered
  <1>5. n \notin Seen
    BY <1>2 DEF Seen
  <1>6. Seen' = Seen \cup {n} /\ n' \in Candidates \cup {NULL}
    <2>1. CASE n = tail /\ next[n] = NULL
      BY <2>1, <1>1, <1>2, <1>4 DEF Seen
    <2>2. CASE Follows(n, next[n])
      BY <2>2, <1>1, <1>2 DEF Seen, Follows
    <2> QED BY <1>3, <2>1, <2>2
  <1>7. IsFiniteSet(Seen)
    BY FiniteCandidates, FS_Subset DEF Seen
  <1> QED BY <1>5, <1>6, <1>7, FS_AddElement

\* A loop that has counted as many nodes as there are has seen them all.
LEMMA AllSeen ==
  ASSUME IInv, phase \in {"gain", "scan"}
  PROVE  /\ at = count <=> Seen = Candidates
         /\ at < count => n # NULL
         /\ Seen \subseteq Candidates
  <1>1. at = Cardinality(Seen) /\ count = Cardinality(Candidates)
    BY DEF IInv, WalkInv, ListIsOrdered
  <1>2. Seen \subseteq Candidates
    BY DEF Seen
  <1>3. /\ IsFiniteSet(Seen) /\ Cardinality(Seen) <= Cardinality(Candidates)
        /\ Cardinality(Candidates) = Cardinality(Seen) => Candidates = Seen
    BY <1>2, FiniteCandidates, FS_Subset
  <1>4. Cardinality(Candidates) \in Nat /\ Cardinality(Seen) \in Nat
    BY <1>3, FiniteCandidates, FS_CardinalityType
  <1>5. n = NULL => Seen = Candidates
    BY DEF Seen
  <1> QED BY <1>1, <1>2, <1>3, <1>4, <1>5

-----------------------------------------------------------------------------
(* The invariant is preserved.                                             *)

LEMMA InitIInv == Init => IInv
  <1> SUFFICES ASSUME Init PROVE IInv
    OBVIOUS
  <1>1. Candidates = {} /\ Cardinality(Candidates) = 0
    BY FS_EmptySet DEF Candidates, Init
  <1>2. edge \in [V -> [V -> 1..Paths!INFINITY]] /\ D = [edge[Paths!v0] EXCEPT ![Paths!v0] = 0]
    BY GraphsTyped DEF Init, Paths!Init
  <1>3. D \in [V -> 0..Paths!INFINITY]
    BY <1>2, GraphsTyped, Numbers
  <1>4. k \in V
    BY Bounds DEF Init, Paths!Init
  <1>5. TypeOK
    <2>1. /\ phase = "nodes" /\ at = 0 /\ count = 0 /\ filled = FALSE
          /\ n = NULL /\ head = NULL /\ tail = NULL /\ best = NULL
          /\ next = [v \in V |-> NULL] /\ prior = [v \in V |-> NULL]
          /\ value = [v \in V |-> NULL]
          /\ benefit = [v \in V |-> 0] /\ gain = [v \in V |-> 0]
      BY DEF Init
    <2>2. filled \in BOOLEAN
      BY <2>1
    <2> QED BY <2>1, <2>2, <1>2, <1>3, Bounds DEF TypeOK, Link
  <1>6. FilledInv
    BY DEF Init, FilledInv
  <1>7. ListIsOrdered /\ CandidatesInv
    BY <1>1 DEF Init, ListIsOrdered, CandidatesInv
  <1>8. WalkInv /\ GainInv /\ BestInv
    BY <1>1 DEF Init, WalkInv, GainInv, BestInv, Seen
  <1>9. NothingDeleted /\ CrashesOnlyWithoutCandidate /\ BestHasLeastGain
    BY DEF Init, NothingDeleted, CrashesOnlyWithoutCandidate, BestHasLeastGain
  <1> QED BY <1>4, <1>5, <1>6, <1>7, <1>8, <1>9 DEF IInv

\* A peer at the position of the file is put at the end of the list.
LEMMA PushKeepsOrder ==
  ASSUME IInv, at \in V, \A v \in Candidates : v < at, NEW r \in Reading,
         Push(at), value' = [value EXCEPT ![at] = r]
  PROVE  Candidates' = Candidates \cup {at} /\ ListIsOrdered'
  <1>1. /\ value \in [V -> Reading \cup {NULL}] /\ next \in [V -> Link] /\ prior \in [V -> Link]
    BY DEF IInv, TypeOK
  <1>2. r # NULL
    BY SelectionAssumption
  <1>3. Candidates' = Candidates \cup {at} /\ at \in Int /\ at \notin Candidates
    BY <1>1, <1>2, Bounds DEF Candidates
  <1>4. \A v \in Candidates : v \in Int /\ v \in V /\ v # NULL /\ v # at
    BY <1>3, FiniteCandidates, Bounds
  <1>5. count' = Cardinality(Candidates')
    BY <1>3, FiniteCandidates, FS_AddElement DEF IInv, ListIsOrdered, Push
  <1>6. tail' = at /\ at # NULL
    BY Bounds DEF Push
  <1>7. CASE tail = NULL
    <2>1. Candidates = {} /\ Candidates' = {at}
      BY <1>3, <1>7 DEF IInv, ListIsOrdered
    <2>2. head' = at /\ next'[at] = NULL /\ prior'[at] = NULL
      BY <1>1, <1>7 DEF Push
    <2> QED BY <1>3, <1>5, <1>6, <2>1, <2>2 DEF ListIsOrdered
  <1>8. CASE tail # NULL
    <2>1. /\ tail \in Candidates /\ \A u \in Candidates : u <= tail
          /\ head \in Candidates /\ \A u \in Candidates : head <= u
          /\ \A v \in Candidates :
               /\ IF v = tail THEN next[v] = NULL ELSE Follows(v, next[v])
               /\ IF v = head THEN prior[v] = NULL ELSE Follows(prior[v], v)
      BY <1>8 DEF IInv, ListIsOrdered
    <2>2. /\ head' = head /\ next'[at] = NULL /\ next'[tail] = at /\ prior'[at] = tail
          /\ \A v \in Candidates : v # tail => next'[v] = next[v]
          /\ \A v \in Candidates : prior'[v] = prior[v]
      BY <1>1, <1>4, <1>8, <2>1 DEF Push
    <2> DEFINE F(v, w) == /\ v \in Candidates' /\ w \in Candidates' /\ v < w
                          /\ \A u \in Candidates' : u <= v \/ w <= u
    <2>3. F(tail, at)
      BY <1>3, <1>4, <2>1
    <2>4. \A v, w \in Candidates : Follows(v, w) => F(v, w)
      BY <1>3, <1>4 DEF Follows
    <2>5. \A v \in Candidates :
            /\ F(v, next'[v])
            /\ IF v = head THEN prior'[v] = NULL ELSE F(prior'[v], v)
      <3> TAKE v \in Candidates
      <3>1. F(v, next'[v])
        <4>1. CASE v = tail
          BY <4>1, <2>2, <2>3
        <4>2. CASE v # tail
          BY <4>2, <2>1, <2>2, <2>4 DEF Follows
        <4> QED BY <4>1, <4>2
      <3>2. IF v = head THEN prior'[v] = NULL ELSE F(prior'[v], v)
        BY <2>1, <2>2, <2>4 DEF Follows
      <3> QED BY <3>1, <3>2
    <2>6. \A u \in Candidates' : head <= u /\ u <= at
      BY <1>3, <1>4, <2>1
    <2>7. at # head
      BY <1>4, <2>1
    <2>8. \A v \in Candidates' :
            /\ IF v = tail' THEN next'[v] = NULL ELSE F(v, next'[v])
            /\ IF v = head' THEN prior'[v] = NULL ELSE F(prior'[v], v)
      BY <1>3, <1>4, <1>6, <2>2, <2>3, <2>5, <2>7
    <2>9. /\ head' \in Candidates' /\ tail' \in Candidates'
          /\ tail' # NULL /\ head' # NULL
      BY <1>3, <1>4, <1>6, <2>1, <2>2
    <2>10. (\A v \in Candidates :
              /\ IF v = tail THEN next[v] = NULL ELSE Follows(v, next[v])
              /\ IF v = head THEN prior[v] = NULL ELSE Follows(prior[v], v))'
      BY ONLY <2>8 DEF Follows, F
    <2>11. (/\ head = NULL \/ (head \in Candidates /\ \A u \in Candidates : head <= u)
            /\ tail = NULL \/ (tail \in Candidates /\ \A u \in Candidates : u <= tail)
            /\ Candidates # {} => head # NULL /\ tail # NULL)'
      BY <2>2, <2>6, <2>9, <1>6
    <2>12. (count = Cardinality(Candidates))'
      BY <1>5
    <2> QED BY ONLY <1>3, <2>10, <2>11, <2>12 DEF ListIsOrdered
  <1> QED BY <1>3, <1>7, <1>8

\* The steps that leave the list alone: what the invariant says of it, and of
\* the selection's result, carries over.
LEMMA ListUntouched ==
  ASSUME IInv, UNCHANGED global
  PROVE  /\ ListIsOrdered' /\ Candidates' = Candidates
         /\ Candidates' \subseteq Peers /\ \A v \in Candidates' : PassesLimits(value'[v])
         /\ \A v \in Candidates : value[v] \in Reading /\ v \in V
  <1>1. Candidates' = Candidates
    BY DEF global, Candidates
  <1>2. ListIsOrdered'
    BY <1>1 DEF IInv, ListIsOrdered, Follows, global
  <1>3. \A v \in Candidates : value[v] \in Reading /\ v \in V
    BY DEF IInv, TypeOK, Candidates
  <1> QED BY <1>1, <1>2, <1>3 DEF IInv, CandidatesInv, global

LEMMA ReadPeerStep ==
  ASSUME IInv, ReadPeer
  PROVE  IInv'
  <1>1. at \in V /\ at' = at + 1 /\ at' \in 0..N /\ phase = "nodes" /\ phase' = "nodes"
    BY Bounds DEF IInv, TypeOK, ReadPeer
  <1>2. \A v \in Candidates : v < at /\ v \in Int
    BY <1>1, FiniteCandidates, Bounds DEF IInv, CandidatesInv
  <1>3. UNCHANGED <<n, filled, benefit, gain, best, edge, D, k>>
    BY DEF ReadPeer, paths
  <1>6. \A v \in Candidates \cup {at} : v < at'
    BY <1>1, <1>2, Bounds
  <1>4. CASE UNCHANGED global
    <2>1. TypeOK'
      BY <1>1, <1>3, <1>4 DEF IInv, TypeOK, global
    <2>2. CandidatesInv'
      <3>1. /\ Candidates' = Candidates /\ Candidates' \subseteq Peers
            /\ \A v \in Candidates' : PassesLimits(value'[v])
        BY <1>4, ListUntouched
      <3>2. (\A v \in Candidates : PassesLimits(value[v]))'
        BY <3>1
      <3>3. (\A v \in Candidates : v < at)'
        BY <3>1, <1>6
      <3> QED BY ONLY <3>1, <3>2, <3>3 DEF CandidatesInv
    <2> QED BY <1>1, <1>3, <1>4, <2>1, <2>2, ListUntouched DEF IInv, WalkInv, GainInv,
              BestInv, FilledInv, NothingDeleted, CrashesOnlyWithoutCandidate, BestHasLeastGain
  <1>5. CASE \E r \in Readings : /\ at # Local /\ PassesLimits(r)
                                 /\ Push(at) /\ value' = [value EXCEPT ![at] = r]
    <2> PICK r \in Reading : /\ at # Local /\ PassesLimits(r)
                             /\ Push(at) /\ value' = [value EXCEPT ![at] = r]
      BY <1>5, SelectionAssumption
    <2>1. Candidates' = Candidates \cup {at} /\ ListIsOrdered'
      BY <1>1, <1>2, PushKeepsOrder
    <2>2. value \in [V -> Reading \cup {NULL}] /\ at \in Peers
      BY <1>1 DEF IInv, TypeOK, Peers
    <2>3. CandidatesInv'
      <3>1. Candidates \subseteq Peers /\ \A v \in Candidates : PassesLimits(value[v])
        BY DEF IInv, CandidatesInv
      <3>2. (Candidates \subseteq Peers)'
        BY <2>1, <2>2, <3>1 DEF Peers
      <3>3. \A v \in Candidates \cup {at} : PassesLimits(value'[v])
        <4>1. \A v \in Candidates : value'[v] = value[v] /\ v # at
          BY <1>2, <1>1, <2>2, FiniteCandidates, Bounds
        <4>2. value'[at] = r
          BY <1>1, <2>2
        <4> QED BY <3>1, <4>1, <4>2
      <3>4. (\A v \in Candidates : PassesLimits(value[v]))'
        BY <2>1, <3>3
      <3>5. (\A v \in Candidates : v < at)'
        BY <2>1, <1>6
      <3> QED BY ONLY <3>2, <3>4, <3>5 DEF CandidatesInv
    <2>4. count' \in 0..N
      <3>1. N - 1 \in Int /\ 0 \in Int /\ V = 0..(N - 1) /\ N - 1 - 0 + 1 = N /\ 0 <= N - 1
        BY Bounds
      <3>2. Cardinality(V) = N /\ IsFiniteSet(V)
        <4>1. N \in Nat /\ ~(0 > N - 1)
          BY Bounds
        <4> QED BY ONLY <3>1, <4>1, FS_Interval
      <3>4. Candidates' \subseteq V
        BY <2>1, <1>1, FiniteCandidates
      <3>3. Cardinality(Candidates') <= N /\ Cardinality(Candidates') \in Nat
        BY <3>2, <3>4, FS_Subset, FS_CardinalityType
      <3> QED BY <2>1, <3>3, Bounds DEF ListIsOrdered
    <2>5. TypeOK'
      BY <1>1, <1>3, <2>2, <2>4 DEF IInv, TypeOK, Push, Link
    <2> QED BY <1>1, <1>3, <2>1, <2>3, <2>5 DEF IInv, WalkInv, GainInv,
              BestInv, FilledInv, NothingDeleted, CrashesOnlyWithoutCandidate, BestHasLeastGain
  <1> QED BY <1>4, <1>5 DEF ReadPeer

LEMMA BenefitStep ==
  ASSUME IInv, Benefit
  PROVE  IInv'
  <1>1. UNCHANGED global /\ UNCHANGED <<at, filled, gain, best, edge, D, k>>
    BY DEF Benefit, paths
  <1>2. n \in Candidates /\ n # NULL /\ phase = "benefit"
    BY DEF Benefit, IInv, WalkInv
  <1>3. value[n] \in Reading /\ PassesLimits(value[n]) /\ n \in V
    BY <1>1, <1>2, ListUntouched DEF IInv, CandidatesInv
  <1>4. StandardCalculate(value[n]) \in Int /\ StandardCalculate(value[n]) > 0
    BY <1>3, BenefitRange, Numbers
  <1>5. benefit' = [benefit EXCEPT ![n] = StandardCalculate(value[n])] /\ benefit \in [V -> Int]
    BY DEF Benefit, IInv, TypeOK
  <1>6. n' = next[n] /\ phase' = "benefit"
    BY <1>2, <1>3, <1>4, <1>5 DEF Benefit
  <1>7. Seen' = Seen \cup {n} /\ n' \in Candidates \cup {NULL}
    BY <1>1, <1>2, <1>6, StepOnList DEF global
  <1>8. Seen \subseteq V
    BY FiniteCandidates DEF Seen
  <1>9. GainInv'
    BY <1>1, <1>2, <1>3, <1>5, <1>6, <1>7, <1>8 DEF IInv, GainInv, global
  <1>10. TypeOK'
    BY <1>1, <1>3, <1>4, <1>5, <1>6, <1>7 DEF IInv, TypeOK, CandidatesInv, Link, global
  <1>11. FilledInv'
    BY <1>1, <1>2, <1>6 DEF IInv, FilledInv
  <1> QED BY <1>1, <1>6, <1>7, <1>9, <1>10, <1>11, ListUntouched DEF IInv, CandidatesInv,
            WalkInv, BestInv, NothingDeleted, CrashesOnlyWithoutCandidate, BestHasLeastGain

\* The steps that touch neither the list nor what is computed from it.
LEMMA ChangeOfPhase ==
  ASSUME IInv, UNCHANGED <<global, benefit, gain>>, UNCHANGED <<edge, D, k>>,
         at' \in 0..N, n' \in Link, best' \in Link,
         phase' \in {"benefit", "paths", "garbage", "gain", "scan", "chosen", "crashed",
                     "thrown"},
         filled' \in BOOLEAN, WalkInv', GainInv', BestInv', FilledInv',
         CrashesOnlyWithoutCandidate', BestHasLeastGain'
  PROVE  IInv'
  <1>1. TypeOK'
    BY DEF IInv, TypeOK, global
  <1>2. CandidatesInv'
    <2>1. (/\ Candidates \subseteq Peers /\ \A v \in Candidates : PassesLimits(value[v]))'
      BY ListUntouched
    <2> QED BY <2>1 DEF CandidatesInv
  <1>3. (k \in V)' /\ ListIsOrdered' /\ NothingDeleted'
    BY ListUntouched DEF IInv, NothingDeleted
  <1> QED BY <1>1, <1>2, <1>3 DEF IInv

LEMMA EtcdThrowsStep ==
  ASSUME IInv, EtcdThrows
  PROVE  IInv'
  <1>1. /\ UNCHANGED <<at, n, global, filled, benefit, gain, best, edge, D, k>>
        /\ phase = "nodes" /\ phase' = "thrown"
    BY DEF EtcdThrows, paths
  <1>2. (CrashesOnlyWithoutCandidate /\ BestHasLeastGain)'
    BY <1>1 DEF CrashesOnlyWithoutCandidate, BestHasLeastGain
  <1>3. (WalkInv /\ GainInv /\ BestInv /\ FilledInv)'
    BY <1>1 DEF WalkInv, GainInv, BestInv, IInv, FilledInv
  <1> QED BY <1>1, <1>2, <1>3, ChangeOfPhase DEF IInv, TypeOK

LEMMA PeersReadStep ==
  ASSUME IInv, PeersRead \/ GraphUnreadable
  PROVE  IInv'
  <1>1. /\ UNCHANGED <<at, global, filled, benefit, gain, best, edge, D, k>>
        /\ phase = "nodes" /\ phase' = "benefit" /\ n' = head
    BY DEF PeersRead, GraphUnreadable, paths
  <1>2. Seen' = {} /\ Candidates' = Candidates /\ n' \in Candidates \cup {NULL}
    BY <1>1, StartOfList, ListUntouched DEF global
  <1>3. (WalkInv /\ GainInv /\ BestInv /\ FilledInv)'
    BY <1>1, <1>2 DEF WalkInv, GainInv, BestInv, IInv, FilledInv
  <1>4. (CrashesOnlyWithoutCandidate /\ BestHasLeastGain)'
    BY <1>1 DEF CrashesOnlyWithoutCandidate, BestHasLeastGain
  <1> QED BY <1>1, <1>3, <1>4, ChangeOfPhase DEF IInv, TypeOK

LEMMA BenefitsDoneStep ==
  ASSUME IInv, BenefitsDone \/ GraphNotFilled
  PROVE  IInv'
  <1>1. /\ UNCHANGED <<at, n, global, benefit, gain, best, edge, D, k>>
        /\ phase = "benefit" /\ n = NULL
        /\ \/ phase' = "paths" /\ filled' /\ N <= Paths!MAX_VERTEX_NUM
           \/ phase' = "garbage" /\ ~filled'
        /\ filled' \in BOOLEAN
    <2>1. CASE BenefitsDone
      BY <2>1 DEF BenefitsDone, paths
    <2>2. CASE GraphNotFilled
      <3>1. ~filled /\ filled' = filled /\ filled \in BOOLEAN
        BY <2>2 DEF GraphNotFilled, IInv, FilledInv, TypeOK
      <3>2. ~filled' /\ filled' \in BOOLEAN
        BY <3>1
      <3> QED BY <2>2, <3>2 DEF GraphNotFilled, paths
    <2> QED BY <2>1, <2>2
  <1>2. Seen = Candidates
    BY <1>1 DEF Seen
  <1>3. GainInv'
    BY <1>1, <1>2, ListUntouched DEF IInv, GainInv, global
  <1>4. (WalkInv /\ BestInv /\ CrashesOnlyWithoutCandidate /\ BestHasLeastGain)'
    BY <1>1 DEF WalkInv, BestInv, CrashesOnlyWithoutCandidate, BestHasLeastGain
  <1>5. FilledInv'
    BY <1>1 DEF FilledInv
  <1> QED BY <1>1, <1>3, <1>4, <1>5, ChangeOfPhase DEF IInv, TypeOK

\* A round of shortestPathDijkstra only writes its own tables, and keeps the
\* distances below INFINITY.
LEMMA ShortestPathsStep ==
  ASSUME IInv, ShortestPaths
  PROVE  IInv'
  <1>1. /\ UNCHANGED <<at, n, global, filled, benefit, gain, best>>
        /\ phase = "paths" /\ phase' = "paths"
    BY DEF ShortestPaths
  <1>2. /\ edge \in [V -> [V -> 1..Paths!INFINITY]] /\ D \in [V -> 0..Paths!INFINITY]
        /\ k \in V /\ V = Paths!V
    BY DEF IInv, TypeOK, V
  <1>3. edge' = edge /\ k' \in V /\ D' \in [V -> 0..Paths!INFINITY]
    <2> DEFINE Relaxed(m, min) == [w \in V |-> IF w \notin final' /\ min + edge[m][w] < D[w]
                                             THEN min + edge[m][w] ELSE D[w]]
    <2>1. \A m \in V, min \in 0..Paths!INFINITY : Relaxed(m, min) \in [V -> 0..Paths!INFINITY]
      BY <1>2, Numbers
    <2>2. CASE Paths!Settle
      <3>1. k' \in V /\ edge' = edge /\ D' = Relaxed(k', D[k'])
        BY <1>2, <2>2 DEF Paths!Settle, Paths!Nearest, Paths!Open, Paths!Relax
      <3> QED BY <1>2, <2>1, <3>1
    <2>3. CASE Paths!SettleNothing
      <3>1. k' = k /\ edge' = edge /\ D' = Relaxed(k, Paths!INFINITY)
        BY <1>2, <2>3 DEF Paths!SettleNothing, Paths!Relax
      <3> QED BY <1>2, <2>1, <3>1, Numbers
    <2> QED BY <2>2, <2>3 DEF ShortestPaths, Paths!Next
  <1>4. TypeOK'
    BY <1>1, <1>3 DEF IInv, TypeOK, global
  <1>5. CandidatesInv'
    BY <1>1, ListUntouched DEF CandidatesInv
  <1>6. GainInv'
    BY <1>1, ListUntouched DEF IInv, GainInv, global
  <1>7. (WalkInv /\ BestInv /\ FilledInv /\ CrashesOnlyWithoutCandidate
           /\ BestHasLeastGain /\ NothingDeleted)'
    BY <1>1 DEF IInv, WalkInv, BestInv, FilledInv, CrashesOnlyWithoutCandidate,
       BestHasLeastGain, NothingDeleted
  <1> QED BY <1>3, <1>4, <1>5, <1>6, <1>7, <1>1, ListUntouched DEF IInv

LEMMA PathsDoneStep ==
  ASSUME IInv, PathsDone
  PROVE  IInv'
  <1>1. /\ UNCHANGED <<global, filled, benefit, gain, best, edge, D, k>>
        /\ phase = "paths" /\ phase' = "gain" /\ n' = head /\ at' = 0
    BY DEF PathsDone, paths
  <1>2. /\ Seen' = {} /\ Cardinality(Seen') = 0 /\ Candidates' = Candidates
        /\ n' \in Candidates \cup {NULL}
    BY <1>1, StartOfList, ListUntouched DEF global
  <1>3. GainInv'
    BY <1>1, <1>2, ListUntouched DEF IInv, GainInv, global
  <1>4. WalkInv'
    BY <1>1, <1>2 DEF WalkInv
  <1>5. (BestInv /\ FilledInv /\ CrashesOnlyWithoutCandidate /\ BestHasLeastGain)'
    BY <1>1 DEF IInv, BestInv, FilledInv, CrashesOnlyWithoutCandidate, BestHasLeastGain
  <1>6. at' \in 0..N /\ n' \in Link /\ best' \in Link /\ filled' \in BOOLEAN
    BY <1>1, Bounds DEF IInv, TypeOK
  <1> QED BY <1>1, <1>3, <1>4, <1>5, <1>6, ChangeOfPhase

\* The sum that getGain stores is the one that bestNodeGet is to compare.
LEMMA GainOfCandidate ==
  ASSUME IInv, phase \in {"gain", "scan"}, NEW v \in Candidates
  PROVE  GainOf(v) = Total(v) /\ Total(v) \in Int /\ v \in V
  <1>1. benefit[v] = StandardCalculate(value[v]) /\ benefit[v] \in Int /\ v \in V
    BY FiniteCandidates DEF IInv, GainInv, TypeOK
  <1>2. D[v] \in Nat /\ UNIT * D[v] \in Int
    BY <1>1, Numbers DEF IInv, TypeOK
  <1> QED BY <1>1, <1>2 DEF GainOf, Total

LEMMA GainStep ==
  ASSUME IInv, Gain
  PROVE  IInv'
  <1>1. phase = "gain" /\ n \in Candidates /\ at < count
    BY AllSeen DEF Gain, IInv, WalkInv
  <1>2. n # NULL
    BY <1>1, AllSeen DEF Gain
  <1>3. /\ UNCHANGED <<global, filled, benefit, best, edge, D, k>>
        /\ phase' = "gain" /\ at' = at + 1 /\ n' = next[n]
        /\ gain' = [gain EXCEPT ![n] = GainOf(n)]
    BY <1>1, <1>2 DEF Gain, paths
  <1>4. /\ Seen' = Seen \cup {n} /\ Cardinality(Seen') = Cardinality(Seen) + 1
        /\ n' \in Candidates \cup {NULL} /\ Candidates' = Candidates
    BY <1>1, <1>3, StepOnList, ListUntouched DEF global
  <1>5. GainOf(n) = Total(n) /\ GainOf(n) \in Int /\ n \in V /\ gain \in [V -> Int]
    BY <1>1, GainOfCandidate DEF IInv, TypeOK
  <1>6. Seen \subseteq V
    BY FiniteCandidates DEF Seen
  <1>8. GainInv'
    <2>1. (\A u \in Candidates : benefit[u] = StandardCalculate(value[u]))'
      BY <1>1, <1>3, <1>4 DEF IInv, GainInv, global
    <2>2. \A u \in Seen \cup {n} : gain'[u] = Total(u)
      BY <1>1, <1>3, <1>5, <1>6 DEF IInv, GainInv
    <2>3. (\A u \in Seen : gain[u] = Total(u))'
      BY <1>3, <1>4, <2>2 DEF Total, global
    <2> QED BY <1>3, <2>1, <2>3 DEF GainInv
  <1>9. WalkInv'
    BY <1>1, <1>3, <1>4 DEF IInv, WalkInv
  <1>10. TypeOK'
    <2>1. at' \in 0..N
      BY <1>1, <1>3, Bounds DEF IInv, TypeOK
    <2> QED BY <1>3, <1>4, <1>5, <2>1, ListUntouched DEF IInv, TypeOK, Link, global
  <1>11. CandidatesInv'
    <2>1. (/\ Candidates \subseteq Peers /\ \A v \in Candidates : PassesLimits(value[v]))'
      BY <1>3, ListUntouched
    <2> QED BY <1>3, <2>1 DEF CandidatesInv
  <1>12. (BestInv /\ FilledInv /\ CrashesOnlyWithoutCandidate /\ BestHasLeastGain
            /\ NothingDeleted)'
    BY <1>1, <1>3 DEF IInv, BestInv, FilledInv, CrashesOnlyWithoutCandidate,
       BestHasLeastGain, NothingDeleted
  <1>13. (k \in V)' /\ ListIsOrdered'
    BY <1>3, ListUntouched DEF IInv
  <1> QED BY <1>8, <1>9, <1>10, <1>11, <1>12, <1>13 DEF IInv

LEMMA GainsDoneStep ==
  ASSUME IInv, GainsDone
  PROVE  IInv'
  <1>1. /\ UNCHANGED <<global, filled, benefit, gain, edge, D, k>>
        /\ phase = "gain" /\ phase' = "scan" /\ at = count
        /\ n' = head /\ at' = 0 /\ best' = head
    BY DEF GainsDone, paths
  <1>2. /\ Seen' = {} /\ Cardinality(Seen') = 0 /\ Candidates' = Candidates
        /\ n' \in Candidates \cup {NULL} /\ (n' = NULL <=> Candidates = {})
    BY <1>1, StartOfList, ListUntouched DEF global
  <1>3. Seen = Candidates
    BY <1>1, AllSeen
  <1>4. GainInv'
    <2>1. (\A u \in Candidates : benefit[u] = StandardCalculate(value[u]))'
      BY <1>1, <1>2 DEF IInv, GainInv, global
    <2>2. (\A u \in Candidates : gain[u] = Total(u))'
      BY <1>1, <1>2, <1>3 DEF IInv, GainInv, Total, global
    <2> QED BY <1>1, <2>1, <2>2 DEF GainInv
  <1>5. WalkInv'
    BY <1>1, <1>2 DEF WalkInv
  <1>6. BestInv'
    <2>1. Seen' = {} /\ head' = n' /\ best' = n'
      BY <1>1, <1>2 DEF global
    <2>2. Least(Seen)'
      BY <2>1 DEF Least
    <2> QED BY <1>2, <2>1, <2>2 DEF BestInv
  <1>7. (FilledInv /\ CrashesOnlyWithoutCandidate /\ BestHasLeastGain)'
    BY <1>1 DEF IInv, FilledInv, CrashesOnlyWithoutCandidate, BestHasLeastGain
  <1>8. at' \in 0..N /\ n' \in Link /\ best' \in Link /\ filled' \in BOOLEAN
    BY <1>1, Bounds DEF IInv, TypeOK
  <1> QED BY <1>1, <1>4, <1>5, <1>6, <1>7, <1>8, ChangeOfPhase

LEMMA ScanStep ==
  ASSUME IInv, Scan
  PROVE  IInv'
  <1>1. phase = "scan" /\ n \in Candidates /\ at < count
    BY AllSeen DEF Scan, IInv, WalkInv
  <1>2. n # NULL
    BY <1>1, AllSeen DEF Scan
  <1>3. /\ UNCHANGED <<global, filled, benefit, gain, edge, D, k>>
        /\ phase' = "scan" /\ at' = at + 1 /\ n' = next[n]
        /\ best' = IF gain[n] < gain[best] THEN n ELSE best
    BY <1>1, <1>2 DEF Scan, Better, paths
  <1>4. /\ Seen' = Seen \cup {n} /\ Cardinality(Seen') = Cardinality(Seen) + 1
        /\ n' \in Candidates \cup {NULL} /\ Candidates' = Candidates
    BY <1>1, <1>3, StepOnList, ListUntouched DEF global
  <1>5. GainInv'
    <2>1. (\A u \in Candidates : benefit[u] = StandardCalculate(value[u]))'
      BY <1>1, <1>3, <1>4 DEF IInv, GainInv, global
    <2>2. (\A u \in Candidates : gain[u] = Total(u))'
      BY <1>1, <1>3, <1>4 DEF IInv, GainInv, Total, global
    <2> QED BY <1>3, <2>1, <2>2 DEF GainInv
  <1>6. WalkInv'
    BY <1>1, <1>3, <1>4 DEF IInv, WalkInv
  <1>7. /\ best \in Seen \cup {head} /\ best # NULL /\ Least(Seen)
        /\ Seen \subseteq Candidates /\ head \in Candidates
        /\ \A u \in Candidates : head <= u
    BY <1>1, AllSeen DEF IInv, BestInv, ListIsOrdered
  <1>8. \A u \in Candidates : u \in V /\ u \in Int /\ u # NULL /\ gain[u] \in Int
    BY FiniteCandidates, Bounds DEF IInv, TypeOK
  <1>9. best \in Candidates /\ (\A u \in Seen : u < n)
    BY <1>7, <1>2 DEF Seen
  <1>10. best <= n
    BY <1>1, <1>7, <1>8, <1>9
  <1>11. best' \in Seen' \cup {head} /\ best' \in Candidates /\ Least(Seen)'
    <2>1. \A u \in Seen : gain[best] < gain[u] \/ (gain[best] = gain[u] /\ best <= u)
      BY <1>7 DEF Least
    <2>2. CASE gain[n] < gain[best]
      <3>1. best' = n
        BY <1>3, <2>2
      <3>2. \A u \in Seen \cup {n} : gain[n] < gain[u] \/ (gain[n] = gain[u] /\ n <= u)
        BY <1>1, <1>7, <1>8, <1>9, <2>1, <2>2
      <3> QED BY <1>1, <1>3, <1>4, <3>1, <3>2 DEF Least
    <2>3. CASE ~(gain[n] < gain[best])
      <3>1. best' = best
        BY <1>3, <2>3
      <3>2. \A u \in Seen \cup {n} : gain[best] < gain[u] \/ (gain[best] = gain[u] /\ best <= u)
        BY <1>1, <1>8, <1>9, <1>10, <2>1, <2>3
      <3> QED BY <1>3, <1>4, <1>7, <1>9, <3>1, <3>2 DEF Least
    <2> QED BY <2>2, <2>3
  <1>12. BestInv'
    <2>1. head' = head /\ best' # NULL
      BY <1>3, <1>8, <1>11 DEF global
    <2>2. Candidates' # {}
      BY <1>1, <1>4
    <2> QED BY <1>11, <2>1, <2>2 DEF BestInv
  <1>13. (FilledInv /\ CrashesOnlyWithoutCandidate /\ BestHasLeastGain)'
    BY <1>1, <1>3 DEF IInv, FilledInv, CrashesOnlyWithoutCandidate, BestHasLeastGain
  <1>14. at' \in 0..N /\ n' \in Link /\ best' \in Link /\ filled' \in BOOLEAN
    <2>1. at' \in 0..N
      BY <1>1, <1>3, Bounds DEF IInv, TypeOK
    <2>2. n' \in Link /\ best' \in Link
      BY <1>4, <1>11, <1>3, ListUntouched DEF Link
    <2> QED BY <1>3, <2>1, <2>2 DEF IInv, TypeOK
  <1> QED BY <1>3, <1>5, <1>6, <1>12, <1>13, <1>14, ChangeOfPhase

LEMMA BestKnownStep ==
  ASSUME IInv, BestKnown
  PROVE  IInv'
  <1>1. /\ UNCHANGED <<at, n, global, filled, benefit, gain, best, edge, D, k>>
        /\ phase = "scan" /\ at = count
        /\ phase' = IF best = NULL THEN "crashed" ELSE "chosen"
    BY DEF BestKnown, paths
  <1>2. Seen = Candidates /\ Candidates' = Candidates
    BY <1>1, AllSeen, ListUntouched
  <1>3. phase' \in {"crashed", "chosen"} /\ (phase' = "crashed" => best = NULL)
    BY <1>1
  <1>4. best = NULL <=> Candidates = {}
    BY <1>1 DEF IInv, BestInv
  <1>5. CrashesOnlyWithoutCandidate'
    BY <1>2, <1>3, <1>4 DEF CrashesOnlyWithoutCandidate
  <1>6. BestHasLeastGain'
    <2> SUFFICES ASSUME phase' = "chosen" PROVE BestHasLeastGain'
      BY DEF BestHasLeastGain
    <2>1. Candidates # {}
      BY <1>1, <1>4
    <2>2. best \in Candidates /\ Least(Candidates)
      BY <1>1, <1>2, <1>4, <2>1 DEF IInv, BestInv, ListIsOrdered
    <2>3. \A u \in Candidates : gain[u] = Total(u)
      BY <1>1 DEF IInv, GainInv
    <2>4. \A u \in Candidates : Total(best) < Total(u) \/ (Total(best) = Total(u) /\ best <= u)
      BY <2>2, <2>3 DEF Least
    <2>5. \A u \in V : Total(u)' = Total(u)
      BY <1>1 DEF Total, global
    <2> QED BY <1>1, <1>2, <2>2, <2>4, <2>5, FiniteCandidates DEF BestHasLeastGain
  <1>7. (WalkInv /\ GainInv /\ BestInv /\ FilledInv)'
    BY <1>1, <1>3 DEF WalkInv, GainInv, BestInv, IInv, FilledInv
  <1> QED BY <1>1, <1>3, <1>5, <1>6, <1>7, ChangeOfPhase DEF IInv, TypeOK

LEMMA BestOfGarbageStep ==
  ASSUME IInv, BestOfGarbage
  PROVE  IInv'
  <1>1. /\ UNCHANGED <<at, n, global, filled, benefit, gain, edge, D, k>>
        /\ phase = "garbage" /\ phase' \in {"crashed", "chosen"} /\ ~filled
        /\ \/ best' = best /\ phase' = "crashed"
           \/ best' \in Candidates
    BY DEF BestOfGarbage, paths, Candidates, IInv, FilledInv
  <1>2. Candidates' = Candidates /\ Candidates \subseteq Link
    BY <1>1, ListUntouched DEF Link
  <1>3. best' \in Link
    BY <1>1, <1>2 DEF IInv, TypeOK
  <1>4. (CrashesOnlyWithoutCandidate /\ BestHasLeastGain)'
    BY <1>1, <1>2 DEF CrashesOnlyWithoutCandidate, BestHasLeastGain
  <1>5. (WalkInv /\ GainInv /\ BestInv /\ FilledInv)'
    BY <1>1 DEF WalkInv, GainInv, BestInv, FilledInv
  <1> QED BY <1>1, <1>3, <1>4, <1>5, ChangeOfPhase DEF IInv, TypeOK

LEMMA StutterStep ==
  ASSUME IInv, UNCHANGED vars
  PROVE  IInv'
  BY DEF vars, global, paths, IInv, TypeOK, ListIsOrdered, Follows, Candidates, CandidatesInv,
         WalkInv, Seen, GainInv, Total, BestInv, Least, FilledInv, NothingDeleted,
         CrashesOnlyWithoutCandidate, BestHasLeastGain

LEMMA NextKeepsIInv == IInv /\ [Next]_vars => IInv'
  BY ReadPeerStep, EtcdThrowsStep, PeersReadStep, BenefitStep, BenefitsDoneStep,
     ShortestPathsStep, PathsDoneStep, GainStep, GainsDoneStep, ScanStep, BestKnownStep,
     BestOfGarbageStep, StutterStep DEF Next

LEMMA SpecKeepsIInv == Spec => []IInv
  BY InitIInv, NextKeepsIInv, PTL DEF Spec

-----------------------------------------------------------------------------

\* The counters, links and tables stay in their types: no loop runs past the
\* end of the file or counts more nodes than there are.
THEOREM TypeCorrect == Spec => []TypeOK
  BY SpecKeepsIInv, PTL DEF IInv

\* globalPush keeps the list whole, in the order of the file, and counted.
THEOREM ListStaysOrdered == Spec => []ListIsOrdered
  BY SpecKeepsIInv, PTL DEF IInv

\* getBenefit never deletes: the benefit of a peer below the limits is positive.
THEOREM NothingIsDeleted == Spec => []NothingDeleted
  BY SpecKeepsIInv, PTL DEF IInv

\* On a graph that was read the process ends only for want of candidates; a
\* graph that get_graph could not read or hold is the one other way.
THEOREM CrashNeedsEmptyList == Spec => []CrashesOnlyWithoutCandidate
  BY SpecKeepsIInv, PTL DEF IInv

\* getBestNode takes the first node of least gain.
THEOREM BestIsLeast == Spec => []BestHasLeastGain
  BY SpecKeepsIInv, PTL DEF IInv

-----------------------------------------------------------------------------
(* The composition with Dijkstra: its theorem holds of the tables here.    *)

PathProofs == INSTANCE DijkstraProofs

LEMMA SamePaths == /\ Paths!MAX_VERTEX_NUM = PathProofs!MAX_VERTEX_NUM
                   /\ Paths!V = PathProofs!V /\ Paths!v0 = PathProofs!v0
                   /\ Paths!INFINITY = PathProofs!INFINITY
  BY DEF Paths!MAX_VERTEX_NUM, PathProofs!MAX_VERTEX_NUM, Paths!V, PathProofs!V,
         Paths!v0, PathProofs!v0, Paths!INFINITY, PathProofs!INFINITY

\* The selection runs shortestPathDijkstra, and touches its tables nowhere else.
LEMMA RunsDijkstra == Spec => PathProofs!Spec
  <1>1. Init => PathProofs!Init
    BY SamePaths DEF Init, Paths!Init, PathProofs!Init
  <1>2. Paths!Next => PathProofs!Next
    BY SamePaths DEF Paths!Next, Paths!Settle, Paths!SettleNothing, Paths!Nearest,
       Paths!Open, Paths!Relax, PathProofs!Next, PathProofs!Settle,
       PathProofs!SettleNothing, PathProofs!Nearest, PathProofs!Open, PathProofs!Relax
  <1>3. [Next]_vars => [PathProofs!Next]_(PathProofs!vars)
    BY <1>2 DEF Next, vars, paths, ReadPeer, EtcdThrows, GraphUnreadable, PeersRead,
       Benefit, BenefitsDone, GraphNotFilled, ShortestPaths, PathsDone, Gain, GainsDone,
       Scan, BestKnown, BestOfGarbage, PathProofs!vars
  <1> QED BY <1>1, <1>3, PTL DEF Spec, PathProofs!Spec

LEMMA PathsAreShortest ==
  ASSUME N <= Paths!MAX_VERTEX_NUM
  PROVE  Spec => []PathProofs!ShortestFromV0
  <1>1. PathProofs!DijkstraAssumption
    <2>1. /\ N \in 1..Paths!MAX_VERTEX_NUM /\ Local \in Paths!V
          /\ \A g \in Graphs : Paths!Topology(g)
      BY SelectionAssumption, Bounds DEF V, Paths!MAX_VERTEX_NUM
    <2>2. \A g \in Graphs : PathProofs!Topology(g)
      BY <2>1, SamePaths DEF Paths!Topology, PathProofs!Topology
    <2> QED BY <2>1, <2>2, SamePaths DEF PathProofs!DijkstraAssumption
  <1>2. PathProofs!Spec => []PathProofs!ShortestFromV0
    BY <1>1, PathProofs!Shortest
  <1> QED BY <1>2, RunsDijkstra, PTL

LEMMA SameDistances == Paths!Dist(Paths!v0) = PathProofs!Dist(PathProofs!v0)
  BY SamePaths DEF Paths!Dist, Paths!Walks, Paths!NoEdges, Paths!OneMore, Paths!MinOf,
     PathProofs!Dist, PathProofs!Walks, PathProofs!NoEdges, PathProofs!OneMore,
     PathProofs!MinOf

\* The loops over the gains run on finished tables.
PathsFinished == phase \in {"gain", "scan"} \/ (phase = "chosen" /\ filled) => i = N

LEMMA StepPathsFinished == IInv /\ PathsFinished /\ [Next]_vars => PathsFinished'
  BY DEF IInv, FilledInv, PathsFinished, Next, vars, paths, ReadPeer, EtcdThrows,
     GraphUnreadable, PeersRead, Benefit, GlobalDelete, BenefitsDone, GraphNotFilled,
     ShortestPaths, PathsDone, Gain, GainsDone, Scan, BestKnown, BestOfGarbage

\* On a graph that was read the chosen node is the best one by its reading and
\* the topology: the list, the tables and the loops lose nothing on the way.
THEOREM ChoiceIsLeast == Spec => []ChoiceIsOptimal
  <1>1. Init => PathsFinished
    BY DEF Init, PathsFinished
  <1>2. IInv /\ PathsFinished /\ PathProofs!ShortestFromV0 => ChoiceIsOptimal
    <2> SUFFICES ASSUME IInv, PathsFinished, PathProofs!ShortestFromV0, phase = "chosen",
                        filled
                 PROVE  /\ best \in Candidates
                        /\ \A u \in Candidates : \/ Worth(best) < Worth(u)
                                                 \/ Worth(best) = Worth(u) /\ best <= u
      BY DEF ChoiceIsOptimal, ChosenIsOptimal
    <2>1. D = Paths!Dist(Paths!v0)
      BY SameDistances DEF PathsFinished, PathProofs!ShortestFromV0
    <2>2. \A v \in V : Worth(v) = Total(v)
      BY <2>1 DEF Worth, Total
    <2> QED BY <2>2, FiniteCandidates DEF IInv, BestHasLeastGain
  <1>3. CASE N <= Paths!MAX_VERTEX_NUM
    BY <1>1, <1>2, <1>3, StepPathsFinished, PathsAreShortest, SpecKeepsIInv, PTL DEF Spec
  <1>4. CASE ~(N <= Paths!MAX_VERTEX_NUM)
    <2>1. IInv => ChoiceIsOptimal
      BY <1>4 DEF IInv, FilledInv, ChoiceIsOptimal
    <2> QED BY <2>1, SpecKeepsIInv, PTL
  <1> QED BY <1>3, <1>4

-----------------------------------------------------------------------------

\* The edges of graph.txt are light: a path of as many edges as there are
\* rounds stays below INFINITY by more than any benefit.
LIGHT == 2100

LightEdges == \A g \in Graphs : \A u, w \in V : g[u][w] = Paths!INFINITY \/ g[u][w] <= LIGHT

\* After i rounds a path has i + 1 edges at most.
CostInv ==
  /\ edge \in Graphs /\ i \in 0..N
  /\ \A w \in V : D[w] = Paths!INFINITY \/ D[w] <= LIGHT * (i + 1)

\* (The numerals of this lemma are for the SMT solver only.)
LEMMA LightNumbers == /\ LIGHT \in Nat
                      /\ N <= Paths!MAX_VERTEX_NUM => N \in 0..30
                      /\ \A j \in 0..30 : LIGHT * (j + 1) <= Paths!INFINITY - 9
                      /\ \A j \in 0..30 : LIGHT * (j + 1) \in Nat
                      /\ \A j \in 0..30 : LIGHT * (j + 1 + 1) = LIGHT * (j + 1) + LIGHT
  BY SelectionAssumption, SMT DEF Paths!MAX_VERTEX_NUM, Paths!INFINITY, LIGHT

LEMMA InitCosts ==
  ASSUME LightEdges, Init
  PROVE  CostInv
  <1>1. /\ edge \in Graphs /\ D = [edge[Paths!v0] EXCEPT ![Paths!v0] = 0] /\ i = 0
        /\ V = Paths!V
    BY DEF Init, Paths!Init, V
  <1>2. edge[Paths!v0] \in [V -> 1..Paths!INFINITY] /\ Paths!v0 \in V
    BY <1>1, GraphsTyped
  <1>3. LIGHT * (0 + 1) = LIGHT
    BY LightNumbers
  <1>4. \A w \in V : D[w] = 0 \/ D[w] = edge[Paths!v0][w]
    BY <1>1, <1>2
  <1>5. \A w \in V : D[w] = Paths!INFINITY \/ D[w] <= LIGHT * (i + 1)
    BY <1>1, <1>2, <1>3, <1>4, LightNumbers DEF LightEdges
  <1> QED BY <1>1, <1>5, Bounds DEF CostInv

LEMMA StepCosts ==
  ASSUME N <= Paths!MAX_VERTEX_NUM, LightEdges, IInv, CostInv, [Next]_vars
  PROVE  CostInv'
  <1>1. CASE UNCHANGED paths
    BY <1>1 DEF paths, CostInv
  <1>2. CASE Paths!Next
    <2> DEFINE INF == Paths!INFINITY
               Relaxed(m, min) == [w \in V |-> IF w \notin final' /\ min + edge[m][w] < D[w]
                                               THEN min + edge[m][w] ELSE D[w]]
    <2>1. /\ edge \in [V -> [V -> 1..INF]] /\ D \in [V -> 0..INF] /\ INF \in Nat
          /\ k \in V /\ V = Paths!V
      BY Numbers DEF IInv, TypeOK, V
    <2>2. /\ i < N /\ i' = i + 1 /\ edge' = edge
          /\ \E m \in V, min \in 0..INF :
                D' = Relaxed(m, min) /\ (min = INF \/ min = D[m])
      <3>1. CASE Paths!Settle
        <4>1. /\ i < N /\ i' = i + 1 /\ edge' = edge
              /\ k' \in V /\ D' = Relaxed(k', D[k'])
          BY <2>1, <3>1 DEF Paths!Settle, Paths!Nearest, Paths!Open, Paths!Relax
        <4> QED BY <2>1, <4>1
      <3>2. CASE Paths!SettleNothing
        <4>1. /\ i < N /\ i' = i + 1 /\ edge' = edge /\ D' = Relaxed(k, INF)
          BY <2>1, <3>2 DEF Paths!SettleNothing, Paths!Relax
        <4> QED BY <2>1, <4>1
      <3> QED BY <1>2, <3>1, <3>2 DEF Paths!Next
    <2>3. PICK m \in V, min \in 0..INF :
             D' = Relaxed(m, min) /\ (min = INF \/ min = D[m])
      BY <2>2
    <2>4. PICK b \in Nat : b = LIGHT * (i + 1) /\ LIGHT * (i' + 1) = b + LIGHT
      BY <2>2, LightNumbers DEF CostInv
    <2> HIDE DEF INF
    <2>5. ASSUME NEW w \in V
          PROVE  D'[w] = INF \/ D'[w] <= b + LIGHT
      <3>1. /\ edge[m][w] \in 1..INF /\ D[w] \in 0..INF /\ D[m] \in 0..INF
            /\ D[w] = INF \/ D[w] <= b
            /\ D[m] = INF \/ D[m] <= b
            /\ edge[m][w] = INF \/ edge[m][w] <= LIGHT
        BY <2>1, <2>4 DEF CostInv, LightEdges, INF
      <3>2. CASE D'[w] = D[w]
        BY <2>4, <3>1, <3>2, LightNumbers
      <3>3. CASE D'[w] = min + edge[m][w] /\ min + edge[m][w] < D[w]
        BY <2>1, <2>3, <2>4, <3>1, <3>3, LightNumbers
      <3> QED BY <2>3, <3>2, <3>3
    <2> QED BY <2>2, <2>4, <2>5, Bounds DEF CostInv, INF
  <1> QED BY <1>1, <1>2 DEF Next, vars, ReadPeer, EtcdThrows, GraphUnreadable, PeersRead,
        Benefit, BenefitsDone, GraphNotFilled, ShortestPaths, PathsDone, Gain, GainsDone,
        Scan, BestKnown, BestOfGarbage

\* The path costs stay nine below INFINITY, or are INFINITY.
CostsAreSmall == \A v \in V : D[v] = Paths!INFINITY \/ D[v] <= Paths!INFINITY - 9

LEMMA LightEdgesGiveSmallCosts ==
  ASSUME N <= Paths!MAX_VERTEX_NUM, IInv, CostInv
  PROVE  CostsAreSmall
  <1>1. \A v \in V : D[v] \in 0..Paths!INFINITY
    BY DEF IInv, TypeOK
  <1>2. LIGHT * (i + 1) \in Nat /\ LIGHT * (i + 1) <= Paths!INFINITY - 9
    BY LightNumbers DEF CostInv
  <1> QED BY <1>1, <1>2, Numbers DEF CostInv, CostsAreSmall

\* INFINITY is a far enough end as long as the edges are light: the greatest
\* benefit, 9, never makes up for a missing path.
THEOREM ReachableIsTaken == ASSUME LightEdges PROVE Spec => []ReachableIsPreferred
  <1>1. IInv /\ CostsAreSmall => ReachableIsPreferred
    <2> SUFFICES ASSUME IInv, CostsAreSmall, phase = "chosen", filled,
                        D[best] = Paths!INFINITY,
                        NEW u \in Candidates
                 PROVE  D[u] = Paths!INFINITY
      BY DEF ReachableIsPreferred
    <2> DEFINE b(v) == StandardCalculate(value[v])
    <2>1. best \in Candidates /\ (Total(best) < Total(u) \/ Total(best) = Total(u))
      BY DEF IInv, BestHasLeastGain
    <2>2. \A v \in Candidates : b(v) \in 1..(9 * UNIT) /\ v \in V
      BY BenefitRange DEF IInv, TypeOK, Candidates, CandidatesInv
    <2>3. D[u] \in Nat /\ u \in V
      BY <2>2, Numbers DEF IInv, TypeOK
    <2>4. Total(best) = b(best) + UNIT * Paths!INFINITY /\ Total(u) = b(u) + UNIT * D[u]
      BY DEF Total
    <2> HIDE DEF b
    <2>5. \A d, f \in Nat : d <= f - 9 => UNIT * d + 9 * UNIT <= UNIT * f
      BY SMT DEF UNIT
    <2>6. UNIT * D[u] \in Nat /\ UNIT * Paths!INFINITY \in Nat
      BY <2>3, Numbers
    <2>7. ~(D[u] <= Paths!INFINITY - 9)
      BY <2>1, <2>2, <2>3, <2>4, <2>5, <2>6, Numbers
    <2> QED BY <2>3, <2>7 DEF CostsAreSmall
  <1>2. Init => CostInv
    BY InitCosts
  <1>3. CASE N <= Paths!MAX_VERTEX_NUM
    <2>1. IInv /\ CostInv /\ [Next]_vars => CostInv'
      BY <1>3, StepCosts
    <2>2. IInv /\ CostInv => CostsAreSmall
      BY <1>3, LightEdgesGiveSmallCosts
    <2> QED BY <1>1, <1>2, <2>1, <2>2, SpecKeepsIInv, PTL DEF Spec
  <1>4. CASE ~(N <= Paths!MAX_VERTEX_NUM)
    <2>1. IInv => ReachableIsPreferred
      BY <1>4 DEF IInv, FilledInv, ReachableIsPreferred
    <2> QED BY <2>1, SpecKeepsIInv, PTL
  <1> QED BY <1>3, <1>4

-----------------------------------------------------------------------------
(* Selection implements Choice.                                            *)

LEMMA InitRefines == Init => Promise!Init
  BY DEF Init, Promise!Init, Stage, Listed, Chosen

\* The loops on a graph that was read move within one stage, or end it.
LEMMA LoopRefines ==
  ASSUME IInv, IInv', UNCHANGED <<value, filled>>, phase \in {"paths", "gain", "scan"},
         phase' \in {"paths", "gain", "scan", "crashed", "chosen"}
  PROVE  [Promise!Next]_(Promise!vars)
  <1>1. Candidates' = Candidates
    BY DEF Candidates
  <1>2. Stage = "listed" /\ Listed = Candidates /\ Chosen = NULL /\ filled
    BY DEF Stage, Listed, Chosen, IInv, FilledInv
  <1>3. Listed' = Listed
    BY <1>1, <1>2 DEF Listed
  <1>4. CASE phase' \in {"paths", "gain", "scan"}
    BY <1>2, <1>3, <1>4 DEF Stage, Chosen, Promise!vars
  <1>5. CASE phase' = "crashed"
    <2>1. Candidates = {}
      BY <1>1, <1>2, <1>5 DEF IInv, CrashesOnlyWithoutCandidate
    <2>2. Stage' = "over" /\ Chosen' = NULL
      BY <1>5 DEF Stage, Chosen
    <2> QED BY <1>2, <1>3, <2>1, <2>2 DEF Promise!NoChoice, Promise!Next
  <1>6. CASE phase' = "chosen"
    <2>1. best' \in Candidates
      BY <1>1, <1>6 DEF IInv, BestHasLeastGain
    <2>2. Stage' = "chosen" /\ Chosen' = best'
      BY <1>6 DEF Stage, Chosen
    <2> QED BY <1>2, <1>3, <2>1, <2>2 DEF Promise!Choose, Promise!Next
  <1> QED BY <1>4, <1>5, <1>6

LEMMA StepRefines == IInv /\ [Next]_vars => [Promise!Next]_(Promise!vars)
  <1> SUFFICES ASSUME IInv, [Next]_vars PROVE [Promise!Next]_(Promise!vars)
    OBVIOUS
  <1>1. IInv'
    BY NextKeepsIInv
  <1>2. CASE ReadPeer
    BY <1>2 DEF ReadPeer, Stage, Listed, Chosen, Promise!vars
  <1>3. CASE EtcdThrows
    BY <1>3 DEF EtcdThrows, Stage, Listed, Chosen, Promise!Abandon, Promise!Next
  <1>4. CASE GraphUnreadable \/ PeersRead \/ Benefit
    <2>1. phase \in {"nodes", "benefit"} /\ phase' \in {"benefit", "freed"}
      BY <1>4 DEF GraphUnreadable, PeersRead, Benefit, GlobalDelete
    <2>2. phase' = "benefit"
      BY <1>1, <2>1 DEF IInv, NothingDeleted
    <2> QED BY <2>1, <2>2 DEF Stage, Listed, Chosen, Promise!vars
  <1>5. CASE BenefitsDone \/ GraphNotFilled
    <2>1. phase = "benefit" /\ phase' \in {"paths", "garbage"} /\ UNCHANGED global
      BY <1>5 DEF BenefitsDone, GraphNotFilled
    <2>2. Candidates' \subseteq Peers
      BY <2>1, ListUntouched
    <2> QED BY <2>1, <2>2 DEF Stage, Listed, Chosen, Promise!List, Promise!Next
  <1>6. CASE ShortestPaths \/ PathsDone \/ Gain \/ GainsDone \/ Scan \/ BestKnown
    BY <1>1, <1>6, LoopRefines DEF ShortestPaths, PathsDone, Gain, GainsDone, Scan,
       BestKnown, global
  <1>7. CASE BestOfGarbage
    <2>1. /\ phase = "garbage" /\ UNCHANGED value
          /\ \/ phase' = "crashed"
             \/ phase' = "chosen" /\ best' \in Candidates
      BY <1>7 DEF BestOfGarbage, global, Candidates
    <2>2. Candidates' = Candidates
      BY <2>1 DEF Candidates
    <2> QED BY <2>1, <2>2 DEF Stage, Listed, Chosen, Promise!Choose, Promise!Collapse,
              Promise!Next
  <1>8. CASE UNCHANGED vars
    BY <1>8 DEF vars, global, Stage, Listed, Candidates, Chosen, Promise!vars
  <1> QED BY <1>2, <1>3, <1>4, <1>5, <1>6, <1>7, <1>8 DEF Next

\* Every behaviour of the loops is one that Choice allows: listing the peers
\* and computing benefits, paths and gains in place amounts to one choice from
\* one set.
THEOREM Refinement == Spec => ImplementsChoice
  <1>1. IInv /\ [Next]_vars => [Promise!Next]_(Promise!vars)
    BY StepRefines
  <1> QED BY <1>1, InitRefines, SpecKeepsIInv, PTL DEF Spec, ImplementsChoice, Promise!Spec
=============================================================================
