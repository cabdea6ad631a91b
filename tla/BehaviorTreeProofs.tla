------------------------- MODULE BehaviorTreeProofs -------------------------
(***************************************************************************)
(* Proofs about the walk of BehaviorTree and the history of its ticks, for *)
(* every tree of Sequences and Fallbacks and whatever its actions return.  *)
(***************************************************************************)
EXTENDS TickHistory, Induction

\* q is the line from the root down to node x, m nodes long.
Line(q, m, x) ==
  /\ m \in Nat \ {0}
  /\ q \in [1..m -> Node]
  /\ q[1] = Root /\ q[m] = x
  /\ \A j \in 2..m : q[j] # Root /\ Parent[q[j]] = q[j - 1]
  /\ \A i, j \in 1..m : q[i] = q[j] => i = j

\* During a tick the call stack is the line to the cursor: each control node
\* on it is at the child that is next on it, and the control nodes that are
\* not on it are at their first child.
OnLine(q, m) ==
  /\ Line(q, m, cursor)
  /\ \A j \in 1..(m - 1) : q[j + 1] = Children[q[j]][idx[q[j]] + 1]
  /\ \A n \in Control : (\A j \in 1..(m - 1) : q[j] # n) => idx[n] = 0

IInv == /\ TreeTypeOK
        /\ TicksStartFresh
        /\ dir # "idle" => \E m, q : OnLine(q, m)

-----------------------------------------------------------------------------
(* The tree.                                                               *)

LEMMA Tables ==
  /\ Root \in Control /\ Control \subseteq Node
  /\ \A n \in Control : /\ Len(Children[n]) \in Nat \ {0}
                        /\ DOMAIN Children[n] = 1..Len(Children[n])
                        /\ \A i \in 1..Len(Children[n]) :
                             /\ Children[n][i] \in Node \ {Root}
                             /\ Parent[Children[n][i]] = n
                        /\ \A i, j \in 1..Len(Children[n]) :
                             Children[n][i] = Children[n][j] => i = j
  /\ \A n \in Node \ {Root} : Parent[n] \in Control
  <1>1. \A n \in Control : Children[n] \in Seq(Node \ {Root}) /\ Children[n] # << >>
    BY TreeAssumption
  <1>2. \A n \in Control : /\ Len(Children[n]) \in Nat \ {0}
                           /\ DOMAIN Children[n] = 1..Len(Children[n])
                           /\ \A i \in 1..Len(Children[n]) : Children[n][i] \in Node \ {Root}
    BY <1>1
  <1> QED BY <1>2, TreeAssumption

LEMMA Kinds ==
  ASSUME NEW n \in Control
  PROVE  Neutral(n) = GoesOn(n) /\ Neutral(n) \in Status
  BY TreeAssumption DEF Neutral, GoesOn, Status

\* Above every node of a line but the first there is a control node.
LEMMA LineControls ==
  ASSUME NEW q, NEW m, NEW x, Line(q, m, x)
  PROVE  \A j \in 1..(m - 1) : q[j] \in Control
  <1> SUFFICES ASSUME NEW j \in 1..(m - 1) PROVE q[j] \in Control
    OBVIOUS
  <1>1. j + 1 \in 2..m /\ j + 1 - 1 = j /\ j + 1 \in 1..m
    BY DEF Line
  <1>2. q[j + 1] \in Node \ {Root} /\ Parent[q[j + 1]] = q[j]
    BY <1>1 DEF Line
  <1> QED BY <1>2, Tables

\* There is one line to a node.
LEMMA OneLine ==
  ASSUME NEW x, NEW q, NEW m, Line(q, m, x), NEW r, NEW e, Line(r, e, x)
  PROVE  m = e /\ \A j \in 1..m : q[j] = r[j]
  <1> DEFINE S == {k \in 0..(m - 1) : k < e /\ q[m - k] = r[e - k]}
  <1>1. m \in Nat \ {0} /\ e \in Nat \ {0} /\ m - 1 \in Nat
    BY DEF Line
  <1>2. 0 \in S
    BY <1>1 DEF Line
  <1>3. ASSUME NEW k \in 0..(m - 1 - 1), k \in S PROVE k + 1 \in S
    <2>1. k < e /\ q[m - k] = r[e - k] /\ m - k \in 2..m /\ m - k - 1 = m - (k + 1)
      BY <1>1, <1>3
    <2>2. q[m - k] # Root /\ Parent[q[m - k]] = q[m - (k + 1)]
      BY <2>1 DEF Line
    <2>3. e - k # 1
      BY <2>1, <2>2 DEF Line
    <2>4. e - k \in 2..e /\ e - k - 1 = e - (k + 1) /\ k + 1 < e /\ k + 1 \in 0..(m - 1)
      BY <1>1, <2>1, <2>3
    <2>5. Parent[r[e - k]] = r[e - (k + 1)]
      BY <2>4 DEF Line
    <2> QED BY <2>1, <2>2, <2>4, <2>5
  <1>4. 0..(m - 1) \subseteq S
    <2> HIDE DEF S
    <2> QED BY <1>1, <1>2, <1>3, InductionUpTo
  <1>5. m - 1 < e /\ r[e - (m - 1)] = Root
    <2>1. m - 1 \in S /\ m - (m - 1) = 1
      BY <1>1, <1>4
    <2> QED BY <2>1 DEF Line
  <1>6. e = m
    <2>1. e - (m - 1) \in 1..e
      BY <1>1, <1>5
    <2>2. ~(e - (m - 1) \in 2..e)
      BY <1>5 DEF Line
    <2> QED BY <1>1, <2>1, <2>2
  <1>7. ASSUME NEW j \in 1..m PROVE q[j] = r[j]
    <2>1. m - j \in 0..(m - 1) /\ m - (m - j) = j
      BY <1>1
    <2> QED BY <1>4, <1>6, <2>1
  <1> QED BY <1>6, <1>7

-----------------------------------------------------------------------------
(* The steps of the walk, on the line.                                     *)

LEMMA TickRootOnLine ==
  ASSUME IInv, TickRoot
  PROVE  \E q : OnLine(q, 1)'
  <1> DEFINE q == [j \in 1..1 |-> Root]
  <1>1. idx' = FreshIdx /\ cursor' = Root
    BY DEF IInv, TicksStartFresh, TickRoot
  <1>2. q \in [1..1 -> Node] /\ q[1] = Root /\ 1 \in Nat \ {0}
    BY Tables
  <1>3. (\A j \in 1..(1 - 1) : FALSE) /\ (\A j \in 2..1 : FALSE) /\ \A j \in 1..1 : j = 1
    OBVIOUS
  <1> HIDE DEF q
  <1>4. OnLine(q, 1)'
    BY <1>1, <1>2, <1>3 DEF OnLine, Line, FreshIdx
  <1> QED BY <1>4

\* q with c below its last node.
Longer(q, m, c) == [j \in 1..(m + 1) |-> IF j = m + 1 THEN c ELSE q[j]]

LEMMA TickChildOnLine ==
  ASSUME TreeTypeOK, TickChild, NEW q, NEW m, OnLine(q, m),
         NEW r, r = Longer(q, m, cursor')
  PROVE  OnLine(r, m + 1)' /\ idx[cursor] = 0
  <1> DEFINE c == cursor'
  <1>1. /\ cursor \in Control /\ idx' = idx
        /\ c = Children[cursor][idx[cursor] + 1]
    BY DEF TickChild
  <1>2. idx[cursor] + 1 \in 1..Len(Children[cursor])
    BY <1>1, Tables DEF TreeTypeOK
  <1>3. c \in Node \ {Root} /\ Parent[c] = cursor
    BY <1>1, <1>2, Tables
  <1>4. /\ m \in Nat \ {0} /\ q \in [1..m -> Node] /\ q[1] = Root /\ q[m] = cursor
        /\ \A j \in 2..m : q[j] # Root /\ Parent[q[j]] = q[j - 1]
        /\ \A i, j \in 1..m : q[i] = q[j] => i = j
    BY DEF OnLine, Line
  <1>5. /\ r \in [1..(m + 1) -> Node] /\ r[m + 1] = c
        /\ \A j \in 1..m : r[j] = q[j]
    BY <1>3, <1>4 DEF Longer
  <1>6. \A j \in 1..m : q[j] # c
    <2> SUFFICES ASSUME NEW j \in 1..m, q[j] = c PROVE FALSE
      OBVIOUS
    <2>1. j \in 2..m
      BY <1>3, <1>4
    <2>2. q[j - 1] = q[m] /\ j - 1 \in 1..m /\ m \in 1..m
      BY <1>3, <1>4, <2>1
    <2> QED BY <1>4, <2>2
  <1>7. idx[cursor] = 0
    <2>1. \A j \in 1..(m - 1) : q[j] # cursor
      BY <1>4
    <2> QED BY <1>1, <2>1 DEF OnLine
  <1>8. Line(r, m + 1, c)
    <2>1. \A j \in 2..(m + 1) : r[j] # Root /\ Parent[r[j]] = r[j - 1]
      <3> SUFFICES ASSUME NEW j \in 2..(m + 1) PROVE r[j] # Root /\ Parent[r[j]] = r[j - 1]
        OBVIOUS
      <3>1. j - 1 \in 1..m
        BY <1>4
      <3>2. CASE j = m + 1
        BY <1>3, <1>4, <1>5, <3>1, <3>2
      <3>3. CASE j # m + 1
        BY <1>4, <1>5, <3>1, <3>3
      <3> QED BY <3>2, <3>3
    <2>2. \A i, j \in 1..(m + 1) : r[i] = r[j] => i = j
      <3>1. \A j \in 1..(m + 1) : j = m + 1 \/ j \in 1..m
        BY <1>4
      <3> QED BY <1>4, <1>5, <1>6, <3>1
    <2> QED BY <1>4, <1>5, <2>1, <2>2 DEF Line
  <1>9. \A j \in 1..(m + 1 - 1) : r[j + 1] = Children[r[j]][idx[r[j]] + 1]
    <2> SUFFICES ASSUME NEW j \in 1..m PROVE r[j + 1] = Children[r[j]][idx[r[j]] + 1]
      BY <1>4
    <2>1. CASE j = m
      BY <1>1, <1>4, <1>5, <2>1
    <2>2. CASE j # m
      <3>1. j \in 1..(m - 1) /\ j + 1 \in 1..m
        BY <1>4, <2>2
      <3> QED BY <1>5, <3>1 DEF OnLine
    <2> QED BY <2>1, <2>2
  <1>10. \A n \in Control : (\A j \in 1..(m + 1 - 1) : r[j] # n) => idx[n] = 0
    <2>1. \A j \in 1..(m - 1) : j \in 1..m /\ j \in 1..(m + 1 - 1)
      BY <1>4
    <2> QED BY <1>5, <2>1 DEF OnLine
  <1>11. OnLine(r, m + 1)'
    <2>1. Line(r, m + 1, cursor')
      BY <1>8
    <2> HIDE DEF c
    <2> QED BY <1>1, <1>9, <1>10, <2>1 DEF OnLine, Line
  <1> QED BY <1>7, <1>11

\* Above a returning child that is not the root.
LEMMA OfParent ==
  ASSUME TreeTypeOK, dir = "ret", cursor # Root, NEW q, NEW m, OnLine(q, m)
  PROVE  /\ m \in Nat /\ m >= 2 /\ m - 1 \in 1..m /\ m \in 2..m
         /\ Parent[cursor] = q[m - 1] /\ q[m - 1] \in Control
         /\ Len(Children[q[m - 1]]) \in Nat /\ idx[q[m - 1]] \in Nat
         /\ idx[q[m - 1]] + 1 \in 1..Len(Children[q[m - 1]])
         /\ cursor = Children[q[m - 1]][idx[q[m - 1]] + 1]
         /\ idx \in [Control -> Nat]
  <1>1. m \in Nat \ {0} /\ m # 1
    BY DEF OnLine, Line
  <1>2. m >= 2 /\ m - 1 \in 1..m /\ m \in 2..m /\ m - 1 \in 1..(m - 1) /\ m - 1 + 1 = m
    BY <1>1
  <1>3. Parent[cursor] = q[m - 1] /\ q[m] = cursor
    BY <1>2 DEF OnLine, Line
  <1>4. q[m - 1] \in Control
    BY <1>2, LineControls DEF OnLine
  <1>5. cursor = Children[q[m - 1]][idx[q[m - 1]] + 1]
    BY <1>2, <1>3 DEF OnLine
  <1> QED BY <1>1, <1>2, <1>3, <1>4, <1>5, Tables DEF TreeTypeOK

\* q with c in the place of its last node.
Aside(q, m, c) == [j \in 1..m |-> IF j = m THEN c ELSE q[j]]

LEMMA NextChildOnLine ==
  ASSUME TreeTypeOK, NextChild, NEW q, NEW m, OnLine(q, m),
         NEW r, r = Aside(q, m, cursor')
  PROVE  OnLine(r, m)'
  <1> DEFINE c == cursor'
             p == q[m - 1]
  <1>1. dir = "ret" /\ cursor # Root
    BY DEF NextChild
  <1>2. /\ m \in Nat /\ m >= 2 /\ m - 1 \in 1..m /\ m \in 2..m
        /\ Parent[cursor] = p /\ p \in Control /\ idx \in [Control -> Nat]
        /\ Len(Children[p]) \in Nat /\ idx[p] \in Nat
    BY <1>1, OfParent
  <1>3. idx[p] + 1 < Len(Children[p]) /\ c = Children[p][idx[p] + 2]
        /\ idx' = [idx EXCEPT ![p] = idx[p] + 1]
    BY <1>2 DEF NextChild
  <1>4. c \in Node \ {Root} /\ Parent[c] = p
    <2>1. idx[p] + 2 \in 1..Len(Children[p])
      BY <1>2, <1>3
    <2> QED BY <1>2, <1>3, <2>1, Tables
  <1>5. /\ q \in [1..m -> Node] /\ q[1] = Root
        /\ \A j \in 2..m : q[j] # Root /\ Parent[q[j]] = q[j - 1]
        /\ \A i, j \in 1..m : q[i] = q[j] => i = j
    BY DEF OnLine, Line
  <1> HIDE DEF c
  <1>6. r \in [1..m -> Node] /\ r[m] = c /\ \A j \in 1..(m - 1) : j \in 1..m /\ r[j] = q[j]
    BY <1>2, <1>4, <1>5 DEF Aside, c
  <1>7. \A j \in 1..(m - 1) : q[j] # c
    <2> SUFFICES ASSUME NEW j \in 1..(m - 1), q[j] = c PROVE FALSE
      OBVIOUS
    <2>1. j \in 2..m
      BY <1>2, <1>4, <1>5
    <2>2. q[j - 1] = q[m - 1] /\ j - 1 \in 1..m /\ j # m
      BY <1>2, <1>4, <1>5, <2>1
    <2> QED BY <1>2, <1>5, <2>2
  <1>8. Line(r, m, c)
    <2>1. \A j \in 2..m : r[j] # Root /\ Parent[r[j]] = r[j - 1]
      <3> SUFFICES ASSUME NEW j \in 2..m PROVE r[j] # Root /\ Parent[r[j]] = r[j - 1]
        OBVIOUS
      <3>1. j - 1 \in 1..(m - 1)
        BY <1>2
      <3>2. CASE j = m
        BY <1>4, <1>6, <3>1, <3>2
      <3>3. CASE j # m
        <4>1. j \in 1..(m - 1)
          BY <1>2, <3>3
        <4> QED BY <1>5, <1>6, <3>1, <4>1
      <3> QED BY <3>2, <3>3
    <2>2. \A i, j \in 1..m : r[i] = r[j] => i = j
      <3>1. \A j \in 1..m : j = m \/ j \in 1..(m - 1)
        BY <1>2
      <3> QED BY <1>5, <1>6, <1>7, <3>1
    <2>3. 1 \in 1..(m - 1)
      BY <1>2
    <2> QED BY <1>2, <1>5, <1>6, <2>1, <2>2, <2>3 DEF Line
  <1>9. \A j \in 1..(m - 1) : j # m - 1 => q[j] # p /\ q[j] \in Control
    <2>1. \A j \in 1..(m - 1) : q[j] \in Control
      BY LineControls DEF OnLine
    <2> QED BY <1>2, <1>5, <1>6, <2>1
  <1>10. \A j \in 1..(m - 1) : r[j + 1] = Children[r[j]][idx'[r[j]] + 1]
    <2> SUFFICES ASSUME NEW j \in 1..(m - 1)
                 PROVE  r[j + 1] = Children[r[j]][idx'[r[j]] + 1]
      OBVIOUS
    <2>1. CASE j = m - 1
      BY <1>2, <1>3, <1>6, <2>1
    <2>2. CASE j # m - 1
      <3>1. j + 1 \in 1..(m - 1)
        BY <1>2, <2>2
      <3>2. idx'[q[j]] = idx[q[j]]
        BY <1>2, <1>3, <1>9, <2>2
      <3> QED BY <1>6, <3>1, <3>2 DEF OnLine
    <2> QED BY <2>1, <2>2
  <1>11. \A n \in Control : (\A j \in 1..(m - 1) : r[j] # n) => idx'[n] = 0
    <2> SUFFICES ASSUME NEW n \in Control, \A j \in 1..(m - 1) : r[j] # n PROVE idx'[n] = 0
      OBVIOUS
    <2>1. m - 1 \in 1..(m - 1)
      BY <1>2
    <2>2. n # p /\ idx[n] = 0
      BY <1>6, <2>1 DEF OnLine
    <2> QED BY <1>2, <1>3, <2>2
  <1> QED BY <1>8, <1>10, <1>11 DEF OnLine, Line, c

\* q without its last node.
Shorter(q, m) == [j \in 1..(m - 1) |-> q[j]]

LEMMA DecideOnLine ==
  ASSUME TreeTypeOK, Decide, NEW q, NEW m, OnLine(q, m),
         NEW r, r = Shorter(q, m)
  PROVE  OnLine(r, m - 1)'
  <1> DEFINE p == q[m - 1]
  <1>1. dir = "ret" /\ cursor # Root
    BY DEF Decide
  <1>2. /\ m \in Nat /\ m >= 2 /\ m - 1 \in 1..m /\ m \in 2..m
        /\ Parent[cursor] = p /\ p \in Control /\ idx \in [Control -> Nat]
    BY <1>1, OfParent
  <1>3. cursor' = p /\ idx' = [idx EXCEPT ![p] = 0]
    BY <1>2 DEF Decide
  <1>4. /\ q \in [1..m -> Node] /\ q[1] = Root
        /\ \A j \in 2..m : q[j] # Root /\ Parent[q[j]] = q[j - 1]
        /\ \A i, j \in 1..m : q[i] = q[j] => i = j
    BY DEF OnLine, Line
  <1>5. r \in [1..(m - 1) -> Node] /\ \A j \in 1..(m - 1) : j \in 1..m /\ r[j] = q[j]
    BY <1>2, <1>4 DEF Shorter
  <1>6. Line(r, m - 1, p)
    <2>1. 1 \in 1..(m - 1) /\ m - 1 \in 1..(m - 1) /\ m - 1 \in Nat \ {0}
      BY <1>2
    <2>2. \A j \in 2..(m - 1) : j \in 2..m /\ j \in 1..(m - 1) /\ j - 1 \in 1..(m - 1)
      BY <1>2
    <2> QED BY <1>4, <1>5, <2>1, <2>2 DEF Line
  <1>7. \A j \in 1..(m - 1 - 1) : r[j + 1] = Children[r[j]][idx'[r[j]] + 1]
    <2> SUFFICES ASSUME NEW j \in 1..(m - 1 - 1)
                 PROVE  r[j + 1] = Children[r[j]][idx'[r[j]] + 1]
      OBVIOUS
    <2>1. j \in 1..(m - 1) /\ j + 1 \in 1..(m - 1) /\ j # m - 1
      BY <1>2
    <2>2. q[j] # p /\ q[j] \in Control
      BY <1>2, <1>4, <1>5, <2>1, LineControls DEF OnLine
    <2> QED BY <1>2, <1>3, <1>5, <2>1, <2>2 DEF OnLine
  <1>8. \A n \in Control : (\A j \in 1..(m - 1 - 1) : r[j] # n) => idx'[n] = 0
    <2> SUFFICES ASSUME NEW n \in Control, \A j \in 1..(m - 1 - 1) : r[j] # n
                 PROVE  idx'[n] = 0
      OBVIOUS
    <2>1. CASE n = p
      BY <1>2, <1>3, <2>1
    <2>2. CASE n # p
      <3>1. \A j \in 1..(m - 1) : q[j] # n
        <4>1. \A j \in 1..(m - 1) : j = m - 1 \/ j \in 1..(m - 1 - 1)
          BY <1>2
        <4> QED BY <1>5, <2>2, <4>1
      <3> QED BY <1>2, <1>3, <2>2, <3>1 DEF OnLine
    <2> QED BY <2>1, <2>2
  <1> HIDE DEF p
  <1>9. OnLine(r, m - 1)'
    BY <1>3, <1>6, <1>7, <1>8 DEF OnLine, Line
  <1> QED BY <1>9

-----------------------------------------------------------------------------
(* The invariant of the walk.                                              *)

LEMMA InitIInv == TreeInit => IInv
  BY Tables DEF TreeInit, IInv, TreeTypeOK, TicksStartFresh, FreshIdx, Status

LEMMA TypeStep ==
  ASSUME IInv, [TreeNext]_treeVars
  PROVE  TreeTypeOK'
  <1> USE DEF IInv, TreeTypeOK
  <1>1. CASE UNCHANGED treeVars
    BY <1>1 DEF treeVars
  <1>2. CASE TickRoot
    BY <1>2, Tables DEF TickRoot
  <1>3. CASE TickLeaf
    BY <1>3 DEF TickLeaf, ActionReturns
  <1>4. CASE TickChild
    <2>1. idx[cursor] + 1 \in 1..Len(Children[cursor])
      BY <1>4, Tables DEF TickChild
    <2> QED BY <1>4, <2>1, Tables DEF TickChild
  <1>5. CASE NextChild
    <2> DEFINE p == Parent[cursor]
    <2>1. p \in Control /\ Len(Children[p]) \in Nat /\ idx[p] + 1 < Len(Children[p])
      BY <1>5, Tables DEF NextChild
    <2>2. idx[p] + 2 \in 1..Len(Children[p]) /\ cursor' = Children[p][idx[p] + 2]
      BY <1>5, <2>1 DEF NextChild
    <2>3. cursor' \in Node
      BY <2>1, <2>2, Tables
    <2>4. idx' = [idx EXCEPT ![p] = idx[p] + 1] /\ dir' = "tick" /\ ret' = ret
      BY <1>5 DEF NextChild
    <2> HIDE DEF p
    <2> QED BY <2>1, <2>3, <2>4
  <1>6. CASE Decide
    <2> DEFINE p == Parent[cursor]
    <2>1. p \in Control /\ cursor' = p /\ idx' = [idx EXCEPT ![p] = 0]
          /\ dir' = dir /\ ret' = ret
      BY <1>6, Tables DEF Decide
    <2> HIDE DEF p
    <2> QED BY <2>1, Tables
  <1>7. CASE EndTick
    BY <1>7 DEF EndTick
  <1> QED BY <1>1, <1>2, <1>3, <1>4, <1>5, <1>6, <1>7 DEF TreeNext, Walk

\* At the root the line is the root alone, and so every index is at its first
\* child.
LEMMA FreshAtRoot ==
  ASSUME TreeTypeOK, cursor = Root, NEW q, NEW m, OnLine(q, m)
  PROVE  m = 1 /\ idx = FreshIdx
  <1>1. m \in Nat \ {0}
    BY DEF OnLine, Line
  <1>2. m = 1
    <2>1. m # 1 => m \in 2..m
      BY <1>1
    <2> QED BY <2>1 DEF OnLine, Line
  <1>3. \A n \in Control : idx[n] = 0
    BY <1>2 DEF OnLine
  <1> QED BY <1>2, <1>3 DEF TreeTypeOK, FreshIdx

LEMMA NextIInv ==
  ASSUME IInv, [TreeNext]_treeVars
  PROVE  IInv'
  <1>1. CASE UNCHANGED treeVars
    BY <1>1, TypeStep DEF treeVars, IInv, TreeTypeOK, TicksStartFresh, OnLine
  <1>2. CASE TickRoot
    BY <1>2, TypeStep, TickRootOnLine DEF IInv, TickRoot, TicksStartFresh, TreeNext
  <1>3. ASSUME TickLeaf \/ TickChild \/ NextChild \/ Decide
        PROVE  IInv'
    <2>1. dir # "idle" /\ dir' # "idle"
      BY <1>3 DEF TickLeaf, ActionReturns, TickChild, NextChild, Decide
    <2>2. PICK m, q : OnLine(q, m)
      BY <2>1 DEF IInv
    <2>3. CASE TickLeaf
      <3>1. OnLine(q, m)'
        BY <2>2, <2>3 DEF TickLeaf, ActionReturns, OnLine
      <3> QED BY <2>1, <2>3, <3>1, TypeStep DEF IInv, TicksStartFresh, TreeNext
    <2>4. CASE TickChild
      <3>1. PICK r : r = Longer(q, m, cursor')
        OBVIOUS
      <3>2. OnLine(r, m + 1)'
        BY <2>2, <2>4, <3>1, TickChildOnLine DEF IInv
      <3> QED BY <2>1, <2>4, <3>2, TypeStep DEF IInv, TicksStartFresh, TreeNext, Walk
    <2>5. CASE NextChild
      <3>1. PICK r : r = Aside(q, m, cursor')
        OBVIOUS
      <3>2. OnLine(r, m)'
        BY <2>2, <2>5, <3>1, NextChildOnLine DEF IInv
      <3> QED BY <2>1, <2>5, <3>2, TypeStep DEF IInv, TicksStartFresh, TreeNext, Walk
    <2>6. CASE Decide
      <3>1. PICK r : r = Shorter(q, m)
        OBVIOUS
      <3>2. OnLine(r, m - 1)'
        BY <2>2, <2>6, <3>1, DecideOnLine DEF IInv
      <3> QED BY <2>1, <2>6, <3>2, TypeStep DEF IInv, TicksStartFresh, TreeNext, Walk
    <2> QED BY <1>3, <2>3, <2>4, <2>5, <2>6
  <1>4. CASE EndTick
    <2>1. idx = FreshIdx /\ idx' = idx /\ dir' = "idle"
      BY <1>4, FreshAtRoot DEF IInv, EndTick
    <2> QED BY <1>4, <2>1, TypeStep DEF IInv, TicksStartFresh, FreshIdx, TreeNext, Walk
  <1> QED BY <1>1, <1>2, <1>3, <1>4 DEF TreeNext, Walk

LEMMA SpecKeepsIInv == TreeSpec => []IInv
  BY InitIInv, NextIInv, PTL DEF TreeSpec

\* The walk stays in the tree and no index runs past the last child.
THEOREM WalkStaysInTree == TreeSpec => []TreeTypeOK
  BY SpecKeepsIInv, PTL DEF IInv

\* Whatever the actions return, a tick leaves no child index behind.
THEOREM NoIndexIsLeft == TreeSpec => []TicksStartFresh
  BY SpecKeepsIInv, PTL DEF IInv

-----------------------------------------------------------------------------
(* The history of a tick.                                                  *)

Height   == Cardinality(Control)
Outcomes == [Leaf -> Status \cup {NoStatus}]
Statuses == [Node -> Status \cup {NoStatus}]

\* What the leaves may yet return, given what they have returned.
Completions == {o \in Outcomes : \A l \in Leaf : outcome[l] # NoStatus => o[l] = outcome[l]}

\* However the tick goes on, the children that a control node has left behind
\* have its neutral status, and a returning node the status it returns.
Judged(q, m) ==
  \A o \in Completions :
    /\ \A j \in 1..(m - 1) : \A c \in 1..idx[q[j]] :
         Verdicts(o)[Height - j][Children[q[j]][c]] = Neutral(q[j])
    /\ dir = "ret" => ret = Verdicts(o)[Height - (m - 1)][cursor]

\* r, of length e, passes through the cursor, which is returning, or through a
\* child that its control node has left behind.
Inside(r, e, q, m) == dir = "ret" /\ m <= e /\ \A i \in 1..m : r[i] = q[i]

Passed(r, e, q, m) ==
  \E j \in 1..(m - 1) : /\ j < e
                        /\ \A i \in 1..j : r[i] = q[i]
                        /\ \E c \in 1..idx[q[j]] : r[j + 1] = Children[q[j]][c]

\* The leaves that have run are below such nodes.
Ran(q, m) ==
  \A l \in Leaf : outcome[l] # NoStatus =>
    \E r, e : Line(r, e, l) /\ (Inside(r, e, q, m) \/ Passed(r, e, q, m))

HInv == /\ IInv
        /\ outcome \in Outcomes
        /\ dir # "idle" => \E m, q : OnLine(q, m) /\ Judged(q, m) /\ Ran(q, m)

-----------------------------------------------------------------------------

LEMMA HeightType == IsFiniteSet(Control) /\ Height \in Nat
  BY HistoryAssumption, Tables, FS_Subset, FS_CardinalityType DEF Height

\* A line has no more control nodes than there are.
LEMMA LineFits ==
  ASSUME NEW q, NEW m, NEW x, Line(q, m, x)
  PROVE  Height - (m - 1) \in 0..Height
  <1> DEFINE f == Shorter(q, m)
  <1>1. m \in Nat \ {0} /\ m - 1 \in Nat
    BY DEF Line
  <1>2. f \in [1..(m - 1) -> Control] /\ \A i, j \in 1..(m - 1) : f[i] = f[j] => i = j
    BY <1>1, LineControls DEF Shorter, Line
  <1>3. IsFiniteSet(1..(m - 1)) /\ Cardinality(1..(m - 1)) = m - 1
    <2>1. 1 \in Int /\ m - 1 \in Int
      BY <1>1
    <2> QED BY <1>1, <2>1, FS_Interval
  <1>4. ~(Height < m - 1)
    <2> HIDE DEF f
    <2> DEFINE I == 1..(m - 1)
    <2>1. f \in [I -> Control] /\ IsFiniteSet(I) /\ Cardinality(I) = m - 1
      BY <1>2, <1>3
    <2> HIDE DEF I
    <2>2. Cardinality(Control) < Cardinality(I) => \E x1, x2 \in I : x1 # x2 /\ f[x1] = f[x2]
      BY <2>1, HeightType, FS_PigeonHole
    <2> QED BY <1>2, <2>1, <2>2 DEF Height, I
  <1> QED BY <1>1, <1>4, HeightType

LEMMA CombineAllNeutral ==
  ASSUME NEW n \in Control, NEW s,
         \A i \in 1..Len(Children[n]) : s[Children[n][i]] = Neutral(n)
  PROVE  Combine(n, s) = Neutral(n)
  BY Tables DEF Combine

LEMMA CombineFirst ==
  ASSUME NEW n \in Control, NEW s, NEW i \in 1..Len(Children[n]),
         s[Children[n][i]] # Neutral(n),
         \A j \in 1..(i - 1) : s[Children[n][j]] = Neutral(n)
  PROVE  Combine(n, s) = s[Children[n][i]]
  <1> DEFINE S == {j \in DOMAIN Children[n] : s[Children[n][j]] # Neutral(n)}
             k == CHOOSE j \in S : \A h \in S : j <= h
  <1>1. i \in S /\ S \subseteq Nat /\ \A j \in S : i <= j
    BY Tables
  <1>2. Combine(n, s) = s[Children[n][k]]
    BY <1>1 DEF Combine
  <1>3. k = i
    <2> HIDE DEF S
    <2>1. k \in S /\ \A h \in S : k <= h
      BY <1>1
    <2> HIDE DEF k
    <2>2. k \in Nat /\ i \in Nat /\ k <= i /\ i <= k
      BY <1>1, <2>1
    <2> QED BY <2>2
  <1> QED BY <1>2, <1>3

LEMMA LevelType ==
  ASSUME NEW o \in Outcomes, NEW s \in Statuses
  PROVE  Level(o, s) \in Statuses
  <1>1. ASSUME NEW n \in Control PROVE Combine(n, s) \in Status \cup {NoStatus}
    <2> DEFINE S == {j \in DOMAIN Children[n] : s[Children[n][j]] # Neutral(n)}
    <2>1. CASE S = {}
      BY <2>1, Kinds DEF Combine
    <2>2. CASE S # {}
      <3>1. S \subseteq Nat /\ S \subseteq 1..Len(Children[n])
        BY Tables
      <3>2. PICK i \in S : \A j \in S : i <= j
        <4> HIDE DEF S
        <4> QED BY <2>2, <3>1, LeastOf
      <3>3. \A j \in 1..(i - 1) : s[Children[n][j]] = Neutral(n)
        BY <3>1, <3>2, Tables
      <3>4. Combine(n, s) = s[Children[n][i]]
        BY <3>1, <3>2, <3>3, CombineFirst
      <3>5. Children[n][i] \in Node
        BY <3>1, <3>2, Tables
      <3> QED BY <3>4, <3>5 DEF Statuses
    <2> QED BY <2>1, <2>2
  <1>2. \A n \in Node : n \in Leaf \/ n \in Control
    BY DEF Leaf
  <1> QED BY <1>1, <1>2 DEF Level, Outcomes, Statuses

\* The tables of the reference are what their definition says.
LEMMA VerdictsAre ==
  ASSUME NEW o \in Outcomes
  PROVE  /\ \A d \in 0..Height : \A l \in Leaf : Verdicts(o)[d][l] = o[l]
         /\ \A d \in 1..Height : \A n \in Control :
              Verdicts(o)[d][n] = Combine(n, Verdicts(o)[d - 1])
  <1> DEFINE first == [n \in Node |-> IF n \in Leaf THEN o[n] ELSE NoStatus]
             step  == [s \in Statuses |-> Level(o, s)]
             Solves(f) == f = [d \in 0..Height |-> IF d = 0 THEN first ELSE Level(o, f[d - 1])]
  <1>1. first \in Statuses
    BY DEF Statuses, Outcomes
  <1>2. Recursion(Height, Statuses, first, step)
    BY <1>1, LevelType, HeightType DEF Recursion
  <1>3. PICK f : IsTable(f, Height, Statuses, first, step)
    <2> HIDE DEF step, first
    <2> QED BY <1>2, RecursionUpTo
  <1>4. ASSUME NEW d \in 0..Height
        PROVE  f[d] = IF d = 0 THEN first ELSE Level(o, f[d - 1])
    <2> HIDE DEF first
    <2>1. CASE d = 0
      BY <1>3, <2>1 DEF IsTable
    <2>2. CASE d # 0
      <3>1. d \in 1..Height /\ d - 1 \in 0..Height
        BY <2>2, HeightType
      <3>2. f[d - 1] \in Statuses /\ f[d] = step[f[d - 1]]
        <4> HIDE DEF step
        <4> QED BY <1>3, <3>1 DEF IsTable
      <3> QED BY <2>2, <3>2
    <2> QED BY <2>1, <2>2
  <1>5. Solves(f)
    <2> HIDE DEF first
    <2>1. f \in [0..Height -> Statuses]
      BY <1>3 DEF IsTable
    <2> QED BY <1>4, <2>1
  <1>6. Verdicts(o) = CHOOSE g : Solves(g)
    BY DEF Verdicts, Height
  <1>7. Solves(Verdicts(o))
    <2> HIDE DEF Solves
    <2> QED BY <1>5, <1>6
  <1> DEFINE v == Verdicts(o)
  <1>8. v[0] = first /\ \A d \in 1..Height : v[d] = Level(o, v[d - 1])
    <2> HIDE DEF first
    <2> QED BY <1>7, HeightType
  <1> HIDE DEF v
  <1>9. \A d \in 0..Height : \A l \in Leaf : v[d][l] = o[l]
    <2> SUFFICES ASSUME NEW d \in 0..Height, NEW l \in Leaf PROVE v[d][l] = o[l]
      OBVIOUS
    <2>1. l \in Node
      BY DEF Leaf
    <2>2. CASE d = 0
      BY <1>8, <2>1, <2>2
    <2>3. CASE d # 0
      <3>1. d \in 1..Height
        BY <2>3, HeightType
      <3> QED BY <1>8, <2>1, <3>1 DEF Level
    <2> QED BY <2>2, <2>3
  <1>10. ASSUME NEW d \in 1..Height, NEW n \in Control PROVE v[d][n] = Combine(n, v[d - 1])
    <2>1. v[d] = Level(o, v[d - 1]) /\ n \in Node /\ n \notin Leaf
      BY <1>8, Tables DEF Leaf
    <2> QED BY <2>1 DEF Level
  <1> QED BY <1>9, <1>10 DEF v

-----------------------------------------------------------------------------
(* What the history says of the next step.                                 *)

\* A leaf that is about to be ticked is on no line that the walk left behind.
LEMMA NotYetRun ==
  ASSUME TreeTypeOK, dir = "tick", cursor \in Leaf,
         NEW q, NEW m, OnLine(q, m), Ran(q, m)
  PROVE  outcome[cursor] = NoStatus
  <1> SUFFICES ASSUME outcome[cursor] # NoStatus PROVE FALSE
    OBVIOUS
  <1>1. PICK r, e : Line(r, e, cursor) /\ Passed(r, e, q, m)
    BY DEF Ran, Inside
  <1>2. PICK j \in 1..(m - 1) : /\ j < e
                                /\ \E c \in 1..idx[q[j]] : r[j + 1] = Children[q[j]][c]
    BY <1>1 DEF Passed
  <1>3. PICK c \in 1..idx[q[j]] : r[j + 1] = Children[q[j]][c]
    BY <1>2
  <1>4. m \in Nat \ {0} /\ j + 1 \in 1..m
    BY DEF OnLine, Line
  <1>5. r[j + 1] = q[j + 1]
    BY <1>1, <1>4, OneLine DEF OnLine
  <1>6. q[j] \in Control /\ q[j + 1] = Children[q[j]][idx[q[j]] + 1]
    BY LineControls DEF OnLine
  <1>7. /\ idx[q[j]] \in Nat /\ Len(Children[q[j]]) \in Nat
        /\ c \in 1..Len(Children[q[j]]) /\ idx[q[j]] + 1 \in 1..Len(Children[q[j]])
        /\ c # idx[q[j]] + 1
    BY <1>6, Tables DEF TreeTypeOK
  <1>8. Children[q[j]][c] = Children[q[j]][idx[q[j]] + 1]
    BY <1>3, <1>5, <1>6
  <1>9. \A a, b \in 1..Len(Children[q[j]]) : Children[q[j]][a] = Children[q[j]][b] => a = b
    BY <1>6, Tables
  <1> QED BY <1>7, <1>8, <1>9

\* What has returned to the root is what the reference says.
LEMMA RootJudged ==
  ASSUME HInv, dir = "ret", cursor = Root
  PROVE  ret = Verdict(Root)
  <1>1. PICK m, q : OnLine(q, m) /\ Judged(q, m)
    BY DEF HInv
  <1>2. m = 1
    BY <1>1, FreshAtRoot DEF HInv, IInv
  <1>3. outcome \in Completions
    BY DEF HInv, Completions
  <1>4. Height - (m - 1) = Height
    BY <1>2, HeightType
  <1> QED BY <1>1, <1>3, <1>4 DEF Judged, Verdict, Height

-----------------------------------------------------------------------------
(* The steps of the history.                                               *)

LEMMA StartTickHistory ==
  ASSUME HInv, StartTick
  PROVE  HInv'
  <1>1. IInv' /\ outcome' = Silent
    BY NextIInv DEF HInv, StartTick, TreeNext
  <1>2. dir' = "tick"
    BY DEF StartTick, TickRoot
  <1>3. PICK q : OnLine(q, 1)'
    BY TickRootOnLine DEF HInv, StartTick
  <1>4. \A j \in 1..(1 - 1) : FALSE
    OBVIOUS
  <1>5. Judged(q, 1)'
    BY <1>2, <1>4 DEF Judged
  <1>6. Ran(q, 1)'
    BY <1>1 DEF Ran, Silent
  <1>7. outcome' \in Outcomes
    BY <1>1 DEF Silent, Outcomes
  <1> QED BY <1>1, <1>3, <1>5, <1>6, <1>7 DEF HInv

LEMMA TickChildHistory ==
  ASSUME HInv, TickChild, UNCHANGED outcome
  PROVE  HInv'
  <1>1. IInv' /\ TreeTypeOK
    BY NextIInv DEF HInv, IInv, TreeNext, Walk
  <1>2. dir = "tick" /\ dir' = "tick" /\ idx' = idx /\ cursor \in Control
    BY DEF TickChild
  <1>3. PICK m, q : OnLine(q, m) /\ Judged(q, m) /\ Ran(q, m)
    BY <1>2 DEF HInv
  <1>4. PICK r : r = Longer(q, m, cursor')
    OBVIOUS
  <1>5. OnLine(r, m + 1)' /\ idx[cursor] = 0
    BY <1>1, <1>3, <1>4, TickChildOnLine
  <1>6. m \in Nat \ {0} /\ q[m] = cursor /\ m + 1 - 1 = m
    BY <1>3 DEF OnLine, Line
  <1>7. \A j \in 1..m : r[j] = q[j]
    BY <1>4, <1>6 DEF Longer
  <1>8. Judged(r, m + 1)'
    <2> SUFFICES ASSUME NEW o \in Completions, NEW j \in 1..m, NEW c \in 1..idx[r[j]]
                 PROVE  Verdicts(o)[Height - j][Children[r[j]][c]] = Neutral(r[j])
      BY <1>2, <1>6 DEF Judged, Completions
    <2>1. CASE j = m
      BY <1>5, <1>6, <1>7, <2>1
    <2>2. CASE j # m
      <3>1. j \in 1..(m - 1) /\ r[j] = q[j]
        BY <1>6, <1>7, <2>2
      <3> QED BY <1>3, <3>1 DEF Judged
    <2> QED BY <2>1, <2>2
  <1>9. Ran(r, m + 1)'
    <2> SUFFICES ASSUME NEW l \in Leaf, outcome[l] # NoStatus
                 PROVE  \E s, e : Line(s, e, l) /\ Passed(s, e, r, m + 1)'
      BY DEF Ran
    <2>1. PICK s, e : Line(s, e, l) /\ Passed(s, e, q, m)
      BY <1>2, <1>3 DEF Ran, Inside
    <2>2. PICK j \in 1..(m - 1) : /\ j < e
                                  /\ \A i \in 1..j : s[i] = q[i]
                                  /\ \E c \in 1..idx[q[j]] : s[j + 1] = Children[q[j]][c]
      BY <2>1 DEF Passed
    <2>3. j \in 1..(m + 1 - 1) /\ r[j] = q[j] /\ \A i \in 1..j : r[i] = q[i]
      BY <1>6, <1>7
    <2>4. \A i \in 1..j : s[i] = r[i]
      BY <2>2, <2>3
    <2>5. \E c \in 1..idx'[r[j]] : s[j + 1] = Children[r[j]][c]
      <3>1. PICK c \in 1..idx[q[j]] : s[j + 1] = Children[q[j]][c]
        BY <2>2
      <3>2. idx'[r[j]] = idx[q[j]] /\ Children[r[j]] = Children[q[j]]
        BY <1>2, <2>3
      <3> QED BY <3>1, <3>2
    <2>6. Passed(s, e, r, m + 1)'
      <3>1. PICK k : k = m + 1 /\ j \in 1..(k - 1)
        BY <1>6, <2>3
      <3>2. \E h \in 1..(k - 1) : /\ h < e
                                   /\ \A i \in 1..h : s[i] = r[i]
                                   /\ \E c \in 1..idx'[r[h]] : s[h + 1] = Children[r[h]][c]
        BY <2>2, <2>4, <2>5, <3>1
      <3>3. Passed(s, e, r, k)'
        BY <3>2 DEF Passed
      <3> QED BY <3>1, <3>3
    <2> QED BY <2>1, <2>6
  <1> QED BY <1>1, <1>5, <1>8, <1>9 DEF HInv

LEMMA RunLeafHistory ==
  ASSUME HInv, RunLeaf
  PROVE  HInv'
  <1>1. IInv' /\ TreeTypeOK
    BY NextIInv DEF HInv, IInv, TreeNext, RunLeaf
  <1>2. /\ dir = "tick" /\ dir' = "ret" /\ cursor \in Leaf /\ ret' \in Status
        /\ idx' = idx /\ cursor' = cursor /\ outcome' = [outcome EXCEPT ![cursor] = ret']
    BY DEF RunLeaf, TickLeaf, ActionReturns
  <1>3. PICK m, q : OnLine(q, m) /\ Judged(q, m) /\ Ran(q, m)
    BY <1>2 DEF HInv
  <1>4. outcome[cursor] = NoStatus /\ outcome \in Outcomes
    BY <1>1, <1>2, <1>3, NotYetRun DEF HInv
  <1>5. outcome' \in Outcomes
    BY <1>2, <1>4 DEF Outcomes
  <1>6. OnLine(q, m)' /\ Line(q, m, cursor) /\ m \in Nat \ {0}
    BY <1>2, <1>3 DEF OnLine, Line
  <1>7. Judged(q, m)'
    <2> SUFFICES ASSUME NEW o \in Completions'
                 PROVE  /\ \A j \in 1..(m - 1) : \A c \in 1..idx[q[j]] :
                             Verdicts(o)[Height - j][Children[q[j]][c]] = Neutral(q[j])
                        /\ ret' = Verdicts(o)[Height - (m - 1)][cursor]
      BY <1>2 DEF Judged
    <2>1. o \in Outcomes /\ o[cursor] = ret'
      BY <1>2, <1>4, HistoryAssumption DEF Completions, Outcomes
    <2>2. o \in Completions
      BY <1>2, <1>4, <2>1 DEF Completions, Outcomes
    <2>3. Verdicts(o)[Height - (m - 1)][cursor] = o[cursor]
      BY <1>2, <1>6, <2>1, LineFits, VerdictsAre
    <2> QED BY <1>3, <2>1, <2>2, <2>3 DEF Judged
  <1>8. Ran(q, m)'
    <2> SUFFICES ASSUME NEW l \in Leaf, outcome'[l] # NoStatus
                 PROVE  \E s, e : Line(s, e, l) /\ (Inside(s, e, q, m)' \/ Passed(s, e, q, m)')
      BY DEF Ran
    <2>1. CASE l = cursor
      BY <1>2, <1>6, <2>1 DEF Inside
    <2>2. CASE l # cursor
      <3>1. outcome[l] # NoStatus
        BY <1>2, <1>4, <2>2 DEF Outcomes
      <3>2. PICK s, e : Line(s, e, l) /\ Passed(s, e, q, m)
        BY <1>2, <1>3, <3>1 DEF Ran, Inside
      <3>3. Passed(s, e, q, m)'
        BY <1>2, <3>2 DEF Passed
      <3> QED BY <3>2, <3>3
    <2> QED BY <2>1, <2>2
  <1> QED BY <1>1, <1>5, <1>6, <1>7, <1>8 DEF HInv

LEMMA NextChildHistory ==
  ASSUME HInv, NextChild, UNCHANGED outcome
  PROVE  HInv'
  <1>1. IInv' /\ TreeTypeOK
    BY NextIInv DEF HInv, IInv, TreeNext, Walk
  <1>2. dir = "ret" /\ dir' = "tick" /\ cursor # Root /\ ret = GoesOn(Parent[cursor])
    BY DEF NextChild
  <1>3. PICK m, q : OnLine(q, m) /\ Judged(q, m) /\ Ran(q, m)
    BY <1>2 DEF HInv
  <1>4. PICK r : r = Aside(q, m, cursor')
    OBVIOUS
  <1>5. OnLine(r, m)'
    BY <1>1, <1>3, <1>4, NextChildOnLine
  <1> DEFINE p == q[m - 1]
  <1>6. /\ m \in Nat /\ m >= 2 /\ Parent[cursor] = p /\ p \in Control
        /\ idx[p] \in Nat /\ idx \in [Control -> Nat]
        /\ cursor = Children[p][idx[p] + 1]
    BY <1>1, <1>2, <1>3, OfParent
  <1>7. idx' = [idx EXCEPT ![p] = idx[p] + 1]
    BY <1>6 DEF NextChild
  <1>8. \A j \in 1..(m - 1) : /\ r[j] = q[j] /\ q[j] \in Control
                              /\ j # m - 1 => q[j] # p
    <2>1. \A j \in 1..(m - 1) : q[j] \in Control
      BY <1>3, LineControls DEF OnLine
    <2> QED BY <1>3, <1>4, <1>6, <2>1 DEF Aside, OnLine, Line
  <1>9. \A j \in 1..(m - 1) : idx'[q[j]] = IF j = m - 1 THEN idx[p] + 1 ELSE idx[q[j]]
    BY <1>6, <1>7, <1>8
  <1>10. Judged(r, m)'
    <2> SUFFICES ASSUME NEW o \in Completions, NEW j \in 1..(m - 1), NEW c \in 1..idx'[r[j]]
                 PROVE  Verdicts(o)[Height - j][Children[r[j]][c]] = Neutral(r[j])
      BY <1>2 DEF Judged, Completions
    <2>1. CASE c \in 1..idx[q[j]]
      BY <1>3, <1>8, <2>1 DEF Judged
    <2>2. CASE j = m - 1 /\ c = idx[p] + 1
      <3>1. ret = Verdicts(o)[Height - (m - 1)][cursor]
        BY <1>2, <1>3 DEF Judged
      <3> QED BY <1>2, <1>6, <1>8, <2>2, <3>1, Kinds
    <2> QED BY <1>6, <1>8, <1>9, <2>1, <2>2
  <1>11. Ran(r, m)'
    <2> SUFFICES ASSUME NEW l \in Leaf, outcome[l] # NoStatus
                 PROVE  \E s, e : Line(s, e, l) /\ Passed(s, e, r, m)'
      BY DEF Ran
    <2>1. PICK s, e : Line(s, e, l) /\ (Inside(s, e, q, m) \/ Passed(s, e, q, m))
      BY <1>3 DEF Ran
    <2>2. CASE Inside(s, e, q, m)
      <3>1. m - 1 \in 1..(m - 1) /\ m - 1 < e /\ m - 1 + 1 = m /\ m \in 1..m
        BY <1>6, <2>1, <2>2 DEF Inside, Line
      <3>2. \A i \in 1..(m - 1) : i \in 1..m /\ s[i] = r[i]
        BY <1>6, <1>8, <2>2 DEF Inside
      <3>3. s[m] = Children[p][idx[p] + 1]
        BY <1>3, <1>6, <2>2, <3>1 DEF Inside, OnLine, Line
      <3>4. r[m - 1] = p /\ idx[p] + 1 \in 1..idx'[p]
        BY <1>6, <1>8, <1>9, <3>1
      <3>5. Passed(s, e, r, m)'
        BY <3>1, <3>2, <3>3, <3>4 DEF Passed
      <3> QED BY <2>1, <3>5
    <2>3. CASE Passed(s, e, q, m)
      <3>1. PICK j \in 1..(m - 1) : /\ j < e
                                    /\ \A i \in 1..j : s[i] = q[i]
                                    /\ \E c \in 1..idx[q[j]] : s[j + 1] = Children[q[j]][c]
        BY <2>3 DEF Passed
      <3>2. r[j] = q[j] /\ \A i \in 1..j : r[i] = q[i]
        BY <1>6, <1>8
      <3>3. 1..idx[q[j]] \subseteq 1..idx'[r[j]]
        BY <1>6, <1>8, <1>9, <3>2
      <3>4. \E c \in 1..idx'[r[j]] : s[j + 1] = Children[r[j]][c]
        BY <3>1, <3>2, <3>3
      <3>5. Passed(s, e, r, m)'
        BY <3>1, <3>2, <3>4 DEF Passed
      <3> QED BY <2>1, <3>5
    <2> QED BY <2>1, <2>2, <2>3
  <1> QED BY <1>1, <1>5, <1>10, <1>11 DEF HInv

LEMMA DecideHistory ==
  ASSUME HInv, Decide, UNCHANGED outcome
  PROVE  HInv'
  <1>1. IInv' /\ TreeTypeOK
    BY NextIInv DEF HInv, IInv, TreeNext, Walk
  <1>2. dir = "ret" /\ dir' = "ret" /\ cursor # Root /\ ret' = ret
    BY DEF Decide
  <1>3. PICK m, q : OnLine(q, m) /\ Judged(q, m) /\ Ran(q, m)
    BY <1>2 DEF HInv
  <1>4. PICK r : r = Shorter(q, m)
    OBVIOUS
  <1>5. OnLine(r, m - 1)'
    BY <1>1, <1>3, <1>4, DecideOnLine
  <1> DEFINE p == q[m - 1]
             last == Len(Children[p])
  <1>6. /\ m \in Nat /\ m >= 2 /\ Parent[cursor] = p /\ p \in Control
        /\ idx[p] \in Nat /\ idx \in [Control -> Nat] /\ last \in Nat
        /\ idx[p] + 1 \in 1..last /\ cursor = Children[p][idx[p] + 1]
    BY <1>1, <1>2, <1>3, OfParent
  <1>7. /\ cursor' = p /\ idx' = [idx EXCEPT ![p] = 0]
        /\ ret # GoesOn(p) \/ idx[p] + 1 = last
    BY <1>6 DEF Decide
  <1>8. \A j \in 1..(m - 1) : /\ r[j] = q[j] /\ q[j] \in Control
                              /\ j # m - 1 => q[j] # p
    <2>1. \A j \in 1..(m - 1) : q[j] \in Control
      BY <1>3, LineControls DEF OnLine
    <2> QED BY <1>3, <1>4, <1>6, <2>1 DEF Shorter, OnLine, Line
  <1>9. \A j \in 1..(m - 1 - 1) : j \in 1..(m - 1) /\ j # m - 1 /\ idx'[q[j]] = idx[q[j]]
    BY <1>6, <1>7, <1>8
  <1>10. ASSUME NEW o \in Completions
         PROVE  ret = Verdicts(o)[Height - (m - 1 - 1)][p]
    <2> DEFINE s == Verdicts(o)[Height - (m - 1)]
    <2>1. Height - (m - 1 - 1) \in 1..Height /\ Height - (m - 1 - 1) - 1 = Height - (m - 1)
      <3>1. Line(q, m, cursor) /\ Line(r, m - 1, p)
        BY <1>3, <1>5, <1>7 DEF OnLine, Line
      <3>2. Height - (m - 1) \in 0..Height /\ Height - (m - 1 - 1) \in 0..Height
        BY <3>1, LineFits
      <3> QED BY <1>6, <3>2, HeightType
    <2>2. Verdicts(o)[Height - (m - 1 - 1)][p] = Combine(p, s)
      BY <1>6, <2>1, VerdictsAre DEF Completions
    <2>3. ret = s[Children[p][idx[p] + 1]]
      BY <1>2, <1>3, <1>6 DEF Judged
    <2>4. \A c \in 1..idx[p] : s[Children[p][c]] = Neutral(p)
      <3>1. m - 1 \in 1..(m - 1)
        BY <1>6
      <3> QED BY <1>3, <3>1 DEF Judged
    <2> HIDE DEF s, p
    <2>5. CASE ret # GoesOn(p)
      <3>1. s[Children[p][idx[p] + 1]] # Neutral(p)
        BY <1>6, <2>3, <2>5, Kinds
      <3>2. \A c \in 1..(idx[p] + 1 - 1) : s[Children[p][c]] = Neutral(p)
        BY <1>6, <2>4
      <3>3. idx[p] + 1 \in 1..Len(Children[p]) /\ p \in Control
        BY <1>6
      <3>4. PICK i : i = idx[p] + 1
        OBVIOUS
      <3>5. /\ i \in 1..Len(Children[p]) /\ s[Children[p][i]] # Neutral(p)
            /\ \A c \in 1..(i - 1) : s[Children[p][c]] = Neutral(p)
        BY <1>6, <2>5, <3>1, <3>2, <3>3, <3>4
      <3>6. Combine(p, s) = s[Children[p][i]]
        BY <3>3, <3>5, CombineFirst
      <3> QED BY <2>2, <2>3, <3>4, <3>6
    <2>6. CASE ret = GoesOn(p) /\ idx[p] + 1 = last
      <3>1. s[Children[p][idx[p] + 1]] = Neutral(p)
        BY <1>6, <2>3, <2>6, Kinds
      <3>2. \A c \in 1..last : c \in 1..idx[p] \/ c = idx[p] + 1
        BY <1>6, <2>6
      <3>3. \A c \in 1..Len(Children[p]) : s[Children[p][c]] = Neutral(p)
        BY <2>4, <3>1, <3>2
      <3> QED BY <1>6, <2>2, <2>3, <3>1, <3>3, CombineAllNeutral
    <2> QED BY <1>7, <2>5, <2>6
  <1>11. Judged(r, m - 1)'
    <2>1. \A o \in Completions :
            \A j \in 1..(m - 1 - 1) : \A c \in 1..idx'[r[j]] :
              Verdicts(o)[Height - j][Children[r[j]][c]] = Neutral(r[j])
      BY <1>3, <1>8, <1>9 DEF Judged
    <2> QED BY <1>2, <1>7, <1>10, <2>1 DEF Judged, Completions
  <1>12. Ran(r, m - 1)'
    <2> SUFFICES ASSUME NEW l \in Leaf, outcome[l] # NoStatus
                 PROVE  \E s, e : /\ Line(s, e, l)
                                  /\ Inside(s, e, r, m - 1)' \/ Passed(s, e, r, m - 1)'
      BY DEF Ran
    <2>1. PICK s, e : Line(s, e, l) /\ (Inside(s, e, q, m) \/ Passed(s, e, q, m))
      BY <1>3 DEF Ran
    <2>2. e \in Nat
      BY <2>1 DEF Line
    <2>3. CASE Inside(s, e, q, m)
      <3>1. m - 1 <= e /\ \A i \in 1..(m - 1) : s[i] = r[i]
        BY <1>6, <1>8, <2>2, <2>3 DEF Inside
      <3>2. Inside(s, e, r, m - 1)'
        BY <1>2, <3>1 DEF Inside
      <3> QED BY <2>1, <3>2
    <2>4. CASE Passed(s, e, q, m)
      <3>1. PICK j \in 1..(m - 1) : /\ j < e
                                    /\ \A i \in 1..j : s[i] = q[i]
                                    /\ \E c \in 1..idx[q[j]] : s[j + 1] = Children[q[j]][c]
        BY <2>4 DEF Passed
      <3>2. \A i \in 1..j : s[i] = r[i]
        BY <1>6, <1>8, <3>1
      <3>3. CASE j = m - 1
        <4>1. m - 1 <= e
          BY <1>6, <2>2, <3>1, <3>3
        <4>2. Inside(s, e, r, m - 1)'
          BY <1>2, <3>2, <3>3, <4>1 DEF Inside
        <4> QED BY <2>1, <4>2
      <3>4. CASE j # m - 1
        <4>1. j \in 1..(m - 1 - 1)
          BY <1>6, <3>4
        <4>2. \E c \in 1..idx'[r[j]] : s[j + 1] = Children[r[j]][c]
          BY <1>8, <1>9, <3>1, <4>1
        <4>3. Passed(s, e, r, m - 1)'
          BY <3>1, <3>2, <4>1, <4>2 DEF Passed
        <4> QED BY <2>1, <4>3
      <3> QED BY <3>3, <3>4
    <2> QED BY <2>1, <2>3, <2>4
  <1> QED BY <1>1, <1>5, <1>11, <1>12 DEF HInv

LEMMA EndTickHistory ==
  ASSUME HInv, EndTick, UNCHANGED outcome
  PROVE  HInv'
  <1>1. IInv' /\ dir' = "idle"
    BY NextIInv DEF HInv, EndTick, TreeNext, Walk
  <1> QED BY <1>1 DEF HInv

LEMMA SpecKeepsHInv == Spec => []HInv
  <1>1. Init => HInv
    BY InitIInv DEF Init, HInv, TreeInit, Silent, Outcomes
  <1>2. ASSUME HInv, UNCHANGED vars PROVE HInv'
    <2>1. IInv'
      BY <1>2, NextIInv DEF HInv, vars
    <2>2. ASSUME NEW m, NEW q, OnLine(q, m), Judged(q, m), Ran(q, m)
          PROVE  OnLine(q, m)' /\ Judged(q, m)' /\ Ran(q, m)'
      BY <1>2, <2>2 DEF vars, treeVars, OnLine, Judged, Completions, Ran, Inside, Passed
    <2> QED BY <1>2, <2>1, <2>2 DEF vars, treeVars, HInv
  <1>3. HInv /\ [Next]_vars => HInv'
    BY <1>2, StartTickHistory, RunLeafHistory, TickChildHistory, NextChildHistory,
       DecideHistory, EndTickHistory DEF Next, Walk
  <1> QED BY <1>1, <1>3, PTL DEF Spec

\* Whatever the tree and whatever its actions return, a tick ticks no action
\* twice.
THEOREM LeavesRunOnce == Spec => []NoLeafTwice
  <1>1. HInv => NoLeafTwice
    BY NotYetRun DEF HInv, IInv, NoLeafTwice
  <1> QED BY <1>1, SpecKeepsHInv, PTL

\* The walk with its indices computes what the contracts of the node kinds say:
\* a tick returns the verdict of the tree on what its actions returned.
THEOREM TickIsVerdict == Spec => []TickReturnsVerdict
  <1>1. HInv => TickReturnsVerdict
    BY RootJudged DEF TickReturnsVerdict
  <1> QED BY <1>1, SpecKeepsHInv, PTL
=============================================================================
