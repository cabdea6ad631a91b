---------------------------- MODULE TickHistory ----------------------------
(***************************************************************************)
(* The walk of BehaviorTree with the history of the current tick, against  *)
(* the reading of the node kinds' contracts from the leaves up: a Sequence *)
(* succeeds iff all its children do, a Fallback fails iff all its children *)
(* do, and neither ticks a child after the one that decides it.            *)
(***************************************************************************)
EXTENDS BehaviorTree, FiniteSets

CONSTANT NoStatus

ASSUME HistoryAssumption == NoStatus \notin Status /\ IsFiniteSet(Node)

VARIABLE outcome    \* leaf |-> the status it returned in this tick

vars == <<treeVars, outcome>>

Silent == [l \in Leaf |-> NoStatus]

Init == TreeInit /\ outcome = Silent

StartTick == TickRoot /\ outcome' = Silent

RunLeaf == TickLeaf /\ outcome' = [outcome EXCEPT ![cursor] = ret']

Next == StartTick \/ RunLeaf \/ (Walk /\ UNCHANGED outcome)

Spec == Init /\ [][Next]_vars

\* The thread of the handler runs and its actions return.
FairSpec == Spec /\ WF_vars(Next)

-----------------------------------------------------------------------------
(* The reference: the status of a node given what the leaves returned.     *)

Neutral(n) == IF Kind[n] = "Fallback" THEN "FAILURE" ELSE "SUCCESS"

\* The status of a control node given that of its children: that of the first
\* child whose status is not the neutral one.
Combine(n, s) ==
  LET deciding == {i \in DOMAIN Children[n] : s[Children[n][i]] # Neutral(n)}
  IN  IF deciding = {} THEN Neutral(n)
      ELSE s[Children[n][CHOOSE i \in deciding : \A j \in deciding : i <= j]]

\* The statuses of all nodes, one level further up than s.
Level(o, s) == [n \in Node |-> IF n \in Leaf THEN o[n] ELSE Combine(n, s)]

\* Verdicts(o)[d]: what the leaves' outcomes o make of the nodes that have at
\* most d control nodes above one another in them.
Verdicts(o) ==
  LET v[d \in 0..Cardinality(Control)] ==
        IF d = 0 THEN [n \in Node |-> IF n \in Leaf THEN o[n] ELSE NoStatus]
        ELSE Level(o, v[d - 1])
  IN  v

Verdict(n) == Verdicts(outcome)[Cardinality(Control)][n]

\* Every tick returns the status that the tree's structure assigns to the
\* outcomes of the actions it ran (SequenceNode, FallbackNode).
TickReturnsVerdict == (dir = "ret" /\ cursor = Root) => ret = Verdict(Root)

\* The leaf about to be ticked has not run in this tick: SequenceNode and
\* FallbackNode advance current_child_idx_ past the child that returned.
NoLeafTwice == (dir = "tick" /\ cursor \in Leaf) => outcome[cursor] = NoStatus

\* The walk of a tick ends: tickRoot() returns if the actions return.
TicksEnd == []<>(dir = "idle")
=============================================================================
