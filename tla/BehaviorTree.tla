---------------------------- MODULE BehaviorTree ----------------------------
(***************************************************************************)
(* One tick of a behaviour tree of BehaviorTree.CPP v3 made of Sequences,  *)
(* Fallbacks and synchronous actions, the node kinds that                  *)
(* migration_subtree.xml uses.  The library is linked as a binary; its     *)
(* node classes are modelled from their use and their class declarations.  *)
(*                                                                         *)
(* A tick is a depth-first walk.  cursor is the node whose executeTick()   *)
(* is on top of the call stack, dir tells whether the call is going down   *)
(* ("tick") or returning ("ret") with the status ret, and idx is the       *)
(* member current_child_idx_ that each control node keeps between ticks.   *)
(***************************************************************************)
EXTENDS Naturals, Sequences

CONSTANTS
  Root,       \* the root node
  Kind,       \* node |-> "Sequence", "Fallback" or "Action"
  Children,   \* control node |-> the sequence of its children
  Parent      \* every node but the root |-> its control node

Node    == DOMAIN Kind
Control == DOMAIN Children
Leaf    == Node \ Control
Status  == {"SUCCESS", "FAILURE"}

\* The tables describe one tree: a control node has children, each of them
\* once, and they, and only they, name it as their parent.
ASSUME TreeAssumption ==
  /\ Root \in Control
  /\ Control \subseteq Node
  /\ DOMAIN Parent = Node \ {Root}
  /\ \A n \in Node : (Kind[n] \in {"Sequence", "Fallback"}) <=> (n \in Control)
  /\ \A n \in Control : /\ Children[n] \in Seq(Node \ {Root})
                        /\ Children[n] # << >>
                        /\ \A i \in 1..Len(Children[n]) : Parent[Children[n][i]] = n
                        /\ \A i, j \in 1..Len(Children[n]) :
                             Children[n][i] = Children[n][j] => i = j
  /\ \A n \in DOMAIN Parent : /\ Parent[n] \in Control
                              /\ \E i \in 1..Len(Children[Parent[n]]) :
                                    Children[Parent[n]][i] = n

VARIABLES cursor, dir, ret, idx

treeVars == <<cursor, dir, ret, idx>>

-----------------------------------------------------------------------------

FreshIdx == [n \in Control |-> 0]

TreeInit == /\ cursor = Root
            /\ dir = "idle"
            /\ ret = "SUCCESS"
            /\ idx = FreshIdx

\* Mutant: every control node is taken for a Sequence.
GoesOn_AllSequences(n) == "SUCCESS"

\* The child status after which a control node goes on to its next child.
GoesOn(n) == IF Kind[n] = "Sequence" THEN "SUCCESS" ELSE "FAILURE"

\* Tree::tickRoot() calls executeTick() on the root.
TickRoot == /\ dir = "idle"
            /\ dir' = "tick"
            /\ cursor' = Root
            /\ UNCHANGED <<ret, idx>>

\* A control node ticks the child at current_child_idx_.
TickChild == /\ dir = "tick"
             /\ cursor \in Control
             /\ cursor' = Children[cursor][idx[cursor] + 1]
             /\ UNCHANGED <<dir, ret, idx>>

\* The action on top of the stack returns s; conjoined with its effect.
ActionReturns(s) == /\ dir' = "ret"
                    /\ ret' = s
                    /\ UNCHANGED <<cursor, idx>>

\* An action is ticked and returns, whatever it does.
TickLeaf == /\ dir = "tick"
            /\ cursor \in Leaf
            /\ \E s \in Status : ActionReturns(s)

\* Mutant: the index is not advanced, the same child is ticked again.
NextChild_SameChild ==
  /\ dir = "ret"
  /\ cursor # Root
  /\ ret = GoesOn(Parent[cursor])
  /\ idx[Parent[cursor]] + 1 < Len(Children[Parent[cursor]])
  /\ dir' = "tick"
  /\ UNCHANGED <<cursor, ret, idx>>

\* The control node above the returning child moves on to the next child.
NextChild ==
  /\ dir = "ret"
  /\ cursor # Root
  /\ LET p == Parent[cursor] IN
       /\ ret = GoesOn(p)
       /\ idx[p] + 1 < Len(Children[p])
       /\ idx' = [idx EXCEPT ![p] = @ + 1]
       /\ cursor' = Children[p][idx[p] + 2]
  /\ dir' = "tick"
  /\ UNCHANGED ret

\* Mutant: the index survives a decision, as in a SequenceStar.
Decide_KeepsIndex ==
  /\ dir = "ret"
  /\ cursor # Root
  /\ \/ ret # GoesOn(Parent[cursor])
     \/ idx[Parent[cursor]] + 1 = Len(Children[Parent[cursor]])
  /\ cursor' = Parent[cursor]
  /\ UNCHANGED <<dir, ret, idx>>

\* Mutant: the index is advanced before it is compared with the last one.
Decide_AdvancesFirst ==
  /\ dir = "ret"
  /\ cursor # Root
  /\ LET p == Parent[cursor] IN
       /\ ret # GoesOn(p) \/ idx[p] + 1 = Len(Children[p])
       /\ idx' = [idx EXCEPT ![p] = @ + 1]
       /\ cursor' = p
  /\ UNCHANGED <<dir, ret>>

\* The control node above the returning child is decided: it halts its
\* children, resets its index and returns the status of that last child.
Decide ==
  /\ dir = "ret"
  /\ cursor # Root
  /\ LET p == Parent[cursor] IN
       /\ ret # GoesOn(p) \/ idx[p] + 1 = Len(Children[p])
       /\ idx' = [idx EXCEPT ![p] = 0]
       /\ cursor' = p
  /\ UNCHANGED <<dir, ret>>

\* tickRoot() returns to its caller.
EndTick == /\ dir = "ret"
           /\ cursor = Root
           /\ dir' = "idle"
           /\ UNCHANGED <<cursor, ret, idx>>

\* The steps of the walk that no action of the tree takes part in.
Walk == TickChild \/ NextChild \/ Decide \/ EndTick

TreeNext == TickRoot \/ TickLeaf \/ Walk

TreeSpec == TreeInit /\ [][TreeNext]_treeVars

-----------------------------------------------------------------------------

\* The index of every control node is that of one of its children.
TreeTypeOK == /\ cursor \in Node
              /\ dir \in {"idle", "tick", "ret"}
              /\ ret \in Status
              /\ idx \in [Control -> Nat]
              /\ \A n \in Control : idx[n] < Len(Children[n])

\* No control node keeps a child index into the next tick, whichever way the
\* last one ended: a stale index would resume in the middle of the policy.
TicksStartFresh == dir = "idle" => idx = FreshIdx
=============================================================================
