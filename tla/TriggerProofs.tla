--------------------------- MODULE TriggerProofs ---------------------------
(***************************************************************************)
(* Proofs about Trigger, for every set of peers, every behaviour of etcd,  *)
(* docker and DNS it allows, and every number of sampling rounds.          *)
(***************************************************************************)
EXTENDS Trigger, TLAPS

-----------------------------------------------------------------------------
(* Facts about the tree of migration_subtree.xml.                          *)

\* The nodes of the second child of a control node, that child included.
Second ==
  [ root |-> (Actions \cup DOMAIN XmlChildren) \ {"root", "GetLocalResource"},
    Migration_process |->
      {"Migration_judgement_get", "MigrationGetImbalance", "Migration_judgement",
       "IsOverloadFrequency", "Migratin_policy_distrubution", "runBestNode",
       "best_node_run_judgement", "IsPolicySuccess", "Update"},
    Migration_calculate |->
      {"Migration_policy_calculate", "MigrationNodesGet", "BestNodeGet"},
    Migration_jugdement |-> {"IsMemOver"},
    Migration_policy_calculate |-> {"BestNodeGet"},
    Migration_judgement_get |->
      {"Migration_judgement", "IsOverloadFrequency", "Migratin_policy_distrubution",
       "runBestNode", "best_node_run_judgement", "IsPolicySuccess", "Update"},
    Migration_judgement |->
      {"Migratin_policy_distrubution", "runBestNode", "best_node_run_judgement",
       "IsPolicySuccess", "Update"},
    Migratin_policy_distrubution |->
      {"best_node_run_judgement", "IsPolicySuccess", "Update"},
    best_node_run_judgement |-> {"Update"} ]

LEMMA ControlNodes ==
  Control = {"root", "Migration_process", "Migration_calculate", "Migration_jugdement",
             "Migration_policy_calculate", "Migration_judgement_get",
             "Migration_judgement", "Migratin_policy_distrubution",
             "best_node_run_judgement"}
  BY DEF Control, XmlChildren

LEMMA AllNodes == Node = Actions \cup Control
  BY DEF Node, Control, XmlKind

\* Every control node has two children, and names itself as their parent.
LEMMA TwoChildren ==
  \A n \in Control :
    /\ Len(XmlChildren[n]) = 2
    /\ \A i \in 1..2 : /\ XmlChildren[n][i] \in Node \ {XmlRoot}
                       /\ XmlParent[XmlChildren[n][i]] = n
  <1>1. \A n \in Control : /\ Len(XmlChildren[n]) = 2
                           /\ XmlChildren[n][1] \in Node \ {XmlRoot}
                           /\ XmlChildren[n][2] \in Node \ {XmlRoot}
    BY ControlNodes, AllNodes DEF XmlChildren, Actions, XmlRoot
  <1>2. \A n \in Control : /\ XmlParent[XmlChildren[n][1]] = n
                           /\ XmlParent[XmlChildren[n][2]] = n
    BY ControlNodes DEF XmlChildren, XmlParent
  <1> QED BY <1>1, <1>2

LEMMA ParentOfNode ==
  \A n \in Node \ {XmlRoot} :
    /\ XmlParent[n] \in Control
    /\ n = XmlChildren[XmlParent[n]][1] \/ n = XmlChildren[XmlParent[n]][2]
  BY ControlNodes, AllNodes DEF Actions, XmlRoot, XmlParent, XmlChildren

\* A control node lies in the second half of another one exactly when its
\* children do; it lies in its own with its second child only.
LEMMA SecondHalves ==
  \A n, m \in Control :
    /\ n # m => \A i \in 1..2 : (XmlChildren[n][i] \in Second[m]) <=> (n \in Second[m])
    /\ n \notin Second[n]
    /\ XmlChildren[n][1] \notin Second[n]
    /\ XmlChildren[n][2] \in Second[n]
  <1>1. \A n, m \in Control :
          n # m => /\ (XmlChildren[n][1] \in Second[m]) <=> (n \in Second[m])
                   /\ (XmlChildren[n][2] \in Second[m]) <=> (n \in Second[m])
    BY ControlNodes DEF XmlChildren, Second, Actions
  <1>2. \A n \in Control : /\ n \notin Second[n]
                           /\ XmlChildren[n][1] \notin Second[n]
                           /\ XmlChildren[n][2] \in Second[n]
    BY ControlNodes DEF XmlChildren, Second, Actions
  <1> QED BY <1>1, <1>2

-----------------------------------------------------------------------------
(* The inductive invariant.                                                *)

\* A control node is at its second child exactly while that child's subtree
\* is on top of the call stack.
IdxInv ==
  idx = [n \in Control |-> IF dir # "idle" /\ cursor \in Second[n] THEN 1 ELSE 0]

\* A leaf in the middle of its calls is still on top of the stack.
StepInv ==
  /\ step = "sample" => dir = "tick" /\ cursor = "MigrationGetImbalance"
  /\ step = "copy"   => dir = "tick" /\ cursor = "runBestNode"
  /\ step = "dns"    => dir = "tick" /\ cursor = "Update"

\* The members assigned by the time the walk comes to a node going down.
OnTheWayDown(n) ==
  CASE n \in {"root", "GetLocalResource"} -> {}
    [] n = "BestNodeGet" -> {"localhost", "global"}
    [] n \in {"Migration_judgement_get", "MigrationGetImbalance"} ->
         {"localhost", "global", "best"}
    [] n \in Second["Migration_judgement_get"] -> Member
    [] OTHER -> {"localhost"}

\* The members assigned by the time a node returns s.
OnTheWayUp(n, s) ==
  CASE n = "GetLocalResource" -> IF s = "SUCCESS" THEN {"localhost"} ELSE {}
    [] n \in {"IsCpuOver", "IsMemOver", "Migration_jugdement"} -> {"localhost"}
    [] n = "MigrationNodesGet" -> {"localhost", "global"}
    [] n \in {"BestNodeGet", "Migration_policy_calculate", "Migration_calculate"} ->
         IF s = "SUCCESS" THEN {"localhost", "global", "best"} ELSE {}
    [] n = "MigrationGetImbalance" \/ n \in Second["Migration_judgement_get"] -> Member
    [] OTHER -> {}

FreshInv ==
  /\ dir = "tick" => OnTheWayDown(cursor) \subseteq fresh
  /\ dir = "ret" => OnTheWayUp(cursor, ret) \subseteq fresh
  /\ "best" \in fresh => best \in Peers

\* The nodes that return after a start was acknowledged.
Settling == Second["Migration_judgement"] \cup
  {"Migration_judgement", "Migration_judgement_get", "Migration_process", "root"}

\* Where the walk is once a start was acknowledged.
AfterStart ==
  \/ dir = "idle"
  \/ dir = "tick" /\ cursor = "runBestNode" /\ step = "copy"
  \/ dir = "tick" /\ cursor \in Second["Migratin_policy_distrubution"]
  \/ dir = "ret" /\ cursor \in Settling

DistributeInv ==
  /\ distribute => AfterStart /\ "best" \in fresh /\ best \in running
  /\ dir = "tick" /\ cursor = "Update" => distribute
  /\ dir = "ret" /\ cursor = "IsPolicySuccess" /\ ret = "FAILURE" => distribute

IInv ==
  /\ TypeOK
  /\ running # {}
  /\ server = "handling" => IdxInv /\ StepInv /\ FreshInv /\ DistributeInv

-----------------------------------------------------------------------------

LEMMA InitIInv == Init => IInv
  <1> SUFFICES ASSUME Init PROVE IInv
    OBVIOUS
  <1> USE DEF Init, TreeInit
  <1>1. idx = [n \in Control |-> 0]
    BY DEF FreshIdx
  <1>2. TreeTypeOK
    BY <1>1, AllNodes, ControlNodes, TwoChildren DEF TreeTypeOK, XmlRoot, Status
  <1>3. overloadCount \in 0..(SampleRounds + 1) /\ cunt \in 0..(round + 1) /\ round \in 0..SampleRounds
    BY TriggerAssumption
  <1>4. TypeOK
    BY <1>2, <1>3 DEF TypeOK, Nodes
  <1> QED BY <1>4 DEF IInv

\* The walk of the tree keeps the indices as IdxInv says.
LEMMA WalkKeepsIdx ==
  ASSUME TypeOK, IdxInv, Walk
  PROVE  TreeTypeOK' /\ IdxInv'
  <1> USE DEF TypeOK, TreeTypeOK, IdxInv
  <1>1. CASE TickChild
    <2>1. idx[cursor] = 0
      BY <1>1, SecondHalves DEF TickChild
    <2>2. cursor' = XmlChildren[cursor][1] /\ cursor' \in Node
      BY <1>1, <2>1, TwoChildren DEF TickChild
    <2>3. \A m \in Control : (cursor' \in Second[m]) <=> (cursor \in Second[m])
      BY <1>1, <2>2, SecondHalves DEF TickChild
    <2> QED BY <1>1, <2>2, <2>3 DEF TickChild
  <1>2. CASE NextChild
    <2> DEFINE p == XmlParent[cursor]
    <2>1. p \in Control /\ cursor \in Node \ {XmlRoot}
      BY <1>2, ParentOfNode DEF NextChild
    <2>2. idx[p] = 0
      BY <1>2, <2>1, TwoChildren DEF NextChild
    <2>3. cursor = XmlChildren[p][1]
      BY <1>2, <2>1, <2>2, ParentOfNode, SecondHalves DEF NextChild
    <2>4. cursor' = XmlChildren[p][2] /\ cursor' \in Node
      BY <1>2, <2>1, <2>2, TwoChildren DEF NextChild
    <2>5. \A m \in Control : (cursor' \in Second[m]) <=> (m = p \/ cursor \in Second[m])
      BY <2>1, <2>3, <2>4, SecondHalves
    <2>6. idx' = [idx EXCEPT ![p] = idx[p] + 1]
      BY <1>2 DEF NextChild
    <2>7. idx' = [m \in Control |-> IF m = p \/ cursor \in Second[m] THEN 1 ELSE 0]
      BY <1>2, <2>1, <2>2, <2>6 DEF NextChild
    <2>8. dir' = "tick" /\ ret' = ret
      BY <1>2 DEF NextChild
    <2> QED BY <2>4, <2>5, <2>7, <2>8, TwoChildren
  <1>3. CASE Decide
    <2> DEFINE p == XmlParent[cursor]
    <2>1. p \in Control /\ p \in Node /\ cursor \in Node \ {XmlRoot}
      BY <1>3, ParentOfNode, AllNodes DEF Decide
    <2>2. \A m \in Control : (cursor' \in Second[m]) <=> (m # p /\ cursor \in Second[m])
      BY <1>3, <2>1, ParentOfNode, SecondHalves DEF Decide
    <2> QED BY <1>3, <2>1, <2>2 DEF Decide
  <1>4. CASE EndTick
    <2>1. \A m \in Control : cursor \notin Second[m]
      BY <1>4, ControlNodes DEF EndTick, Second, XmlRoot, Actions
    <2> QED BY <1>4, <2>1 DEF EndTick
  <1> QED BY <1>1, <1>2, <1>3, <1>4 DEF Walk

\* A leaf returns, or stays where it is: the indices are not touched.
LEMMA LeafKeepsIdx ==
  ASSUME TreeTypeOK, IdxInv, dir = "tick",
         UNCHANGED tree \/ \E s \in Status : ActionReturns(s)
  PROVE  /\ TreeTypeOK' /\ IdxInv'
         /\ cursor' = cursor /\ dir' \in {"tick", "ret"}
  BY DEF TreeTypeOK, IdxInv, ActionReturns, tree, Status

\* What is known on the way into a child is known at its parent or follows
\* from the return of the child before it.
LEMMA WayDown ==
  \A n \in Control :
    /\ OnTheWayDown(XmlChildren[n][1]) \subseteq OnTheWayDown(n)
    /\ OnTheWayDown(XmlChildren[n][2]) \subseteq OnTheWayUp(XmlChildren[n][1], GoesOn(n))
  BY ControlNodes DEF XmlChildren, OnTheWayDown, OnTheWayUp, GoesOn, XmlKind, Fallbacks,
                      Actions, Second, Member

\* What is known when a control node returns follows from the return of the
\* child that decided it.
LEMMA WayUp ==
  \A n \in Control, s \in Status :
    /\ OnTheWayUp(n, s) \subseteq OnTheWayUp(XmlChildren[n][2], s)
    /\ s # GoesOn(n) => OnTheWayUp(n, s) \subseteq OnTheWayUp(XmlChildren[n][1], s)
  BY ControlNodes DEF XmlChildren, OnTheWayUp, GoesOn, XmlKind, Fallbacks,
                      Actions, Second, Member, Status

\* The walk never leaves the region that AfterStart describes, and comes to
\* Update only over a failure of IsPolicySuccess.
LEMMA WalkAfterStart ==
  \A n \in Control :
    /\ XmlChildren[n][1] \notin {"Update", "runBestNode"} \/ n = "Migratin_policy_distrubution"
    /\ XmlChildren[n][1] # "Update"
    /\ XmlChildren[n][2] = "Update" => XmlChildren[n][1] = "IsPolicySuccess" /\ GoesOn(n) = "FAILURE"
    /\ n \in Second["Migratin_policy_distrubution"] =>
          XmlChildren[n][1] \in Second["Migratin_policy_distrubution"]
    /\ XmlChildren[n][1] \in Settling =>
          XmlChildren[n][2] \in Second["Migratin_policy_distrubution"]
    /\ \A i \in 1..2 : XmlChildren[n][i] \in Settling => n \in Settling
    /\ n \notin {"runBestNode", "IsPolicySuccess", "Update", "MigrationGetImbalance"}
  <1>1. \A n \in Control :
          /\ XmlChildren[n][1] # "Update"
          /\ XmlChildren[n][1] # "runBestNode" \/ n = "Migratin_policy_distrubution"
          /\ n \notin {"runBestNode", "IsPolicySuccess", "Update", "MigrationGetImbalance"}
          /\ XmlChildren[n][2] = "Update" => XmlChildren[n][1] = "IsPolicySuccess" /\ GoesOn(n) = "FAILURE"
    BY ControlNodes DEF XmlChildren, GoesOn, XmlKind, Fallbacks, Actions
  <1>2. \A n \in Control :
          /\ n \in Second["Migratin_policy_distrubution"] =>
                XmlChildren[n][1] \in Second["Migratin_policy_distrubution"]
          /\ XmlChildren[n][1] \in Settling =>
                XmlChildren[n][2] \in Second["Migratin_policy_distrubution"]
    BY ControlNodes DEF XmlChildren, Second, Settling
  <1>3. \A n \in Control : /\ XmlChildren[n][1] \in Settling => n \in Settling
                           /\ XmlChildren[n][2] \in Settling => n \in Settling
    BY ControlNodes DEF XmlChildren, Second, Settling
  <1> QED BY <1>1, <1>2, <1>3

LEMMA TreeStepKeepsIInv ==
  ASSUME IInv, TreeStep
  PROVE  IInv'
  <1> USE DEF IInv
  <1>1. /\ server = "handling" /\ Walk
        /\ UNCHANGED <<server, reply, dstnode, step, policy, external, history>>
    BY DEF TreeStep
  <1>2. TreeTypeOK' /\ IdxInv'
    BY <1>1, WalkKeepsIdx
  <1>3. TypeOK'
    BY <1>1, <1>2 DEF TypeOK, policy, external, history
  <1>4. step = "call" /\ StepInv'
    BY <1>1, WalkAfterStart DEF Walk, TickChild, NextChild, Decide, EndTick, StepInv,
       TypeOK, Leaf
  <1>5. FreshInv' /\ DistributeInv'
    <2>1. CASE TickChild
      <3>1. cursor \in Control /\ cursor' = XmlChildren[cursor][1]
        BY <1>1, <2>1, SecondHalves DEF TickChild, IdxInv
      <3> QED BY <1>1, <1>4, <2>1, <3>1, WayDown, WalkAfterStart
              DEF TickChild, FreshInv, DistributeInv, AfterStart, policy, external, history
    <2>2. CASE NextChild
      <3> DEFINE p == XmlParent[cursor]
      <3>1. p \in Control /\ cursor = XmlChildren[p][1] /\ cursor' = XmlChildren[p][2]
        BY <1>1, <2>2, ParentOfNode, SecondHalves, TwoChildren
           DEF NextChild, IdxInv, TypeOK, TreeTypeOK
      <3>2. ret = GoesOn(p) /\ dir = "ret" /\ dir' = "tick"
        BY <2>2 DEF NextChild
      <3> QED BY <1>1, <1>4, <3>1, <3>2, WayDown, WalkAfterStart
              DEF FreshInv, DistributeInv, AfterStart, policy, external, history
    <2>3. CASE Decide
      <3> DEFINE p == XmlParent[cursor]
      <3>1. /\ p \in Control /\ cursor' = p
            /\ \/ cursor = XmlChildren[p][1] /\ ret # GoesOn(p)
               \/ cursor = XmlChildren[p][2]
        BY <1>1, <2>3, ParentOfNode, SecondHalves, TwoChildren
           DEF Decide, IdxInv, TypeOK, TreeTypeOK
      <3>2. dir = "ret" /\ dir' = "ret" /\ ret' = ret /\ ret \in Status
        BY <2>3 DEF Decide, TypeOK, TreeTypeOK
      <3> QED BY <1>1, <1>4, <3>1, <3>2, WayUp, WalkAfterStart
              DEF FreshInv, DistributeInv, AfterStart, policy, external, history
    <2>4. CASE EndTick
      BY <1>1, <2>4 DEF EndTick, FreshInv, DistributeInv, AfterStart, policy, external, history
    <2> QED BY <1>1, <2>1, <2>2, <2>3, <2>4 DEF Walk
  <1> QED BY <1>1, <1>2, <1>3, <1>4, <1>5 DEF external

\* Where a leaf is called, what it uses is there.
LEMMA LeafTables ==
  /\ OnTheWayDown("runBestNode") = Member /\ OnTheWayDown("Update") = Member
  /\ OnTheWayDown("IsOverloadFrequency") = Member /\ OnTheWayDown("IsPolicySuccess") = Member
  /\ OnTheWayDown("BestNodeGet") = {"localhost", "global"}
  /\ OnTheWayDown("MigrationGetImbalance") = {"localhost", "global", "best"}
  /\ \A n \in {"IsCpuOver", "IsMemOver", "MigrationNodesGet"} : OnTheWayDown(n) = {"localhost"}
  /\ \A n \in {"Update", "IsPolicySuccess"} : n \in Second["Migratin_policy_distrubution"]
  /\ \A n \in {"runBestNode", "Update", "IsPolicySuccess"} : n \in Settling
  /\ \A n \in {"GetLocalResource", "IsCpuOver", "IsMemOver", "MigrationNodesGet",
                "BestNodeGet", "MigrationGetImbalance", "IsOverloadFrequency", "runBestNode"} :
       n \notin Second["Migratin_policy_distrubution"]
  BY DEF OnTheWayDown, Second, Member, Actions, Settling

LEMMA LeafReturns ==
  \A s \in Status :
    /\ OnTheWayUp("GetLocalResource", s) = IF s = "SUCCESS" THEN {"localhost"} ELSE {}
    /\ \A n \in {"IsCpuOver", "IsMemOver"} : OnTheWayUp(n, s) = {"localhost"}
    /\ OnTheWayUp("MigrationNodesGet", s) = {"localhost", "global"}
    /\ OnTheWayUp("BestNodeGet", s) \subseteq {"localhost", "global", "best"}
    /\ \A n \in {"MigrationGetImbalance", "IsOverloadFrequency", "runBestNode",
                  "IsPolicySuccess", "Update"} : OnTheWayUp(n, s) = Member
  BY DEF OnTheWayUp, Second, Member, Actions, Status

\* A start is not acknowledged before the walk comes to runBestNode.
LEMMA NotDistributed ==
  ASSUME DistributeInv, dir = "tick", step # "copy",
         cursor \in {"GetLocalResource", "IsCpuOver", "IsMemOver", "MigrationNodesGet",
                    "BestNodeGet", "MigrationGetImbalance", "IsOverloadFrequency",
                    "runBestNode"}
  PROVE  ~distribute
  BY LeafTables DEF DistributeInv, AfterStart

\* The leaves that judge, select and sample leave the containers alone.
LEMMA DecidingKeepsIInv ==
  ASSUME IInv, Judge \/ Select \/ Sample \/ IsPolicySuccess
  PROVE  IInv'
  <1> USE DEF IInv, At
  <1> USE TriggerAssumption
  <1>0. server = "handling" /\ dir = "tick"
    BY DEF Judge, Select, Sample, GetLocalResource, IsCpuOver, IsMemOver,
       IsOverloadFrequency, MigrationNodesGet, BestNodeGet, BestNodeGetCrashes, FirstSample,
       NextSample, SamplesTaken, IsPolicySuccess
  <1>1. CASE GetLocalResource
    <2>1. TreeTypeOK' /\ IdxInv' /\ cursor' = cursor
      BY <1>0, <1>1, LeafKeepsIdx DEF GetLocalResource, TypeOK, Status, tree
    <2>2. TypeOK'
      BY <1>1, <2>1 DEF GetLocalResource, TypeOK, policy, external, history, Member
    <2>3. ~distribute
      BY <1>1, NotDistributed DEF GetLocalResource, StepInv
    <2>4. StepInv' /\ FreshInv' /\ DistributeInv'
      BY <1>1, <2>1, <2>3, LeafReturns, LeafTables
         DEF GetLocalResource, ActionReturns, StepInv, FreshInv, DistributeInv, AfterStart,
             Status, Member, policy, external, history, tree
    <2> QED BY <1>1, <2>1, <2>2, <2>4 DEF GetLocalResource, external
  <1>2. CASE IsCpuOver
    <2>1. TreeTypeOK' /\ IdxInv' /\ cursor' = cursor
      BY <1>0, <1>2, LeafKeepsIdx DEF IsCpuOver, TypeOK, Status, tree
    <2>2. TypeOK'
      BY <1>2, <2>1 DEF IsCpuOver, TypeOK, policy, external, history, Member
    <2>3. ~distribute
      BY <1>2, NotDistributed DEF IsCpuOver, StepInv
    <2>4. StepInv' /\ FreshInv' /\ DistributeInv'
      BY <1>2, <2>1, <2>3, LeafReturns, LeafTables
         DEF IsCpuOver, ActionReturns, StepInv, FreshInv, DistributeInv, AfterStart,
             Status, Member, policy, external, history, tree
    <2> QED BY <1>2, <2>1, <2>2, <2>4 DEF IsCpuOver, external
  <1>3. CASE IsMemOver
    <2>1. TreeTypeOK' /\ IdxInv' /\ cursor' = cursor
      BY <1>0, <1>3, LeafKeepsIdx DEF IsMemOver, TypeOK, Status, tree
    <2>2. TypeOK'
      BY <1>3, <2>1 DEF IsMemOver, TypeOK, policy, external, history, Member
    <2>3. ~distribute
      BY <1>3, NotDistributed DEF IsMemOver, StepInv
    <2>4. StepInv' /\ FreshInv' /\ DistributeInv'
      BY <1>3, <2>1, <2>3, LeafReturns, LeafTables
         DEF IsMemOver, ActionReturns, StepInv, FreshInv, DistributeInv, AfterStart,
             Status, Member, policy, external, history, tree
    <2> QED BY <1>3, <2>1, <2>2, <2>4 DEF IsMemOver, external
  <1>4. CASE IsOverloadFrequency
    <2>1. TreeTypeOK' /\ IdxInv' /\ cursor' = cursor
      BY <1>0, <1>4, LeafKeepsIdx DEF IsOverloadFrequency, TypeOK, Status, tree
    <2>2. TypeOK'
      BY <1>4, <2>1 DEF IsOverloadFrequency, TypeOK, policy, external, history, Member
    <2>3. ~distribute
      BY <1>4, NotDistributed DEF IsOverloadFrequency, StepInv
    <2>4. StepInv' /\ FreshInv' /\ DistributeInv'
      BY <1>4, <2>1, <2>3, LeafReturns, LeafTables
         DEF IsOverloadFrequency, ActionReturns, StepInv, FreshInv, DistributeInv, AfterStart,
             Status, Member, policy, external, history, tree
    <2> QED BY <1>4, <2>1, <2>2, <2>4 DEF IsOverloadFrequency, external
  <1>5. CASE MigrationNodesGet
    <2>1. TreeTypeOK' /\ IdxInv' /\ cursor' = cursor
      BY <1>0, <1>5, LeafKeepsIdx DEF MigrationNodesGet, TypeOK, Status, tree
    <2>2. TypeOK'
      BY <1>5, <2>1 DEF MigrationNodesGet, TypeOK, policy, external, history, Member
    <2>3. ~distribute
      BY <1>5, NotDistributed DEF MigrationNodesGet, StepInv
    <2>4. StepInv' /\ FreshInv' /\ DistributeInv'
      BY <1>5, <2>1, <2>3, LeafReturns, LeafTables
         DEF MigrationNodesGet, ActionReturns, StepInv, FreshInv, DistributeInv, AfterStart,
             Status, Member, policy, external, history, tree
    <2> QED BY <1>5, <2>1, <2>2, <2>4 DEF MigrationNodesGet, external
  <1>6. CASE BestNodeGet
    <2>1. TreeTypeOK' /\ IdxInv' /\ cursor' = cursor
      BY <1>0, <1>6, LeafKeepsIdx DEF BestNodeGet, TypeOK, Status, tree
    <2>2. TypeOK'
      BY <1>6, <2>1 DEF BestNodeGet, TypeOK, policy, external, history, Member
    <2>3. ~distribute
      BY <1>6, NotDistributed DEF BestNodeGet, StepInv
    <2>5. best' \in Peers
      BY <1>6 DEF BestNodeGet, TypeOK
    <2>4. StepInv' /\ FreshInv' /\ DistributeInv'
      BY <1>6, <2>1, <2>3, <2>5, LeafReturns, LeafTables
         DEF BestNodeGet, ActionReturns, StepInv, FreshInv, DistributeInv, AfterStart,
             Status, Member, policy, external, history, tree
    <2> QED BY <1>6, <2>1, <2>2, <2>4 DEF BestNodeGet, external
  <1>7. CASE BestNodeGetCrashes
    BY <1>7 DEF BestNodeGetCrashes, TypeOK, TreeTypeOK, tree, policy, external, history
  <1>8. CASE FirstSample
    <2>1. TreeTypeOK' /\ IdxInv' /\ cursor' = cursor
      BY <1>0, <1>8, LeafKeepsIdx DEF FirstSample, TypeOK, Status, tree
    <2>5. overloadCount' \in 0..(SampleRounds + 1) /\ cunt' \in 0..(round' + 1)
      BY <1>8 DEF FirstSample, TypeOK
    <2>6. step' \in {"call", "sample"} /\ fresh' \in {fresh, fresh \cup {"overloadCount"}}
      BY <1>8 DEF FirstSample
    <2>7. calm' \in BOOLEAN
      BY <1>8, Zenon DEF FirstSample, TypeOK
    <2>2. TypeOK'
      BY <1>8, <2>1, <2>5, <2>6, <2>7 DEF FirstSample, TypeOK, external, Member
    <2>3. ~distribute
      BY <1>8, NotDistributed DEF FirstSample, StepInv
    <2>4. StepInv' /\ FreshInv' /\ DistributeInv'
      BY <1>8, <2>1, <2>3, LeafReturns, LeafTables
         DEF FirstSample, ActionReturns, StepInv, FreshInv, DistributeInv, AfterStart,
             Status, Member, policy, external, history, tree
    <2> QED BY <1>8, <2>1, <2>2, <2>4 DEF FirstSample, external
  <1>9. CASE NextSample
    <2>1. TreeTypeOK' /\ IdxInv' /\ cursor' = cursor
      BY <1>0, <1>9, LeafKeepsIdx DEF NextSample, TypeOK, Status, tree
    <2>2. TypeOK'
      BY <1>9, <2>1 DEF NextSample, TypeOK, policy, external, history, Member
    <2>3. ~distribute
      BY <1>9, NotDistributed DEF NextSample, StepInv
    <2>4. StepInv' /\ FreshInv' /\ DistributeInv'
      BY <1>9, <2>1, <2>3, LeafReturns, LeafTables
         DEF NextSample, ActionReturns, StepInv, FreshInv, DistributeInv, AfterStart,
             Status, Member, policy, external, history, tree
    <2> QED BY <1>9, <2>1, <2>2, <2>4 DEF NextSample, external
  <1>10. CASE SamplesTaken
    <2>1. TreeTypeOK' /\ IdxInv' /\ cursor' = cursor
      BY <1>0, <1>10, LeafKeepsIdx DEF SamplesTaken, TypeOK, Status, tree
    <2>2. TypeOK'
      BY <1>10, <2>1 DEF SamplesTaken, TypeOK, policy, external, history, Member
    <2>3. ~distribute
      BY <1>10, NotDistributed DEF SamplesTaken, StepInv
    <2>4. StepInv' /\ FreshInv' /\ DistributeInv'
      BY <1>10, <2>1, <2>3, LeafReturns, LeafTables
         DEF SamplesTaken, ActionReturns, StepInv, FreshInv, DistributeInv, AfterStart,
             Status, Member, policy, external, history, tree
    <2> QED BY <1>10, <2>1, <2>2, <2>4 DEF SamplesTaken, external
  <1>11. CASE IsPolicySuccess
    <2>1. TreeTypeOK' /\ IdxInv' /\ cursor' = cursor
      BY <1>0, <1>11, LeafKeepsIdx DEF IsPolicySuccess, TypeOK, Status, tree
    <2>2. TypeOK'
      BY <1>11, <2>1 DEF IsPolicySuccess, TypeOK, policy, external, history, Member
    <2>4. StepInv' /\ FreshInv' /\ DistributeInv'
      BY <1>11, <2>1, LeafReturns, LeafTables
         DEF IsPolicySuccess, ActionReturns, StepInv, FreshInv, DistributeInv, AfterStart,
             Status, Member, policy, external, history, tree
    <2> QED BY <1>11, <2>1, <2>2, <2>4 DEF IsPolicySuccess, external
  <1> QED BY <1>1, <1>2, <1>3, <1>4, <1>5, <1>6, <1>7, <1>8, <1>9, <1>10, <1>11
          DEF Judge, Select, Sample

\* A start request that does not answer may leave the container up, never down;
\* an acknowledged one leaves it up.
LEMMA StartLeavesUp ==
  ASSUME NEW n, NEW o \in StartOutcomes(n)
  PROVE  /\ o.up \in BOOLEAN
         /\ n \in running => o.up
         /\ o.status \in Acknowledged => o.up
  BY DEF StartOutcomes, Outcome, Acknowledged, NoAnswer

\* The leaves that move the service find the chosen node up before they take
\* the local container down.
LEMMA MovingKeepsIInv ==
  ASSUME IInv, StartContainer \/ MigrateAllKeys \/ StopContainer \/ ModifyDns
  PROVE  IInv'
  <1> USE DEF IInv, At
  <1>0. server = "handling" /\ dir = "tick" /\ cursor \in {"runBestNode", "Update"}
    BY DEF StartContainer, MigrateAllKeys, StopContainer, ModifyDns
  <1>a. fresh = Member /\ best \in Peers /\ best \in Nodes
    BY <1>0, LeafTables DEF FreshInv, Member, TypeOK, Nodes
  <1>1. CASE StartContainer
    <2>0. PICK o \in StartOutcomes(best) :
            /\ SetContainer(best, o.up)
            /\ begun' = IF o.up THEN begun \cup ({best} \ running) ELSE begun
            /\ lost' = (lost \/ o.status = NoAnswer)
            /\ IF o.status \in Acknowledged
               THEN distribute' = TRUE /\ step' = "copy" /\ UNCHANGED tree
               ELSE ActionReturns("FAILURE") /\ UNCHANGED <<distribute, step>>
      BY <1>1 DEF StartContainer
    <2>1. TreeTypeOK' /\ IdxInv' /\ cursor' = cursor
      BY <1>0, <2>0, LeafKeepsIdx DEF TypeOK, Status
    <2>2. running' \in {running, running \cup {best}}
          /\ (o.status \in Acknowledged => best \in running')
      BY <2>0, StartLeavesUp DEF SetContainer
    <2>3. begun' \subseteq Peers /\ lost' \in BOOLEAN /\ distribute' \in BOOLEAN
      BY <1>a, <2>0 DEF TypeOK
    <2>4. step' \in {"call", "copy"}
      BY <1>1, <2>0 DEF StartContainer
    <2>5. TypeOK'
      BY <1>1, <1>a, <2>1, <2>2, <2>3, <2>4 DEF StartContainer, TypeOK
    <2>6. ~distribute
      BY <1>1, NotDistributed DEF StartContainer
    <2>7. StepInv' /\ FreshInv' /\ DistributeInv'
      BY <1>1, <1>a, <2>0, <2>1, <2>2, <2>6, LeafReturns, LeafTables
         DEF StartContainer, ActionReturns, StepInv, FreshInv, DistributeInv, AfterStart,
             Status, Member, tree
    <2> QED BY <1>1, <2>1, <2>2, <2>5, <2>7 DEF StartContainer
  <1>2. CASE MigrateAllKeys
    <2>1. TreeTypeOK' /\ IdxInv' /\ cursor' = cursor
      BY <1>0, <1>2, LeafKeepsIdx DEF MigrateAllKeys, TypeOK, Status
    <2>2. TypeOK'
      BY <1>2, <1>a, <2>1 DEF MigrateAllKeys, TypeOK, policy, external, history
    <2>3. StepInv' /\ FreshInv' /\ DistributeInv'
      BY <1>2, <1>a, <2>1, LeafReturns, LeafTables
         DEF MigrateAllKeys, ActionReturns, StepInv, FreshInv, DistributeInv, AfterStart,
             Status, Member, policy, external, history
    <2> QED BY <1>2, <2>1, <2>2, <2>3 DEF MigrateAllKeys, external
  <1>3. CASE StopContainer
    <2>0. PICK o \in StopOutcomes(Local) :
            /\ SetContainer(Local, o.up)
            /\ IF o.status \in Acknowledged
               THEN step' = "dns" /\ UNCHANGED tree
               ELSE ActionReturns("FAILURE") /\ UNCHANGED step
      BY <1>3 DEF StopContainer
    <2>1. TreeTypeOK' /\ IdxInv' /\ cursor' = cursor
      BY <1>0, <2>0, LeafKeepsIdx DEF TypeOK, Status
    <2>2. running' \in {running \cup {Local}, running \ {Local}}
      BY <2>0 DEF SetContainer
    <2>3. distribute /\ best \in running /\ best # Local
      BY <1>3, <1>a, TriggerAssumption DEF StopContainer, DistributeInv
    <2>4. best \in running'
      BY <2>2, <2>3
    <2>5. step' \in {"call", "dns"}
      BY <1>3, <2>0 DEF StopContainer
    <2>6. TypeOK'
      BY <1>3, <2>1, <2>2, <2>5 DEF StopContainer, TypeOK, policy, history, Nodes
    <2>7. StepInv' /\ FreshInv' /\ DistributeInv'
      BY <1>3, <1>a, <2>0, <2>1, <2>3, <2>4, LeafReturns, LeafTables
         DEF StopContainer, ActionReturns, StepInv, FreshInv, DistributeInv, AfterStart,
             Status, Member, policy, history, tree
    <2> QED BY <1>3, <2>1, <2>4, <2>6, <2>7 DEF StopContainer
  <1>4. CASE ModifyDns
    <2>1. TreeTypeOK' /\ IdxInv' /\ cursor' = cursor
      BY <1>0, <1>4, LeafKeepsIdx DEF ModifyDns, TypeOK, Status
    <2>2. dns' \in {best, dns}
      BY <1>4 DEF ModifyDns
    <2>3. TypeOK'
      BY <1>4, <1>a, <2>1, <2>2 DEF ModifyDns, TypeOK, policy, history
    <2>4. StepInv' /\ FreshInv' /\ DistributeInv'
      BY <1>4, <1>a, <2>1, LeafReturns, LeafTables
         DEF ModifyDns, ActionReturns, StepInv, FreshInv, DistributeInv, AfterStart,
             Status, Member, policy, history
    <2> QED BY <1>4, <2>1, <2>3, <2>4 DEF ModifyDns
  <1> QED BY <1>1, <1>2, <1>3, <1>4

\* The request loop, from the arrival of a request to its end, also that of
\* the process.
LEMMA LoopKeepsIInv ==
  ASSUME IInv,
         TriggerStart \/ TriggerWithoutXml \/ LoopTick \/ LoopExit \/ EtcdThrows
           \/ MigrateAllKeysCrashes
  PROVE  IInv'
  <1> USE DEF IInv
  <1>1. CASE TriggerStart
    <2>1. IdxInv'
      BY <1>1 DEF TriggerStart, IdxInv, FreshIdx
    <2>2. TypeOK'
      <3>1. TreeTypeOK'
        BY <1>1, AllNodes, ControlNodes, TwoChildren
           DEF TriggerStart, TreeTypeOK, XmlRoot, Status, FreshIdx
      <3>2. /\ overloadCount' \in 0..(SampleRounds' + 1)
            /\ cunt' \in 0..(round' + 1) /\ round' \in 0..SampleRounds'
        BY <1>1, TriggerAssumption DEF TriggerStart
      <3> QED BY <1>1, <3>1, <3>2 DEF TriggerStart, TypeOK, external
    <2>3. StepInv' /\ FreshInv' /\ DistributeInv'
      BY <1>1 DEF TriggerStart, StepInv, FreshInv, DistributeInv
    <2> QED BY <1>1, <2>1, <2>2, <2>3 DEF TriggerStart, external
  <1>2. CASE TriggerWithoutXml
    BY <1>2 DEF TriggerWithoutXml, TypeOK, TreeTypeOK, tree, policy, external, history
  <1>3. CASE LoopTick
    <2>0. "root" \notin Second["Migratin_policy_distrubution"] /\ OnTheWayDown("root") = {}
      BY DEF Second, OnTheWayDown
    <2>1. \A n \in Control : XmlRoot \notin Second[n]
      BY ControlNodes DEF XmlRoot, Second, Actions
    <2>2. TreeTypeOK' /\ IdxInv'
      BY <1>3, <2>1, AllNodes, ControlNodes
         DEF LoopTick, TickRoot, TypeOK, TreeTypeOK, IdxInv, XmlRoot
    <2>3. TypeOK'
      BY <1>3, <2>2 DEF LoopTick, TypeOK, policy, external
    <2>4. StepInv' /\ FreshInv' /\ DistributeInv'
      BY <1>3, <2>0
         DEF LoopTick, TickRoot, StepInv, FreshInv, DistributeInv, policy, XmlRoot
    <2> QED BY <1>3, <2>2, <2>3, <2>4 DEF LoopTick, external
  <1>4. CASE LoopExit
    BY <1>4 DEF LoopExit, TypeOK, TreeTypeOK, tree, policy, external, history
  <1>5. CASE EtcdThrows
    BY <1>5 DEF EtcdThrows, TypeOK, TreeTypeOK, tree, policy, external, history
  <1>6. CASE MigrateAllKeysCrashes
    BY <1>6 DEF MigrateAllKeysCrashes, TypeOK, TreeTypeOK, tree, policy, external, history
  <1> QED BY <1>1, <1>2, <1>3, <1>4, <1>5, <1>6

LEMMA NextKeepsIInv == IInv /\ [Next]_vars => IInv'
  <1> SUFFICES ASSUME IInv, [Next]_vars PROVE IInv'
    OBVIOUS
  <1>1. CASE Next
    BY <1>1, TreeStepKeepsIInv, DecidingKeepsIInv, MovingKeepsIInv, LoopKeepsIInv
       DEF Next, Handle, Move
  <1>2. CASE UNCHANGED vars
    BY <1>2 DEF vars, tree, policy, external, history, IInv, TypeOK, TreeTypeOK, IdxInv,
                StepInv, FreshInv, DistributeInv, AfterStart
  <1> QED BY <1>1, <1>2

LEMMA SpecKeepsIInv == Spec => []IInv
  <1> QED BY InitIInv, NextKeepsIInv, PTL DEF Spec

-----------------------------------------------------------------------------
(* The theorems.                                                           *)

\* The handler's state stays in its types: the tree's walk never leaves the
\* tree, and no counter leaves its range.
THEOREM TypeCorrect == Spec => []TypeOK
  BY SpecKeepsIInv, PTL DEF IInv

\* No leaf of the policy uses a member of PolicyInterface that was not
\* assigned earlier in the same tick, and the reply names a fresh choice.
THEOREM MembersAreFresh == Spec => []FreshAtUse
  <1>1. IInv => FreshAtUse
    BY LeafTables DEF IInv, FreshInv, DistributeInv, FreshAtUse, Uses, Member
  <1> QED BY <1>1, SpecKeepsIInv, PTL

\* The service is up on some node at every moment, whatever requests and
\* answers are lost and whichever requests are refused.
THEOREM ServiceStaysUp == Spec => []NoOutage
  BY SpecKeepsIInv, PTL DEF IInv, NoOutage

\* The local container goes down only in a step of update, under a start
\* that was acknowledged and with the chosen peer up.
THEOREM StopIsCovered == Spec => StopsOnlyWhenReplaced
  <1>1. IInv /\ [Next]_vars =>
          ((Local \in running /\ Local \notin running')
             => (distribute /\ best # Local /\ best \in running'))
    <2> SUFFICES ASSUME IInv, [Next]_vars, Local \in running, Local \notin running'
                 PROVE  distribute /\ best # Local /\ best \in running'
      OBVIOUS
    <2>1. StopContainer \/ StartContainer
      BY DEF Next, Handle, Judge, Select, Sample, Move, TriggerStart, TriggerWithoutXml,
         LoopTick, LoopExit, TreeStep, GetLocalResource, IsCpuOver, IsMemOver,
         IsOverloadFrequency, MigrationNodesGet, BestNodeGet, BestNodeGetCrashes, FirstSample,
         NextSample, SamplesTaken, EtcdThrows, MigrateAllKeys,
         MigrateAllKeysCrashes, IsPolicySuccess, ModifyDns,
         external, vars
    <2>2. ~StartContainer
      BY StartLeavesUp DEF StartContainer, SetContainer
    <2>3. distribute /\ best \in running /\ best \in Peers
      BY <2>1, <2>2, LeafTables DEF StopContainer, At, IInv, FreshInv, DistributeInv, Member
    <2>4. running' \in {running \cup {Local}, running \ {Local}}
      BY <2>1, <2>2 DEF StopContainer, SetContainer
    <2> QED BY <2>3, <2>4, TriggerAssumption
  <1> QED BY <1>1, SpecKeepsIInv, PTL DEF Spec, StopsOnlyWhenReplaced

-----------------------------------------------------------------------------
(* What the reply says about the containers.                               *)

\* A container comes up unnoticed only if an answer was lost.
ReplyInv ==
  /\ reply = "success" => server = "listening" /\ dstnode \in running
  /\ ~lost => begun \subseteq {best}
  /\ ~lost /\ ~distribute => begun = {}

LEMMA NextKeepsReplyInv == IInv /\ ReplyInv /\ [Next]_vars => ReplyInv'
  <1> SUFFICES ASSUME IInv, ReplyInv, [Next]_vars PROVE ReplyInv'
    OBVIOUS
  <1> USE DEF ReplyInv, At
  <1>1. CASE TriggerStart
    BY <1>1 DEF TriggerStart
  <1>2. CASE TriggerWithoutXml \/ LoopTick \/ TreeStep \/ EtcdThrows
    BY <1>2 DEF TriggerWithoutXml, LoopTick, TreeStep, EtcdThrows, policy, external, history
  <1>3. CASE LoopExit
    BY <1>3 DEF LoopExit, IInv, DistributeInv, policy, external, history
  <1>4. CASE BestNodeGet
    <2>1. ~distribute
      BY <1>4, NotDistributed DEF BestNodeGet, IInv
    <2> QED BY <1>4, <2>1 DEF BestNodeGet, external
  <1>5. CASE Judge \/ MigrationNodesGet \/ BestNodeGetCrashes \/ Sample \/ IsPolicySuccess
               \/ MigrateAllKeys \/ MigrateAllKeysCrashes \/ ModifyDns
    BY <1>5 DEF Judge, GetLocalResource, IsCpuOver, IsMemOver, IsOverloadFrequency,
       MigrationNodesGet, BestNodeGetCrashes, Sample, FirstSample, NextSample, SamplesTaken,
       IsPolicySuccess, MigrateAllKeys, MigrateAllKeysCrashes, ModifyDns, policy, external,
       history
  <1>6. CASE StartContainer
    <2>1. ~distribute
      BY <1>6, NotDistributed DEF StartContainer, IInv
    <2>2. PICK o \in StartOutcomes(best) :
            /\ begun' = IF o.up THEN begun \cup ({best} \ running) ELSE begun
            /\ lost' = (lost \/ o.status = NoAnswer)
            /\ IF o.status \in Acknowledged
               THEN distribute' = TRUE ELSE UNCHANGED distribute
      BY <1>6 DEF StartContainer
    <2>3. (o.status \notin Acknowledged /\ o.status # NoAnswer) => (o.up <=> best \in running)
      BY DEF StartOutcomes, Outcome, Acknowledged, NoAnswer
    <2>4. UNCHANGED <<best, reply>> /\ reply # "success"
      BY <1>6 DEF StartContainer
    <2> QED BY <2>1, <2>2, <2>3, <2>4
  <1>7. CASE StopContainer
    BY <1>7 DEF StopContainer, policy, history
  <1>8. CASE UNCHANGED vars
    BY <1>8 DEF vars, policy, external, history
  <1> QED BY <1>1, <1>2, <1>3, <1>4, <1>5, <1>6, <1>7, <1>8 DEF Next, Handle, Select, Move

\* A successful reply names a node that runs the service, the only one the
\* request started unless the answer to a start request was lost.
THEOREM SuccessIsNamed == Spec => []SuccessNamesTheOneStarted
  <1>1. Init => ReplyInv
    BY DEF Init, ReplyInv
  <1>2. ReplyInv => SuccessNamesTheOneStarted
    BY DEF ReplyInv, SuccessNamesTheOneStarted
  <1>3. IInv /\ ReplyInv /\ [Next]_vars => ReplyInv'
    BY NextKeepsReplyInv
  <1> QED BY <1>1, <1>2, <1>3, SpecKeepsIInv, PTL DEF Spec

-----------------------------------------------------------------------------
(* A start request follows a full window of samples above the thresholds.  *)
(* It needs the threshold to leave no slack: the code compares a count of  *)
(* at most 20 + 1 with 20.                                                 *)

\* Every sample of the tick was above a threshold.
Due == ~calm /\ overloadCount = SampleRounds + 1

\* The count is the full one only if no sample was calm.
Lasting == overloadCount = SampleRounds + 1 => ~calm

\* Where the walk is once a sample was taken in this tick.
AfterSample ==
  \/ dir = "idle"
  \/ dir = "tick" /\ cursor = "MigrationGetImbalance" /\ step = "sample"
  \/ cursor \in Second["Migration_judgement_get"]
  \/ dir = "ret" /\ cursor \in {"MigrationGetImbalance", "Migration_judgement_get",
                               "Migration_process", "root"}

SampleInv ==
  /\ calm => AfterSample
  /\ step # "sample" => round = 0
  /\ step = "sample" => (cunt = round + 1 => ~calm)
  /\ dir = "ret" /\ cursor = "MigrationGetImbalance" => Lasting
  /\ dir = "tick" /\ cursor \in {"Migration_judgement", "IsOverloadFrequency"} => Lasting
  /\ dir = "ret" /\ cursor = "IsOverloadFrequency" /\ ret = "FAILURE" => Due
  /\ dir # "idle" /\ cursor \in Second["Migration_judgement"] => Due

SInv == IInv /\ (server = "handling" => SampleInv)

NoSlack == overloadFrequencyThreshold >= SampleRounds

-----------------------------------------------------------------------------

\* The walk comes to a sampled part of the tree from another one, or over the
\* return of MigrationGetImbalance or of a failed IsOverloadFrequency.
LEMMA WalkAfterSample ==
  \A n \in Control :
    /\ n \in Second["Migration_judgement_get"] =>
         \A i \in 1..2 : XmlChildren[n][i] \in Second["Migration_judgement_get"]
    /\ XmlChildren[n][1] # "Migration_judgement"
    /\ XmlChildren[n][1] = "IsOverloadFrequency" => n = "Migration_judgement"
    /\ XmlChildren[n][1] \in Second["Migration_judgement"] => n \in Second["Migration_judgement"]
    /\ XmlChildren[n][2] # "IsOverloadFrequency"
    /\ XmlChildren[n][2] = "Migration_judgement" => XmlChildren[n][1] = "MigrationGetImbalance"
    /\ XmlChildren[n][2] \in Second["Migration_judgement"] =>
         \/ XmlChildren[n][1] = "IsOverloadFrequency" /\ GoesOn(n) = "FAILURE"
         \/ XmlChildren[n][1] \in Second["Migration_judgement"]
    /\ n \in Second["Migration_judgement"] =>
         \A i \in 1..2 : XmlChildren[n][i] \in Second["Migration_judgement"]
    /\ n \notin {"MigrationGetImbalance", "IsOverloadFrequency"}
  <1>1. \A n \in Control :
          /\ n \in Second["Migration_judgement_get"] =>
               /\ XmlChildren[n][1] \in Second["Migration_judgement_get"]
               /\ XmlChildren[n][2] \in Second["Migration_judgement_get"]
          /\ n \in Second["Migration_judgement"] =>
               /\ XmlChildren[n][1] \in Second["Migration_judgement"]
               /\ XmlChildren[n][2] \in Second["Migration_judgement"]
    BY ControlNodes DEF XmlChildren, Second
  <1>2. \A n \in Control :
          /\ XmlChildren[n][1] # "Migration_judgement"
          /\ XmlChildren[n][1] = "IsOverloadFrequency" => n = "Migration_judgement"
          /\ XmlChildren[n][2] # "IsOverloadFrequency"
          /\ XmlChildren[n][2] = "Migration_judgement" => XmlChildren[n][1] = "MigrationGetImbalance"
          /\ n \notin {"MigrationGetImbalance", "IsOverloadFrequency"}
    BY ControlNodes DEF XmlChildren
  <1>3. \A n \in Control :
          /\ XmlChildren[n][1] \in Second["Migration_judgement"] =>
               n \in Second["Migration_judgement"]
          /\ XmlChildren[n][2] \in Second["Migration_judgement"] =>
               \/ XmlChildren[n][1] = "IsOverloadFrequency" /\ GoesOn(n) = "FAILURE"
               \/ XmlChildren[n][1] \in Second["Migration_judgement"]
    BY ControlNodes DEF XmlChildren, Second, GoesOn, XmlKind, Fallbacks, Actions
  <1> QED BY <1>1, <1>2, <1>3

\* Where a walk with a calm sample can go next.
LEMMA CalmRegion ==
  /\ \A n \in Control : XmlChildren[n][1] \in Second["Migration_judgement_get"] =>
                          n \in Second["Migration_judgement_get"]
  /\ \A n \in Control :
       XmlChildren[n][1] \in {"MigrationGetImbalance", "Migration_judgement_get",
                              "Migration_process", "root"} =>
         XmlChildren[n][2] \in Second["Migration_judgement_get"]
  /\ \A n \in Control, i \in 1..2 :
       XmlChildren[n][i] \in Second["Migration_judgement_get"] \cup
           {"MigrationGetImbalance", "Migration_judgement_get", "Migration_process", "root"}
         => n \in Second["Migration_judgement_get"] \cup
                    {"Migration_judgement_get", "Migration_process", "root"}
  /\ \A n \in Control : n \in Second["Migration_judgement_get"] =>
       /\ XmlChildren[n][1] \in Second["Migration_judgement_get"]
       /\ XmlChildren[n][2] \in Second["Migration_judgement_get"]
  <1>1. \A n \in Control :
       /\ XmlChildren[n][1] \in Second["Migration_judgement_get"] \cup
           {"MigrationGetImbalance", "Migration_judgement_get", "Migration_process", "root"}
         => n \in Second["Migration_judgement_get"] \cup
                    {"Migration_judgement_get", "Migration_process", "root"}
       /\ XmlChildren[n][2] \in Second["Migration_judgement_get"] \cup
           {"MigrationGetImbalance", "Migration_judgement_get", "Migration_process", "root"}
         => n \in Second["Migration_judgement_get"] \cup
                    {"Migration_judgement_get", "Migration_process", "root"}
    BY ControlNodes DEF XmlChildren, Second
  <1>2. \A n \in Control :
       /\ XmlChildren[n][1] \in Second["Migration_judgement_get"] =>
            n \in Second["Migration_judgement_get"]
       /\ n \in Second["Migration_judgement_get"] =>
            /\ XmlChildren[n][1] \in Second["Migration_judgement_get"]
            /\ XmlChildren[n][2] \in Second["Migration_judgement_get"]
       /\ XmlChildren[n][1] \in {"MigrationGetImbalance", "Migration_judgement_get",
                              "Migration_process", "root"} =>
            XmlChildren[n][2] \in Second["Migration_judgement_get"]
    BY ControlNodes DEF XmlChildren, Second
  <1> QED BY <1>1, <1>2

LEMMA TreeStepKeepsSample ==
  ASSUME SInv, TreeStep
  PROVE  SampleInv'
  <1> USE DEF SInv, IInv
  <1>1. /\ server = "handling" /\ Walk /\ step = "call"
        /\ UNCHANGED <<calm, step, round, cunt, overloadCount>>
    <2>1. /\ server = "handling" /\ Walk
          /\ UNCHANGED <<calm, step, round, cunt, overloadCount>>
      BY DEF TreeStep, policy, history
    <2>2. step = "call"
      BY <2>1, WalkAfterStart DEF Walk, TickChild, NextChild, Decide, EndTick, StepInv,
         TypeOK, Leaf
    <2> QED BY <2>1, <2>2
  <1>2. CASE TickChild
    <2>1. cursor \in Control /\ cursor' = XmlChildren[cursor][1] /\ dir = "tick" /\ dir' = "tick"
      BY <1>1, <1>2, SecondHalves DEF TickChild, IdxInv
    <2>2. calm => cursor \in Second["Migration_judgement_get"]
      BY <1>1, <2>1 DEF SampleInv, AfterSample
    <2> QED BY <1>1, <2>1, <2>2, WalkAfterSample, CalmRegion
            DEF SampleInv, AfterSample, Lasting, Due
  <1>3. CASE NextChild
    <2> DEFINE p == XmlParent[cursor]
    <2>1. p \in Control /\ cursor = XmlChildren[p][1] /\ cursor' = XmlChildren[p][2]
      BY <1>1, <1>3, ParentOfNode, SecondHalves, TwoChildren
         DEF NextChild, IdxInv, TypeOK, TreeTypeOK
    <2>2. ret = GoesOn(p) /\ dir = "ret" /\ dir' = "tick"
      BY <1>3 DEF NextChild
    <2> QED BY <1>1, <2>1, <2>2, WalkAfterSample, CalmRegion
            DEF SampleInv, AfterSample, Lasting, Due
  <1>4. CASE Decide
    <2> DEFINE p == XmlParent[cursor]
    <2>1. /\ p \in Control /\ cursor' = p /\ dir = "ret" /\ dir' = "ret"
          /\ cursor = XmlChildren[p][1] \/ cursor = XmlChildren[p][2]
      BY <1>4, ParentOfNode DEF Decide, TypeOK, TreeTypeOK
    <2> QED BY <1>1, <2>1, WalkAfterSample, CalmRegion
            DEF SampleInv, AfterSample, Lasting, Due
  <1>5. CASE EndTick
    BY <1>1, <1>5 DEF EndTick, SampleInv, AfterSample, Lasting, Due
  <1> QED BY <1>1, <1>2, <1>3, <1>4, <1>5 DEF Walk

\* Where the leaves lie with respect to the sampling.
LEMMA LeavesAndSampling ==
  /\ \A n \in {"GetLocalResource", "IsCpuOver", "IsMemOver", "MigrationNodesGet",
               "BestNodeGet", "MigrationGetImbalance"} :
       /\ n \notin Second["Migration_judgement_get"]
       /\ n \notin Second["Migration_judgement"]
  /\ "IsOverloadFrequency" \in Second["Migration_judgement_get"]
  /\ "IsOverloadFrequency" \notin Second["Migration_judgement"]
  /\ \A n \in {"runBestNode", "IsPolicySuccess", "Update"} :
       /\ n \in Second["Migration_judgement_get"]
       /\ n \in Second["Migration_judgement"]
  /\ "root" \notin Second["Migration_judgement"]
  BY DEF Second

LEMMA LeafKeepsSample ==
  ASSUME NoSlack, SInv, Judge \/ Select \/ Sample \/ Move,
         server' = "handling"
  PROVE  SampleInv'
  <1> USE DEF SInv, IInv, At
  <1> USE TriggerAssumption
  <1>1. CASE GetLocalResource \/ IsCpuOver \/ IsMemOver \/ MigrationNodesGet \/ BestNodeGet
    <2>1. /\ server = "handling" /\ dir = "tick" /\ dir' = "ret" /\ step = "call"
          /\ cursor \in {"GetLocalResource", "IsCpuOver", "IsMemOver", "MigrationNodesGet",
                         "BestNodeGet"}
          /\ UNCHANGED <<cursor, step, calm, round, cunt, overloadCount>>
      BY <1>1 DEF GetLocalResource, IsCpuOver, IsMemOver, MigrationNodesGet, BestNodeGet,
         ActionReturns, policy, history
    <2>2. ~calm
      BY <2>1, LeavesAndSampling DEF SampleInv, AfterSample
    <2> QED BY <2>1, <2>2, LeavesAndSampling DEF SampleInv
  <1>2. CASE BestNodeGetCrashes \/ MigrateAllKeysCrashes
    BY <1>2 DEF BestNodeGetCrashes, MigrateAllKeysCrashes
  <1>3. CASE FirstSample
    <2>1. /\ server = "handling" /\ dir = "tick" /\ step = "call" /\ round = 0
          /\ cursor = "MigrationGetImbalance"
      BY <1>3 DEF FirstSample, SampleInv
    <2>2. ~calm
      BY <2>1, LeavesAndSampling DEF SampleInv, AfterSample
    <2>3. \/ cunt' = 1 /\ step' = "sample" /\ UNCHANGED <<tree, calm, round>>
          \/ overloadCount' = 0 /\ ActionReturns("SUCCESS") /\ UNCHANGED <<step, round>>
      BY <1>3 DEF FirstSample
    <2>4. CASE cunt' = 1 /\ step' = "sample" /\ UNCHANGED <<tree, calm, round>>
      BY <2>1, <2>2, <2>4, LeavesAndSampling DEF SampleInv, AfterSample, tree
    <2>5. CASE overloadCount' = 0 /\ ActionReturns("SUCCESS") /\ UNCHANGED <<step, round>>
      BY <2>1, <2>5, LeavesAndSampling
         DEF SampleInv, AfterSample, ActionReturns, Lasting
    <2> QED BY <2>3, <2>4, <2>5
  <1>4. CASE NextSample
    <2>1. /\ step = "sample" /\ step' = "sample" /\ round' = round + 1 /\ server = "handling"
          /\ cursor = "MigrationGetImbalance" /\ dir = "tick" /\ UNCHANGED <<cursor, dir>>
      BY <1>4 DEF NextSample, tree
    <2>2. PICK r \in Readings : /\ cunt' = IF Over(r) THEN cunt + 1 ELSE cunt
                                /\ calm' = (calm \/ ~Over(r))
      BY <1>4 DEF NextSample
    <2>3. cunt \in Nat /\ cunt <= round + 1 /\ round \in Nat
      BY DEF TypeOK
    <2>4. CASE Over(r)
      <3>1. cunt' = cunt + 1
        BY <2>2, <2>4
      <3>2. cunt' = round' + 1 => cunt = round + 1
        BY <2>1, <2>3, <3>1
      <3>3. cunt' = round' + 1 => ~calm'
        BY <2>1, <2>2, <2>4, <3>2 DEF SampleInv
      <3> QED BY <2>1, <3>3, LeavesAndSampling DEF SampleInv, AfterSample
    <2>5. CASE ~Over(r)
      <3>1. cunt' # round' + 1
        BY <2>1, <2>2, <2>3, <2>5
      <3> QED BY <2>1, <3>1, LeavesAndSampling DEF SampleInv, AfterSample
    <2> QED BY <2>4, <2>5
  <1>5. CASE SamplesTaken
    <2>1. /\ step = "sample" /\ step' = "call" /\ round' = 0 /\ round = SampleRounds
          /\ overloadCount' = cunt /\ UNCHANGED calm /\ server = "handling"
          /\ cursor' = "MigrationGetImbalance" /\ dir' = "ret"
      BY <1>5 DEF SamplesTaken, ActionReturns
    <2>2. Lasting'
      BY <2>1 DEF SampleInv, Lasting
    <2> QED BY <2>1, <2>2, LeavesAndSampling DEF SampleInv, AfterSample
  <1>6. CASE IsOverloadFrequency
    <2>1. /\ server = "handling" /\ dir = "tick" /\ step = "call" /\ dir' = "ret"
          /\ cursor = "IsOverloadFrequency" /\ Lasting /\ round = 0
          /\ UNCHANGED <<cursor, step, round, cunt, overloadCount>>
      BY <1>6 DEF IsOverloadFrequency, ActionReturns, SampleInv, policy
    <2>2. ret' = "FAILURE" => Due'
      <3> SUFFICES ASSUME ret' = "FAILURE" PROVE Due'
        OBVIOUS
      <3>1. overloadCount > overloadFrequencyThreshold
        BY <1>6 DEF IsOverloadFrequency, ActionReturns
      <3>2. overloadCount = SampleRounds + 1
        BY <3>1 DEF NoSlack, TypeOK
      <3>3. PICK r \in Readings : /\ ret' = IF Over(r) THEN "FAILURE" ELSE "SUCCESS"
                                  /\ calm' = (calm \/ ~Over(r))
        BY <1>6, <3>1 DEF IsOverloadFrequency, ActionReturns
      <3>4. ~calm'
        <4>1. ~calm
          BY <2>1, <3>2 DEF Lasting
        <4>2. Over(r)
          BY <3>3
        <4> QED BY <4>1, <4>2, <3>3
      <3> QED BY <2>1, <3>2, <3>4 DEF Due
    <2> QED BY <2>1, <2>2, LeavesAndSampling DEF SampleInv, AfterSample
  <1>7. CASE StartContainer \/ MigrateAllKeys \/ IsPolicySuccess \/ StopContainer \/ ModifyDns
    <2>1. /\ server = "handling" /\ dir = "tick"
          /\ cursor \in {"runBestNode", "IsPolicySuccess", "Update"}
      BY <1>7 DEF StartContainer, MigrateAllKeys, IsPolicySuccess, StopContainer, ModifyDns
    <2>2. UNCHANGED <<cursor, calm, round, cunt, overloadCount>>
      BY <1>7 DEF StartContainer, MigrateAllKeys, IsPolicySuccess, StopContainer, ModifyDns,
         ActionReturns, tree, policy, history
    <2>3. step \in {"call", "copy", "dns"} /\ step' \in {"call", "copy", "dns"}
      BY <1>7, <2>1 DEF StartContainer, MigrateAllKeys, IsPolicySuccess, StopContainer,
         ModifyDns, StepInv, TypeOK
    <2>4. Due /\ Due'
      BY <2>1, <2>2, LeavesAndSampling DEF SampleInv, Due
    <2> QED BY <2>1, <2>2, <2>3, <2>4, LeavesAndSampling DEF SampleInv, AfterSample, Due
  <1> QED BY <1>1, <1>2, <1>3, <1>4, <1>5, <1>6, <1>7 DEF Judge, Select, Sample, Move

LEMMA NextKeepsSInv == NoSlack => (SInv /\ [Next]_vars => SInv')
  <1> SUFFICES ASSUME NoSlack, SInv, [Next]_vars PROVE SInv'
    OBVIOUS
  <1>1. IInv'
    BY NextKeepsIInv DEF SInv
  <1>2. ASSUME server' = "handling" PROVE SampleInv'
    <2>1. CASE TriggerStart
      BY <2>1 DEF TriggerStart, SampleInv
    <2>2. CASE TriggerWithoutXml \/ LoopExit \/ EtcdThrows
      BY <1>2, <2>2 DEF TriggerWithoutXml, LoopExit, EtcdThrows
    <2>3. CASE LoopTick
      <3>1. step = "call"
        BY <2>3 DEF LoopTick, TickRoot, SInv, IInv, StepInv, TypeOK
      <3> QED BY <2>3, <3>1, LeavesAndSampling
              DEF LoopTick, TickRoot, SInv, SampleInv, policy, XmlRoot
    <2>4. CASE TreeStep
      BY <2>4, TreeStepKeepsSample
    <2>5. CASE Judge \/ Select \/ Sample \/ Move
      BY <1>2, <2>5, LeafKeepsSample
    <2>6. CASE UNCHANGED vars
      BY <1>2, <2>6 DEF vars, tree, policy, history, SInv, SampleInv, AfterSample, Lasting, Due
    <2> QED BY <2>1, <2>2, <2>3, <2>4, <2>5, <2>6 DEF Next, Handle
  <1> QED BY <1>1, <1>2 DEF SInv

\* With a threshold that leaves no slack, such as the code's 20 against 20
\* rounds, a start request is sent only in a tick all of whose samples were
\* above a threshold, the one of isOverload included.
THEOREM StartsUnderLastingOverload ==
  ASSUME NoSlack PROVE Spec => []StartsOnlyUnderLastingOverload
  <1>1. Init => SInv
    BY InitIInv DEF SInv, Init
  <1>2. SInv /\ [Next]_vars => SInv'
    BY NextKeepsSInv
  <1>3. SInv => StartsOnlyUnderLastingOverload
    BY LeavesAndSampling DEF SInv, SampleInv, StartsOnlyUnderLastingOverload, At, Due
  <1> QED BY <1>1, <1>2, <1>3, PTL DEF Spec

-----------------------------------------------------------------------------
(* Trigger implements Handover.  The invariant says where the walk can be  *)
(* once a start was acknowledged; from there Phase moves only as           *)
(* Handover's phase does.                                                  *)

LEMMA InitRefines == Init => Promise!Init
  BY DEF Init, Promise!Init, Phase

\* Of the nodes that return after a start, only the start itself and
\* IsPolicySuccess are followed by another child.
LEMMA FirstSettling ==
  /\ \A n \in Control : XmlChildren[n][1] \in Settling =>
                          XmlChildren[n][1] \in {"runBestNode", "IsPolicySuccess"}
  /\ \A n \in Control : n \notin {"runBestNode", "IsPolicySuccess"}
  BY ControlNodes DEF XmlChildren, Settling, Second

\* The walk settles the handover, and does nothing else to it.
LEMMA WalkSettles ==
  ASSUME IInv, TreeStep
  PROVE  /\ UNCHANGED <<running, dns, best>>
         /\ Phase' = Phase \/ (Phase = "committed" /\ Phase' = "settled")
  <1> USE DEF IInv
  <1>1. /\ server = "handling" /\ Walk
        /\ UNCHANGED <<server, distribute, step, running, dns, best>>
    BY DEF TreeStep, policy, external
  <1>2. CASE ~distribute
    BY <1>1, <1>2 DEF Phase
  <1>3. CASE distribute
    <2>1. step = "call"
      BY <1>1, WalkAfterStart DEF Walk, TickChild, NextChild, Decide, EndTick, StepInv,
         TypeOK, Leaf
    <2>2. AfterStart
      BY <1>1, <1>3 DEF DistributeInv
    <2>3. CASE TickChild
      BY <1>1, <1>3, <2>1, <2>3 DEF TickChild, Phase
    <2>4. CASE NextChild
      <3>1. /\ XmlParent[cursor] \in Control
            /\ cursor = XmlChildren[XmlParent[cursor]][1]
        BY <1>1, <2>4, ParentOfNode, SecondHalves, TwoChildren
           DEF NextChild, IdxInv, TypeOK, TreeTypeOK
      <3>2. dir = "ret" /\ dir' = "tick"
        BY <2>4 DEF NextChild
      <3>3. cursor \in {"runBestNode", "IsPolicySuccess"}
        BY <2>2, <3>1, <3>2, FirstSettling DEF AfterStart
      <3> QED BY <1>1, <1>3, <2>1, <3>2, <3>3 DEF Phase
    <2>5. CASE Decide
      <3>1. dir = "ret" /\ dir' = "ret" /\ cursor' \in Control
        BY <2>5, ParentOfNode DEF Decide, TypeOK, TreeTypeOK
      <3> QED BY <1>1, <1>3, <2>1, <3>1, FirstSettling DEF Phase
    <2>6. CASE EndTick
      BY <1>1, <1>3, <2>1, <2>6 DEF EndTick, Phase, XmlRoot
    <2> QED BY <1>1, <2>3, <2>4, <2>5, <2>6 DEF Walk
  <1> QED BY <1>1, <1>2, <1>3

\* Until a start is acknowledged the handover stays open, whatever the leaves
\* before it do; only BestNodeGet changes the choice.
LEMMA DecidingRefines ==
  ASSUME IInv, Judge \/ Select \/ Sample \/ EtcdThrows
  PROVE  /\ UNCHANGED <<running, dns>>
         /\ Phase = "open" /\ Phase' = "open"
         /\ best' = best \/ best' \in Peers
  <1> USE DEF IInv, At
  <1>1. /\ server = "handling" /\ dir = "tick" /\ step # "copy"
        /\ cursor \in {"GetLocalResource", "IsCpuOver", "IsMemOver", "MigrationNodesGet",
                       "BestNodeGet", "MigrationGetImbalance", "IsOverloadFrequency"}
    BY DEF Judge, Select, Sample, GetLocalResource, IsCpuOver, IsMemOver, StepInv,
       IsOverloadFrequency, MigrationNodesGet, BestNodeGet, BestNodeGetCrashes, FirstSample,
       NextSample, SamplesTaken, EtcdThrows
  <1>2. ~distribute
    BY <1>1, NotDistributed
  <1>3. /\ UNCHANGED <<running, dns, distribute>>
        /\ best' = best \/ best' \in global
    BY DEF Judge, Select, Sample, GetLocalResource, IsCpuOver, IsMemOver,
       IsOverloadFrequency, MigrationNodesGet, BestNodeGet, BestNodeGetCrashes, FirstSample,
       NextSample, SamplesTaken, EtcdThrows, policy, external
  <1>4. global \subseteq Peers
    BY DEF TypeOK
  <1> QED BY <1>2, <1>3, <1>4 DEF Phase

LEMMA StartRefines == ASSUME IInv, StartContainer PROVE [Promise!Next]_(Promise!vars)
  <1> USE DEF IInv, At
  <1>1. server = "handling" /\ dir = "tick" /\ cursor = "runBestNode" /\ step = "call"
    BY DEF StartContainer
  <1>2. ~distribute /\ best \in Peers
    BY <1>1, NotDistributed, LeafTables DEF FreshInv, Member
  <1>3. PICK o \in StartOutcomes(best) :
          /\ SetContainer(best, o.up)
          /\ IF o.status \in Acknowledged
             THEN distribute' = TRUE /\ step' = "copy" /\ UNCHANGED tree
             ELSE ActionReturns("FAILURE") /\ UNCHANGED <<distribute, step>>
    BY DEF StartContainer
  <1>4. /\ running' \in {running, running \cup {best}}
        /\ o.status \in Acknowledged => running' = running \cup {best}
    BY <1>3, StartLeavesUp DEF SetContainer
  <1>5. UNCHANGED <<server, dns, best>>
    BY DEF StartContainer
  <1>6. CASE o.status \in Acknowledged
    <2>1. Phase = "open" /\ Phase' = "committed"
      BY <1>1, <1>2, <1>3, <1>5, <1>6 DEF Phase, tree
    <2>2. Promise!Commit
      BY <1>2, <1>4, <1>5, <1>6, <2>1 DEF Promise!Commit
    <2> QED BY <2>2 DEF Promise!Next
  <1>7. CASE o.status \notin Acknowledged
    <2>1. Phase = "open" /\ Phase' = "open"
      BY <1>1, <1>2, <1>3, <1>5, <1>7 DEF Phase
    <2>2. Promise!Attempt \/ UNCHANGED Promise!vars
      BY <1>2, <1>4, <1>5, <2>1 DEF Promise!Attempt, Promise!vars
    <2> QED BY <2>2 DEF Promise!Next
  <1> QED BY <1>6, <1>7

LEMMA StopRefines == ASSUME IInv, StopContainer PROVE [Promise!Next]_(Promise!vars)
  <1> USE DEF IInv, At
  <1>1. /\ server = "handling" /\ dir = "tick" /\ cursor = "Update" /\ step = "call"
        /\ distribute
    BY DEF StopContainer, DistributeInv
  <1>2. PICK o \in StopOutcomes(Local) :
          /\ SetContainer(Local, o.up)
          /\ IF o.status \in Acknowledged
             THEN step' = "dns" /\ UNCHANGED tree
             ELSE ActionReturns("FAILURE") /\ UNCHANGED step
    BY DEF StopContainer
  <1>3. /\ running' \in {running, running \ {Local}}
        /\ o.status \in Acknowledged => running' = running \ {Local}
    BY <1>2 DEF SetContainer, StopOutcomes, Outcome, Acknowledged, NoAnswer
  <1>4. UNCHANGED <<server, distribute, dns, best>>
    BY DEF StopContainer, policy
  <1>5. Phase = "committed"
    BY <1>1 DEF Phase
  <1>6. CASE o.status \in Acknowledged
    <2>1. Phase' = "stopped"
      BY <1>1, <1>2, <1>4, <1>6 DEF Phase
    <2> QED BY <1>3, <1>4, <1>5, <1>6, <2>1 DEF Promise!Stop, Promise!Next
  <1>7. CASE o.status \notin Acknowledged
    <2>1. Phase' = "settled"
      BY <1>1, <1>2, <1>4, <1>7 DEF Phase, ActionReturns
    <2> QED BY <1>3, <1>4, <1>5, <2>1 DEF Promise!StopFails, Promise!Next
  <1> QED BY <1>6, <1>7

LEMMA StepRefines == IInv /\ [Next]_vars => [Promise!Next]_(Promise!vars)
  <1> SUFFICES ASSUME IInv, [Next]_vars PROVE [Promise!Next]_(Promise!vars)
    OBVIOUS
  <1> USE DEF IInv, At
  <1>1. CASE TreeStep
    <2>1. UNCHANGED Promise!vars \/ Promise!StopFails
      BY <1>1, WalkSettles DEF Promise!vars, Promise!StopFails
    <2> QED BY <2>1 DEF Promise!Next
  <1>2. CASE Judge \/ Select \/ Sample \/ EtcdThrows
    <2>1. UNCHANGED Promise!vars \/ Promise!Choose
      BY <1>2, DecidingRefines DEF Promise!vars, Promise!Choose
    <2> QED BY <2>1 DEF Promise!Next
  <1>3. CASE StartContainer
    BY <1>3, StartRefines
  <1>4. CASE MigrateAllKeys \/ MigrateAllKeysCrashes \/ IsPolicySuccess
    <2>1. Phase' = Phase
      BY <1>4 DEF MigrateAllKeys, MigrateAllKeysCrashes, IsPolicySuccess, ActionReturns,
         Phase, policy, tree, StepInv
    <2>2. UNCHANGED <<running, dns, best>>
      BY <1>4 DEF MigrateAllKeys, MigrateAllKeysCrashes, IsPolicySuccess, policy, external
    <2> QED BY <2>1, <2>2 DEF Promise!vars
  <1>5. CASE StopContainer
    BY <1>5, StopRefines
  <1>6. CASE ModifyDns
    <2>1. /\ server = "handling" /\ dir = "tick" /\ cursor = "Update" /\ distribute
          /\ step = "dns"
      BY <1>6 DEF ModifyDns, DistributeInv
    <2>2. /\ Phase = "stopped" /\ Phase' = "settled"
          /\ UNCHANGED <<running, best>> /\ dns' \in {dns, best}
      BY <1>6, <2>1 DEF ModifyDns, Phase, ActionReturns, policy
    <2> QED BY <2>2 DEF Promise!MoveDns, Promise!Next
  <1>7. CASE TriggerStart
    <2>1. Phase = "open" /\ Phase' = "open" /\ best' = NoNode /\ UNCHANGED <<running, dns>>
      BY <1>7 DEF TriggerStart, Phase, external
    <2> QED BY <2>1 DEF Promise!Choose, Promise!Next
  <1>8. CASE TriggerWithoutXml \/ LoopTick
    <2>1. Phase = "open" /\ Phase' = "open" /\ UNCHANGED <<running, dns, best>>
      BY <1>8 DEF TriggerWithoutXml, LoopTick, Phase, policy, external
    <2> QED BY <2>1 DEF Promise!vars
  <1>9. CASE LoopExit
    <2>1. step # "dns"
      BY <1>9 DEF LoopExit, StepInv
    <2>2. Phase = "settled" /\ Phase' = "open" /\ UNCHANGED <<running, dns, best>>
      BY <1>9, <2>1 DEF LoopExit, Phase, policy, external
    <2> QED BY <2>2 DEF Promise!Finish, Promise!Next
  <1>10. CASE UNCHANGED vars
    BY <1>10 DEF vars, tree, policy, external, Promise!vars, Phase
  <1> QED BY <1>1, <1>2, <1>3, <1>4, <1>5, <1>6, <1>7, <1>8, <1>9, <1>10
          DEF Next, Handle, Move

\* Every behaviour of the handler is one that Handover allows: the stop comes
\* after an acknowledged start, the DNS entry after an acknowledged stop, each
\* at most once per request, whatever the tree ticks in between.
THEOREM Refinement == Spec => ImplementsHandover
  <1>1. IInv /\ [Next]_vars => [Promise!Next]_(Promise!vars)
    BY StepRefines
  <1> QED BY <1>1, InitRefines, SpecKeepsIInv, PTL DEF Spec, ImplementsHandover, Promise!Spec

-----------------------------------------------------------------------------
(* Trigger implements Choice.  Of each tick's walk one has to know where   *)
(* the candidates are not listed yet, and where they are but the node is   *)
(* not chosen.                                                             *)

\* The nodes on the way to MigrationNodesGet, going down and coming back.
EarlyDown == {"root", "GetLocalResource", "Migration_process", "Migration_calculate",
              "Migration_jugdement", "IsCpuOver", "IsMemOver",
              "Migration_policy_calculate", "MigrationNodesGet"}
EarlyUp   == {"GetLocalResource", "Migration_jugdement", "IsCpuOver", "IsMemOver"}

Early == (dir = "tick" /\ cursor \in EarlyDown) \/ (dir = "ret" /\ cursor \in EarlyUp)

\* Between MigrationNodesGet and BestNodeGet.
Choosing == \/ dir = "tick" /\ cursor = "BestNodeGet"
            \/ dir = "ret" /\ cursor = "MigrationNodesGet" /\ ret = "SUCCESS"

ChoiceInv ==
  /\ server = "handling" /\ Early => "global" \notin fresh /\ "best" \notin fresh
  /\ server = "handling" /\ Choosing => Stage \in {"listed", "blind"}
  /\ Stage \in {"listed", "blind"} => server = "handling" /\ Choosing

LEMMA WayToTheChoice ==
  \A n \in Control :
    /\ XmlChildren[n][1] \in EarlyDown => n \in EarlyDown
    /\ XmlChildren[n][2] \in EarlyDown => XmlChildren[n][1] \in EarlyUp
    /\ n \in EarlyUp => XmlChildren[n][1] \in EarlyUp /\ XmlChildren[n][2] \in EarlyUp
    /\ XmlChildren[n][1] # "BestNodeGet"
    /\ XmlChildren[n][2] = "BestNodeGet" <=> XmlChildren[n][1] = "MigrationNodesGet"
    /\ XmlChildren[n][1] = "MigrationNodesGet" => GoesOn(n) = "SUCCESS"
    /\ XmlChildren[n][2] # "MigrationNodesGet"
    /\ n \notin {"BestNodeGet", "MigrationNodesGet"}
  BY ControlNodes DEF XmlChildren, EarlyDown, EarlyUp, GoesOn, XmlKind, Fallbacks, Actions

LEMMA TreeStepKeepsChoice ==
  ASSUME IInv, ChoiceInv, TreeStep
  PROVE  ChoiceInv' /\ Stage' = Stage
  <1>1. /\ server = "handling" /\ server' = "handling" /\ Walk
        /\ fresh' = fresh /\ graph' = graph /\ TypeOK /\ IdxInv
    BY DEF TreeStep, policy, history, IInv
  <1>2. Stage' = Stage
    BY <1>1 DEF Stage
  <1>3. (Early' => Early) /\ (Choosing' <=> Choosing)
    <2>1. CASE TickChild
      <3>1. /\ cursor \in Control /\ cursor' = XmlChildren[cursor][1]
            /\ dir = "tick" /\ dir' = "tick"
        BY <1>1, <2>1, SecondHalves DEF TickChild, IdxInv
      <3> QED BY <3>1, WayToTheChoice DEF Early, Choosing
    <2>2. CASE NextChild
      <3> DEFINE n == XmlParent[cursor]
      <3>1. n \in Control /\ cursor = XmlChildren[n][1] /\ cursor' = XmlChildren[n][2]
        BY <1>1, <2>2, ParentOfNode, SecondHalves, TwoChildren
           DEF NextChild, IdxInv, TypeOK, TreeTypeOK
      <3>2. ret = GoesOn(n) /\ dir = "ret" /\ dir' = "tick"
        BY <2>2 DEF NextChild
      <3> QED BY <3>1, <3>2, WayToTheChoice DEF Early, Choosing
    <2>3. CASE Decide
      <3> DEFINE n == XmlParent[cursor]
      <3>1. /\ n \in Control /\ cursor' = n /\ dir = "ret" /\ dir' = "ret"
            /\ \/ cursor = XmlChildren[n][1] /\ ret # GoesOn(n)
               \/ cursor = XmlChildren[n][2]
        BY <1>1, <2>3, ParentOfNode, SecondHalves, TwoChildren
           DEF Decide, IdxInv, TypeOK, TreeTypeOK
      <3> QED BY <3>1, WayToTheChoice DEF Early, Choosing
    <2>4. CASE EndTick
      BY <2>4 DEF EndTick, XmlRoot, Early, Choosing
    <2> QED BY <1>1, <2>1, <2>2, <2>3, <2>4 DEF Walk
  <1> QED BY <1>1, <1>2, <1>3 DEF ChoiceInv

\* The leaves before MigrationNodesGet; they list nothing.
LEMMA JudgeKeepsChoice ==
  ASSUME IInv, ChoiceInv, GetLocalResource \/ IsCpuOver \/ IsMemOver
  PROVE  ChoiceInv' /\ Stage' = Stage /\ UNCHANGED <<global, best>>
  <1>1. /\ server = "handling" /\ server' = "handling" /\ dir = "tick"
        /\ dir' = "ret" /\ cursor' = cursor
        /\ cursor \in {"GetLocalResource", "IsCpuOver", "IsMemOver"}
        /\ fresh' \in {fresh, fresh \cup {"localhost"}}
        /\ UNCHANGED <<global, best>>
    BY DEF GetLocalResource, IsCpuOver, IsMemOver, At, ActionReturns, policy, history
  <1>2. Early /\ ~Choosing'
    BY <1>1 DEF Early, EarlyDown, Choosing
  <1>3. "global" \notin fresh' /\ "best" \notin fresh' /\ Stage' = "listing" /\ Stage = "listing"
    BY <1>1, <1>2 DEF ChoiceInv, Stage
  <1> QED BY <1>1, <1>2, <1>3 DEF ChoiceInv

\* The leaves after BestNodeGet, and what ends the request: the choice is not
\* touched, whatever is stored elsewhere.
LEMMA LaterKeepsChoice ==
  ASSUME IInv, ChoiceInv, IsOverloadFrequency \/ Sample \/ Move \/ EtcdThrows \/ LoopExit
  PROVE  ChoiceInv' /\ Stage' = Stage /\ UNCHANGED <<global, best>>
  <1>1. /\ server = "handling" /\ ~Choosing /\ UNCHANGED <<global, graph, best>>
        /\ fresh' \in {fresh, fresh \cup {"overloadCount"}}
        /\ server' = "handling" => ~Choosing' /\ ~Early'
    <2>1. CASE IsOverloadFrequency \/ Sample
      BY <2>1 DEF IsOverloadFrequency, Sample, FirstSample, NextSample, SamplesTaken, At,
         ActionReturns, policy, tree, history, Choosing, Early, EarlyUp, EarlyDown
    <2>2. CASE Move
      BY <2>2 DEF Move, StartContainer, MigrateAllKeys, MigrateAllKeysCrashes,
         IsPolicySuccess, StopContainer, ModifyDns, At, ActionReturns, policy, tree,
         history, Choosing, Early, EarlyUp, EarlyDown
    <2>3. CASE EtcdThrows
      BY <2>3 DEF EtcdThrows, policy, history, Choosing
    <2>4. CASE LoopExit
      BY <2>4 DEF LoopExit, policy, history, Choosing
    <2> QED BY <2>1, <2>2, <2>3, <2>4
  <1>2. Stage \notin {"listed", "blind"} /\ Stage' = Stage
    BY <1>1 DEF ChoiceInv, Stage
  <1> QED BY <1>1, <1>2 DEF ChoiceInv

LEMMA InitChooses == Init => ChoiceInv /\ Choices!Init
  BY DEF Init, ChoiceInv, Stage, Choices!Init

LEMMA StepChooses ==
  IInv /\ ChoiceInv /\ [Next]_vars => ChoiceInv' /\ [Choices!Next]_(Choices!vars)
  <1> SUFFICES ASSUME IInv, ChoiceInv, [Next]_vars
               PROVE  ChoiceInv' /\ [Choices!Next]_(Choices!vars)
    OBVIOUS
  <1>1. CASE TreeStep
    BY <1>1, TreeStepKeepsChoice DEF TreeStep, policy, Choices!vars
  <1>2. CASE GetLocalResource \/ IsCpuOver \/ IsMemOver
    BY <1>2, JudgeKeepsChoice DEF Choices!vars
  <1>3. CASE IsOverloadFrequency \/ Sample \/ Move \/ EtcdThrows \/ LoopExit
    BY <1>3, LaterKeepsChoice DEF Choices!vars
  <1>4. CASE MigrationNodesGet
    <2>1. /\ server = "handling" /\ server' = "handling" /\ dir = "tick" /\ dir' = "ret"
          /\ cursor = "MigrationNodesGet" /\ cursor' = cursor /\ ret' = "SUCCESS"
          /\ global' \in SUBSET Peers /\ fresh' = fresh \cup {"global"} /\ best' = best
      BY <1>4, TriggerAssumption DEF MigrationNodesGet, At, ActionReturns
    <2>2. "global" \notin fresh /\ "best" \notin fresh
      BY <2>1 DEF ChoiceInv, Early, EarlyDown
    <2>3. Stage = "listing" /\ Stage' \in {"listed", "blind"} /\ Choosing' /\ ~Early'
      BY <2>1, <2>2 DEF Stage, Choosing, Early, EarlyUp
    <2> QED BY <2>1, <2>3 DEF ChoiceInv, Choices!List, Choices!Next
  <1>5. CASE BestNodeGet
    <2>1. /\ server = "handling" /\ server' = "handling" /\ dir = "tick" /\ dir' = "ret"
          /\ cursor = "BestNodeGet" /\ cursor' = cursor
          /\ best' \in global /\ fresh' = fresh \cup {"best"} /\ global' = global
      BY <1>5 DEF BestNodeGet, At, ActionReturns
    <2>2. Stage \in {"listed", "blind"}
      BY <2>1 DEF ChoiceInv, Choosing
    <2>3. Stage' = "chosen" /\ ~Choosing' /\ ~Early'
      BY <2>1, <2>2 DEF Stage, Choosing, Early, EarlyUp
    <2> QED BY <2>1, <2>2, <2>3 DEF ChoiceInv, Choices!Choose, Choices!Next
  <1>6. CASE BestNodeGetCrashes
    <2>1. /\ server = "handling" /\ server' = "crashed" /\ dir = "tick"
          /\ cursor = "BestNodeGet" /\ (global = {} \/ ~graph)
          /\ fresh' = fresh /\ global' = global /\ best' = best
      BY <1>6 DEF BestNodeGetCrashes, At, policy, history
    <2>2. Stage \in {"listed", "blind"}
      BY <2>1 DEF ChoiceInv, Choosing
    <2>3. Stage' = "over"
      BY <2>1, <2>2 DEF Stage
    <2>4. Stage = "listed" => global = {}
      BY <2>1 DEF Stage
    <2> QED BY <2>1, <2>2, <2>3, <2>4
            DEF ChoiceInv, Choices!NoChoice, Choices!Collapse, Choices!Next
  <1>7. CASE TriggerStart
    <2>1. /\ server = "listening" /\ server' = "handling" /\ dir' = "idle"
          /\ fresh' = {} /\ global' = {} /\ best' = NoNode
      BY <1>7 DEF TriggerStart
    <2>2. Stage \in {"listing", "chosen"} /\ Stage' = "listing"
      BY <2>1 DEF ChoiceInv, Stage
    <2> QED BY <2>1, <2>2 DEF ChoiceInv, Early, Choosing, Choices!Again, Choices!Next
  <1>8. CASE LoopTick
    <2>1. /\ server = "handling" /\ server' = "handling" /\ dir = "idle" /\ dir' = "tick"
          /\ cursor' = "root" /\ fresh' = {} /\ global' = global /\ best' = best
      BY <1>8 DEF LoopTick, TickRoot, policy, XmlRoot
    <2>2. Stage \in {"listing", "chosen"} /\ Stage' = "listing" /\ ~Choosing'
      BY <2>1 DEF ChoiceInv, Choosing, Stage
    <2> QED BY <2>1, <2>2 DEF ChoiceInv, Choices!Again, Choices!Next
  <1>9. CASE TriggerWithoutXml
    <2>1. UNCHANGED <<server, tree, global, graph, best, fresh>>
      BY <1>9 DEF TriggerWithoutXml, policy, history
    <2> QED BY <2>1 DEF ChoiceInv, Early, Choosing, Stage, tree, Choices!vars
  <1>10. CASE UNCHANGED vars
    <2>1. UNCHANGED <<server, tree, global, graph, best, fresh>>
      BY <1>10 DEF vars, policy, history
    <2> QED BY <2>1 DEF ChoiceInv, Early, Choosing, Stage, tree, Choices!vars
  <1> QED BY <1>1, <1>2, <1>3, <1>4, <1>5, <1>6, <1>7, <1>8, <1>9, <1>10
          DEF Next, Handle, Judge, Select

\* Every tick of the handler chooses as Choice allows: from the candidates of
\* the same tick, and without a result only for want of candidates or graph.
THEOREM ChoiceIsSound == Spec => ImplementsChoice
  <1>1. IInv /\ ChoiceInv /\ [Next]_vars => ChoiceInv' /\ [Choices!Next]_(Choices!vars)
    BY StepChooses
  <1> QED BY <1>1, InitChooses, SpecKeepsIInv, PTL
          DEF Spec, ImplementsChoice, Choices!Spec
=============================================================================
