------------------------------- MODULE Choice -------------------------------
(***************************************************************************)
(* What the choice of a node promises, however the lists are built and the *)
(* costs computed: the candidates are listed once and are peers, the node  *)
(* chosen is one of the candidates of the same round, and a choice that    *)
(* has begun ends without a node only if there are none, or if it is made  *)
(* blind, without the topology, which may end the process.  The two leaves *)
(* MigrationNodesGet and BestNodeGet of Trigger are this in a few actions, *)
(* the loops of Selection are it in many.                                  *)
(***************************************************************************)
CONSTANTS Peers, NoNode

VARIABLES
  stage,        \* "listing", "listed", "blind", "chosen" or "over"
  candidates,   \* the peers that pass
  chosen

vars == <<stage, candidates, chosen>>

Init == stage = "listing" /\ candidates = {} /\ chosen = NoNode

\* The topology may be missing then.
List == /\ stage = "listing"
        /\ candidates' \in SUBSET Peers
        /\ stage' \in {"listed", "blind"}
        /\ UNCHANGED chosen

Choose == /\ stage \in {"listed", "blind"}
          /\ chosen' \in candidates
          /\ stage' = "chosen"
          /\ UNCHANGED candidates

\* Nothing to choose from ends the process.
NoChoice == /\ stage = "listed"
            /\ candidates = {}
            /\ stage' = "over"
            /\ UNCHANGED <<candidates, chosen>>

\* A choice without the topology may end the process whatever the candidates.
Collapse == /\ stage = "blind"
            /\ stage' = "over"
            /\ UNCHANGED <<candidates, chosen>>

\* The peers cannot be listed: etcd fails.
Abandon == /\ stage = "listing"
           /\ stage' = "over"
           /\ UNCHANGED <<candidates, chosen>>

\* Another tick or another request; it may keep the old values, to be
\* overwritten before they are used.
Again == /\ stage \in {"listing", "chosen"}
         /\ stage' = "listing"
         /\ candidates' \in {candidates, {}}
         /\ chosen' \in {chosen, NoNode}

Next == List \/ Choose \/ NoChoice \/ Collapse \/ Abandon \/ Again

Spec == Init /\ [][Next]_vars
=============================================================================
