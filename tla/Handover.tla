------------------------------ MODULE Handover ------------------------------
(***************************************************************************)
(* What a service migration promises, whatever the tree and the decision   *)
(* logic look like: the local container is stopped only once a peer has    *)
(* acknowledged that it runs the service, the DNS entry is moved only      *)
(* after the stop was acknowledged and only to that peer, and each of the  *)
(* two is attempted at most once per request.  Nothing is promised about a *)
(* stop or a DNS update that fails: the request then ends where it is.     *)
(***************************************************************************)
CONSTANTS Local, Peers, NoNode

\* What a node of the system assumes of its constants; a hypothesis of the
\* theorem in HandoverProofs, and part of Trigger's TriggerAssumption.
HandoverAssumption == Local \notin Peers /\ NoNode \notin Peers

VARIABLES
  running,   \* the nodes whose container is up
  dns,       \* the node the service's name points to
  chosen,    \* the node the service is being moved to
  phase      \* "open", "committed", "stopped" or "settled"

vars == <<running, dns, chosen, phase>>

Init == /\ running = {Local}
        /\ dns = Local
        /\ chosen = NoNode
        /\ phase = "open"

\* As long as no start is acknowledged the choice is free.
Choose == /\ phase = "open"
          /\ chosen' \in Peers \cup {NoNode}
          /\ UNCHANGED <<running, dns, phase>>

\* A start request that is not acknowledged may bring the container up.
Attempt == /\ phase = "open"
           /\ chosen \in Peers
           /\ running' = running \cup {chosen}
           /\ UNCHANGED <<dns, chosen, phase>>

Commit == /\ phase = "open"
          /\ chosen \in Peers
          /\ running' = running \cup {chosen}
          /\ phase' = "committed"
          /\ UNCHANGED <<dns, chosen>>

Stop == /\ phase = "committed"
        /\ running' = running \ {Local}
        /\ phase' = "stopped"
        /\ UNCHANGED <<dns, chosen>>

\* A stop request that is not acknowledged may take the container down.
StopFails == /\ phase = "committed"
             /\ running' \in {running, running \ {Local}}
             /\ phase' = "settled"
             /\ UNCHANGED <<dns, chosen>>

MoveDns == /\ phase = "stopped"
           /\ dns' \in {dns, chosen}
           /\ phase' = "settled"
           /\ UNCHANGED <<running, chosen>>

Finish == /\ phase = "settled"
          /\ phase' = "open"
          /\ chosen' \in {chosen, NoNode}
          /\ UNCHANGED <<running, dns>>

Next == Choose \/ Attempt \/ Commit \/ Stop \/ StopFails \/ MoveDns \/ Finish

Spec == Init /\ [][Next]_vars

-----------------------------------------------------------------------------

TypeOK == /\ running \subseteq Peers \cup {Local}
          /\ dns \in Peers \cup {Local}
          /\ chosen \in Peers \cup {NoNode}
          /\ phase \in {"open", "committed", "stopped", "settled"}

\* The service is up somewhere at every moment, whatever calls fail.
NoOutage == running # {}

\* From the acknowledgement on, the chosen peer runs the service.
ChosenRuns == phase # "open" => chosen \in running \cap Peers

Inv == TypeOK /\ NoOutage /\ ChosenRuns
=============================================================================
