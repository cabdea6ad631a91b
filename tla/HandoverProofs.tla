--------------------------- MODULE HandoverProofs ---------------------------
(***************************************************************************)
(* What follows from the promise of Handover, for any set of peers.        *)
(***************************************************************************)
EXTENDS Handover, TLAPS

LEMMA InitInv == ASSUME HandoverAssumption PROVE Init => Inv
BY DEF HandoverAssumption, Init, Inv, TypeOK, NoOutage, ChosenRuns

LEMMA NextInv == ASSUME HandoverAssumption PROVE Inv /\ [Next]_vars => Inv'
<1> SUFFICES ASSUME Inv, [Next]_vars PROVE Inv'
  OBVIOUS
<1> USE DEF Inv, TypeOK, NoOutage, ChosenRuns
<1>1. CASE Choose
  BY <1>1 DEF Choose
<1>2. CASE Attempt
  BY <1>2 DEF Attempt
<1>3. CASE Commit
  BY <1>3 DEF Commit
<1>4. CASE Stop
  \* The chosen peer is not the local node, and stays up.
  <2>1. chosen \in running' /\ chosen \in Peers
    BY <1>4 DEF Stop, HandoverAssumption
  <2>2. QED
    BY <1>4, <2>1 DEF Stop
<1>5. CASE StopFails
  <2>1. chosen \in running' /\ chosen \in Peers
    BY <1>5 DEF StopFails, HandoverAssumption
  <2>2. QED
    BY <1>5, <2>1 DEF StopFails
<1>6. CASE MoveDns
  BY <1>6 DEF MoveDns
<1>7. CASE Finish
  BY <1>7 DEF Finish
<1>8. CASE UNCHANGED vars
  BY <1>8 DEF vars
<1>9. QED
  BY <1>1, <1>2, <1>3, <1>4, <1>5, <1>6, <1>7, <1>8 DEF Next

\* A service handed over by Handover's rules (bestNodeRun before update, each
\* step only after the one before was acknowledged) is up at every moment, and
\* on the chosen peer from the acknowledgement of its start on.
THEOREM HandoverKeepsServiceUp == ASSUME HandoverAssumption PROVE Spec => []Inv
<1>1. Init => Inv
  BY InitInv
<1>2. Inv /\ [Next]_vars => Inv'
  BY NextInv
<1>3. QED
  BY <1>1, <1>2, PTL DEF Spec
=============================================================================
