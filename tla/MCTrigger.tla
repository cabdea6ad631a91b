------------------------------ MODULE MCTrigger ------------------------------
EXTENDS Trigger

\* Every reading, and a node with both resources over for good.
AllReadings == Reading
BothOver    == {[cpu |-> TRUE, mem |-> TRUE]}

AnyCandidates  == SUBSET Peers
SomeCandidates == (SUBSET Peers) \ {{}}
=============================================================================
