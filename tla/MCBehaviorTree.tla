--------------------------- MODULE MCBehaviorTree ---------------------------
(***************************************************************************)
(* Ticks of the tree of migration_subtree.xml, every action returning any  *)
(* status.                                                                 *)
(***************************************************************************)
EXTENDS TickHistory, MigrationTree
=============================================================================
