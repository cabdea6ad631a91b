--------------------------- MODULE MCKeyMigration ---------------------------
(***************************************************************************)
(* Two hosts and two keys, as model values: enough for a migration there   *)
(* and back, and for a fault on one key to meet a healthy other one.       *)
(***************************************************************************)
EXTENDS KeyMigration
=============================================================================
