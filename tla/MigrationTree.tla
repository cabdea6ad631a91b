--------------------------- MODULE MigrationTree ---------------------------
(***************************************************************************)
(* The behaviour tree of migration_subtree.xml, which the trigger handler  *)
(* builds for each request.  Control nodes are named by their name         *)
(* attribute, spelling included; actions by the identifier under which     *)
(* service_migration::trigger registers them.                              *)
(***************************************************************************)
EXTENDS Naturals, Sequences

XmlRoot == "root"

XmlChildren ==
  [ root                       |-> <<"GetLocalResource", "Migration_process">>,
    Migration_process          |-> <<"Migration_calculate", "Migration_judgement_get">>,
    Migration_calculate        |-> <<"Migration_jugdement", "Migration_policy_calculate">>,
    Migration_jugdement        |-> <<"IsCpuOver", "IsMemOver">>,
    Migration_policy_calculate |-> <<"MigrationNodesGet", "BestNodeGet">>,
    Migration_judgement_get    |-> <<"MigrationGetImbalance", "Migration_judgement">>,
    Migration_judgement        |-> <<"IsOverloadFrequency", "Migratin_policy_distrubution">>,
    Migratin_policy_distrubution |-> <<"runBestNode", "best_node_run_judgement">>,
    best_node_run_judgement    |-> <<"IsPolicySuccess", "Update">> ]

Fallbacks == {"Migration_jugdement", "Migration_judgement", "best_node_run_judgement"}

Actions == {"GetLocalResource", "IsCpuOver", "IsMemOver", "MigrationNodesGet",
            "BestNodeGet", "MigrationGetImbalance", "IsOverloadFrequency",
            "runBestNode", "IsPolicySuccess", "Update"}

XmlKind == [n \in Actions \cup DOMAIN XmlChildren |->
              IF n \in Actions THEN "Action"
              ELSE IF n \in Fallbacks THEN "Fallback" ELSE "Sequence"]

\* The enclosing element of every element but the root.
XmlParent ==
  [ GetLocalResource             |-> "root",
    Migration_process            |-> "root",
    Migration_calculate          |-> "Migration_process",
    Migration_judgement_get      |-> "Migration_process",
    Migration_jugdement          |-> "Migration_calculate",
    Migration_policy_calculate   |-> "Migration_calculate",
    IsCpuOver                    |-> "Migration_jugdement",
    IsMemOver                    |-> "Migration_jugdement",
    MigrationNodesGet            |-> "Migration_policy_calculate",
    BestNodeGet                  |-> "Migration_policy_calculate",
    MigrationGetImbalance        |-> "Migration_judgement_get",
    Migration_judgement          |-> "Migration_judgement_get",
    IsOverloadFrequency          |-> "Migration_judgement",
    Migratin_policy_distrubution |-> "Migration_judgement",
    runBestNode                  |-> "Migratin_policy_distrubution",
    best_node_run_judgement      |-> "Migratin_policy_distrubution",
    IsPolicySuccess              |-> "best_node_run_judgement",
    Update                       |-> "best_node_run_judgement" ]
=============================================================================
