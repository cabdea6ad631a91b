------------------------ MODULE MCMigrationSystem ------------------------
EXTENDS MigrationSystem

\* A candidate, and a node that has to give the service away.
Extremes == {"low", "over"}
=============================================================================
