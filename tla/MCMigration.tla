------------------------------ MODULE MCMigration ------------------------------
(* Bounds of Migration for TLC: one vault beside the keystore, the contact book *)
(* and the registry, all of which are moved in the same way.                   *)
EXTENDS Migration

CONSTANT v1

\* Interruptions alone, and everything together.
MCFaultSets == {{"crash", "io"}, {"crash", "io", "ambiguous", "import", "save"}}
================================================================================
