--------------------------- MODULE MCOstMigration ---------------------------
(* Small instances of OstMigration for TLC.                                *)
EXTENDS OstMigration

TwoTargets == <<1, 2>>
=============================================================================
