------------------------- MODULE MCUpgradeRevisions -------------------------
(* Upgrades of a period on small instances. *)
EXTENDS UpgradeRevisions
=============================================================================
