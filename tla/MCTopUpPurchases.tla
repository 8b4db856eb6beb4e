-------------------------- MODULE MCTopUpPurchases --------------------------
(* Top-up bundles on small instances. *)
EXTENDS TopUpPurchases
=============================================================================
