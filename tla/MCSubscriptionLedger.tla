------------------------ MODULE MCSubscriptionLedger ------------------------
(* The ledger on small instances. *)
EXTENDS SubscriptionLedger, TLC

\* Bills and calls are interchangeable: no action and no property names one.
Symmetry == Permutations(Bills) \cup Permutations(Calls)
=============================================================================
