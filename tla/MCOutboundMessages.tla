------------------------- MODULE MCOutboundMessages -------------------------
(* Outbound messages on small instances. *)
EXTENDS OutboundMessages, TLC

\* Handlers are interchangeable.
Symmetry == Permutations(Handlers)
=============================================================================
