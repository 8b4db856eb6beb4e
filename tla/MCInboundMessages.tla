-------------------------- MODULE MCInboundMessages --------------------------
(* Inbound messages on a small instance: e1 brings m1, e2 its edit, e3 brings m2. *)
EXTENDS InboundMessages, TLC

CONSTANTS c1, m1, m2, e1, e2, e3

MCOn == [m \in Messages |-> c1]
MCOf == (e1 :> m1) @@ (e2 :> m1) @@ (e3 :> m2)

\* Deliveries are interchangeable.
Symmetry == Permutations(Handlers)
=============================================================================
