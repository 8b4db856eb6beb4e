--------------------------- MODULE MCWebhookQueue ---------------------------
(* The webhook queue on small instances. *)
EXTENDS WebhookQueue, TLC

\* Events and workers are interchangeable, and so are calls when all of them
\* may be an operator's, or none.
Symmetry == Permutations(Events) \cup Permutations(Workers)
            \cup (IF Operators \in {{}, Calls} THEN Permutations(Calls) ELSE {})
=============================================================================
