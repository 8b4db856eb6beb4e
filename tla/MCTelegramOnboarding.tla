------------------------ MODULE MCTelegramOnboarding ------------------------
(* Telegram channels on small instances: bots b1 and b2 of one person. *)
EXTENDS TelegramOnboarding, TLC

CONSTANTS a1

MCCreator == [b \in Bots |-> a1]

\* Workspaces are interchangeable, and so are handlers.
Symmetry == Permutations(Workspaces) \cup Permutations(Calls)
=============================================================================
