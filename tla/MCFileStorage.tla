---------------------------- MODULE MCFileStorage ----------------------------
(* File storage alone on small instances. *)
EXTENDS FileStorage, TLC

\* The processes of the service are interchangeable.
Symmetry == Permutations(Processes)
=============================================================================
