--------------------------- MODULE MCProjectFlow ---------------------------
(* Small instances of ProjectFlow. *)
EXTENDS ProjectFlow, TLC

\* Callers are interchangeable threads.
CallerSymmetry == Permutations(Callers)

=============================================================================
