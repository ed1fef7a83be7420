---------------------------- MODULE MCDownloads ----------------------------
(* Instances of Downloads for TLC. *)
EXTENDS Downloads, TLC

\* Calls and tokens are interchangeable.
Symmetry == Permutations(Calls) \cup Permutations(Tokens)
=============================================================================
