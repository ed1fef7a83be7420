---------------------------- MODULE MCWorkspace ----------------------------
(* Instances of Workspace for TLC. *)
EXTENDS Workspace, TLC

\* Networks are interchangeable, and so are the variants but the initial one.
Symmetry == Permutations(Nets) \cup Permutations(Variants \ {Initial})
=============================================================================
