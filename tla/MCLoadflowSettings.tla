------------------------- MODULE MCLoadflowSettings -------------------------
(* Instances of LoadflowSettings for TLC. *)
EXTENDS LoadflowSettings, TLC

\* Sessions and objects are interchangeable.
Symmetry == Permutations(Ids) \cup Permutations(Objects)
=============================================================================
