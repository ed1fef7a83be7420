------------------------ MODULE MCThreadSafeTTLCache ------------------------
(* Instances of ThreadSafeTTLCache for TLC. *)
EXTENDS ThreadSafeTTLCache, TLC

Symmetry == Permutations(Names) \cup Permutations(Values)
=============================================================================
