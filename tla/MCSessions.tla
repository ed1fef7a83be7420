----------------------------- MODULE MCSessions -----------------------------
(* Instances of Sessions for TLC. *)
EXTENDS Sessions, TLC

\* Ids, connections, slots and proxies are interchangeable.  Used by the runs
\* without liveness properties only.
Symmetry ==
    Permutations(Ids) \cup Permutations(Conns) \cup Permutations(Proxies)
    \cup Permutations(Calls)
=============================================================================
