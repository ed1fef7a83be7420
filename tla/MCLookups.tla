------------------------------ MODULE MCLookups ------------------------------
(* Instances of Lookups for TLC. *)
EXTENDS Lookups
=============================================================================
