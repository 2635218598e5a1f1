---------------------------- MODULE MCAuditChain ----------------------------
(* Instances of AuditChain for TLC. *)
EXTENDS AuditChain, TLC

Symmetry == Permutations(Writers) \cup Permutations(Bodies)
=============================================================================
