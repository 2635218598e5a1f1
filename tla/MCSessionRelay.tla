--------------------------- MODULE MCSessionRelay ---------------------------
(* Model values and symmetry for the runs of SessionRelay.                 *)
EXTENDS SessionRelay, TLC

RequestSymmetry == Permutations(Requests)

EveryKind == AllKinds
RelayKinds == {"relay", "me", "logout"}
=============================================================================
