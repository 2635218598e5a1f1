--------------------------- MODULE MCSupportGrant ---------------------------
(* Instances of SupportGrant: two tenants, one ask at each, and another at *)
(* the first that names scopes above the operator's role.                  *)
EXTENDS SupportGrant, TLC

CONSTANTS a1, a2, a3, t1, t2

TwoTenants == [a \in {a1, a2, a3} |-> IF a = a2 THEN t2 ELSE t1]
ThirdAbove == {a3}

SlotSymmetry == Permutations(Slots)
=============================================================================
