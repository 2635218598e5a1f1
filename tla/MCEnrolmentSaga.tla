--------------------------- MODULE MCEnrolmentSaga ---------------------------
(* Instances of EnrolmentSaga: two tenants; a1 and a3 redeem invitations   *)
(* of t1, a2 of t2, and the operator of a3 may have typed t2.              *)
EXTENDS EnrolmentSaga

CONSTANTS a1, a2, a3, a4, t1, t2

RightNames == [a \in Attempts |-> IF a = a2 THEN t2 ELSE t1]
OneTypo == [a \in Attempts |-> IF a \in {a2, a3} THEN t2 ELSE t1]
=============================================================================
