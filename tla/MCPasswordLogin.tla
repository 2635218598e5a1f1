-------------------------- MODULE MCPasswordLogin --------------------------
(* PasswordLogin with callers that are alike.                               *)
EXTENDS PasswordLogin, TLC

\* Callers are told apart by the table only.
Alike == Permutations(Callers)
=============================================================================
