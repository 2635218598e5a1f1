---------------------------- MODULE MCLoginFlow ----------------------------
(* LoginFlow with requests that are alike.                                 *)
EXTENDS LoginFlow, TLC

Alike == Permutations(Requests) \cup Permutations(Browsers)
=============================================================================
