--------------------------- MODULE PasswordLogin ---------------------------
(***************************************************************************)
(* The break-glass password login of a home deployment: the throttle of    *)
(* the process (LoginThrottle) in front of the password that the start of  *)
(* the process settled on (FirstRun).  A restart forgets the throttle's    *)
(* table, and may change the password.                                     *)
(***************************************************************************)
EXTENDS LoginThrottle, FirstRun

vars == <<throttleVars, bootVars>>

Init == ThrottleInit /\ BootInit

\* What a caller may type: the password of the last banner, the operator's,
\* or neither.
Passwords == {announced, Operators, None}

\* resolve_role: an empty admin password matches nothing.
Right(password) == settings[Password] # None /\ password = settings[Password]

LogIn ==
    /\ phase = "up"
    /\ \E right \in {Right(password) : password \in Passwords} : AnyLogin(right)
    /\ UNCHANGED bootVars

TimePasses == Tick /\ phase = "up" /\ UNCHANGED bootVars

StartUp == BootStep /\ UNCHANGED throttleVars

\* The table dies with the process.
Die ==
    /\ Stop
    /\ now' = 0
    /\ fails' = [a \in Addresses |-> <<>>]
    /\ order' = <<>>
    /\ guesses' = [a \in Callers |-> <<>>]

Next == LogIn \/ TimePasses \/ StartUp \/ Die

Spec == Init /\ [][Next]_vars

-----------------------------------------------------------------------------
(* Properties.                                                             *)

TypeOK == ThrottleTypeOK /\ BootTypeOK

\* While the process runs a lock lasts for its time, or until it is displaced
\* from the full table by as many other addresses as the table holds, all of
\* which failed later (throttle.py, 60-63, 128).
LocksHold == [][phase' = "up" => LockKept]_vars
=============================================================================
