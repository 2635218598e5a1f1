----------------------------- MODULE SessionLock -----------------------------
(***************************************************************************)
(* What the per-session lock of a session store promises: critical         *)
(* sections on one session are entered one at a time (sessions.py,         *)
(* SessionStore.lock).  Both backends are compared with it.                *)
(***************************************************************************)
CONSTANT Tasks      \* the requests that take the lock

VARIABLE inside     \* the tasks in a critical section of the session

LockInit == inside = {}

Enter(t) == inside = {} /\ inside' = {t}

\* By the end of its section, or by the death of its process.
Exit(t) == inside = {t} /\ inside' = {}

LockNext == \E t \in Tasks : Enter(t) \/ Exit(t)

LockSpec == LockInit /\ [][LockNext]_inside
=============================================================================
