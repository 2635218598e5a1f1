-------------------------- MODULE MemorySessionLock --------------------------
(***************************************************************************)
(* MemorySessionStore's lock for one session id (sessions.py): a map entry *)
(* that holds an asyncio.Lock, created on first use and dropped again when *)
(* the session is deleted or pruned while the lock is not locked.          *)
(*                                                                         *)
(* An asyncio.Lock that is released is unlocked until the waiter it woke   *)
(* runs; other callbacks of the event loop may run in between.             *)
(***************************************************************************)
EXTENDS Naturals, Sequences, SequencesExt

CONSTANTS
    Tasks,       \* the requests that take the lock
    NoLock,      \* the map has no entry
    MaxLocks,    \* bound: asyncio.Lock objects made for the session
    MayDelete    \* whether the session is ever deleted

ASSUME MaxLocksAssumption == MaxLocks \in Nat \ {0}
ASSUME MayDeleteAssumption == MayDelete \in BOOLEAN

Locks == 1 .. MaxLocks

ASSUME NoLockAssumption == NoLock \notin Locks

VARIABLES
    entry,    \* _locks[sid]
    made,     \* Lock objects created so far
    locked,   \* Lock._locked
    waiters,  \* Lock._waiters, the first of which is woken by a release
    mine,     \* the object a task waits for or holds
    taskPc,   \* where each task is
    dropped   \* an entry was dropped that still had waiters

memoryVars == <<entry, made, locked, waiters, mine, taskPc, dropped>>

MemoryInit ==
    /\ entry = NoLock
    /\ made = 0
    /\ locked = [l \in Locks |-> FALSE]
    /\ waiters = [l \in Locks |-> <<>>]
    /\ mine = [t \in Tasks |-> NoLock]
    /\ taskPc = [t \in Tasks |-> "outside"]
    /\ dropped = FALSE

\* setdefault(sid, asyncio.Lock()).
EntryLock(l) ==
    \/ entry = l /\ UNCHANGED <<entry, made>>
    \/ entry = NoLock /\ l = made + 1 /\ entry' = l /\ made' = l

\* acquire does not overtake a waiter, even one that is only about to run.
Uncontended(l) == ~locked[l] /\ waiters[l] = <<>>

\* The lookup and the uncontended half of acquire, or the start of the wait:
\* there is no suspension between them.
Lock(t, l) ==
    /\ taskPc[t] = "outside"
    /\ EntryLock(l)
    /\ mine' = [mine EXCEPT ![t] = l]
    /\ \/ /\ Uncontended(l)
          /\ locked' = [locked EXCEPT ![l] = TRUE]
          /\ taskPc' = [taskPc EXCEPT ![t] = "inside"]
          /\ UNCHANGED waiters
       \/ /\ ~Uncontended(l)
          /\ waiters' = [waiters EXCEPT ![l] = Append(@, t)]
          /\ taskPc' = [taskPc EXCEPT ![t] = "waiting"]
          /\ UNCHANGED locked
    /\ UNCHANGED dropped

\* The task at the head of the queue runs once a release has set its future.
Woken(t) ==
    /\ taskPc[t] = "waiting"
    /\ ~locked[mine[t]]
    /\ IsPrefix(<<t>>, waiters[mine[t]])

Resume(t) ==
    /\ Woken(t)
    /\ locked' = [locked EXCEPT ![mine[t]] = TRUE]
    /\ waiters' = [waiters EXCEPT ![mine[t]] = Tail(@)]
    /\ taskPc' = [taskPc EXCEPT ![t] = "inside"]
    /\ UNCHANGED <<entry, made, mine, dropped>>

Unlock(t) ==
    /\ taskPc[t] = "inside"
    /\ locked' = [locked EXCEPT ![mine[t]] = FALSE]
    /\ mine' = [mine EXCEPT ![t] = NoLock]
    /\ taskPc' = [taskPc EXCEPT ![t] = "outside"]
    /\ UNCHANGED <<entry, made, waiters, dropped>>

DroppableMutant == entry # NoLock
Droppable == entry # NoLock /\ ~locked[entry]

NewQueueMutant ==
    /\ MayDelete
    /\ Droppable
    /\ waiters' = [waiters EXCEPT ![entry] = <<>>]
    /\ UNCHANGED <<entry, made, locked, mine, taskPc, dropped>>

\* delete, and _prune for a session that has expired.
Delete ==
    /\ MayDelete
    /\ Droppable
    /\ made < MaxLocks
    /\ dropped' = (dropped \/ waiters[entry] # <<>>)
    /\ entry' = NoLock
    /\ UNCHANGED <<made, locked, waiters, mine, taskPc>>

TaskStep(t) == (\E l \in Locks : Lock(t, l)) \/ Resume(t) \/ Unlock(t)

MemoryNext == (\E t \in Tasks : TaskStep(t)) \/ Delete

MemorySpec == MemoryInit /\ [][MemoryNext]_memoryVars

\* The event loop runs every callback that is ready, and no handler holds the
\* lock for ever: what it awaits in there has a timeout.
MemoryFairSpec == MemorySpec /\ \A t \in Tasks : WF_memoryVars(Resume(t) \/ Unlock(t))

-----------------------------------------------------------------------------
\* The lock objects and the queues are well-formed: who waits is queued once,
\* on the object it waits for, and who is inside holds its object.
MemoryTypeOK ==
    /\ entry \in Locks \cup {NoLock}
    /\ made \in 0 .. MaxLocks
    /\ locked \in [Locks -> BOOLEAN]
    /\ \A l \in Locks : IsInjective(waiters[l])
    /\ \A t \in Tasks : \/ taskPc[t] = "outside" /\ mine[t] = NoLock
                        \/ taskPc[t] = "waiting" /\ Contains(waiters[mine[t]], t)
                        \/ taskPc[t] = "inside" /\ locked[mine[t]]
    /\ dropped \in BOOLEAN

Inside == {t \in Tasks : taskPc[t] = "inside"}

\* Critical sections of one session are serialised ("Async context manager
\* serialising critical sections for one session").
OneInside == \A s, t \in Inside : s = t

\* The one way to two holders: the entry was dropped between a release and
\* the run of the waiter it woke.  The queues are well-formed even then.
ExclusiveUnlessDropped == MemoryTypeOK /\ (dropped \/ OneInside)

\* Whoever waits for the lock gets it, also when its entry was dropped.
EveryWaiterEnters == \A t \in Tasks : taskPc[t] = "waiting" ~> taskPc[t] = "inside"

\* Without deletions the map entry is the abstract lock.
AbstractLock == INSTANCE SessionLock WITH inside <- Inside
MemoryImplementsSessionLock == AbstractLock!LockSpec
=============================================================================
