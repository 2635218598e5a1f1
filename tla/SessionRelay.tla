---------------------------- MODULE SessionRelay ----------------------------
(***************************************************************************)
(* One tenant session of the BFF: the record kept by the session store,    *)
(* its per-session lock, and the concurrent browser requests that load,    *)
(* refresh, rewrite and delete it (sessions.py, relay.py, the backup       *)
(* routes of routers/api.py, logout and me of routers/auth.py).            *)
(*                                                                         *)
(* Every await of the code is a step boundary: a store operation, a lock   *)
(* operation, a call to the gateway and a call to the identity provider    *)
(* are separate actions.  This is the Redis backend, with any number of    *)
(* replicas.  The store operations of the memory backend do not suspend,   *)
(* which leaves fewer interleavings.                                       *)
(*                                                                         *)
(* Tokens are numbered in the order the identity provider issues them.     *)
(***************************************************************************)
EXTENDS Naturals

CONSTANTS
    Requests,   \* the browser requests that carry this session's cookie
    Nobody,     \* no holder of the lock, no staged archive
    Earlier,    \* archives that exports before these requests have staged
    Kinds,      \* which handlers the requests run
    LockLapse,  \* when the lock key's TTL can run out, see LockLapses
    MaxIssued   \* bound: how many access tokens the provider issues

AllKinds == {"relay", "me", "export", "download", "logout"}

ASSUME RequestsAssumption == Nobody \notin Requests
\* An archive's token is random: no request stages one that was there before.
ASSUME EarlierAssumption == Earlier \cap (Requests \cup {Nobody}) = {}
ASSUME KindsAssumption == Kinds \subseteq AllKinds
ASSUME LapseAssumption == LockLapse \in {"never", "holder_dead", "anytime"}
ASSUME MaxIssuedAssumption == MaxIssued \in Nat \ {0}

VARIABLES
    store,       \* the record under the session's key
    lock,        \* the request whose token the lock key holds
    pc,          \* where each request is
    kind,        \* the handler each request runs
    cached,      \* request.state._bff_session
    current,     \* what refresh_oidc_access_token read under the lock
    renewed,     \* the refresh returned an access token
    claim,       \* the prepared archive a download took
    idpRefresh,  \* the refresh token the provider honours
    issued,      \* the newest access token
    validFrom,   \* access tokens below this one have expired
    exchanged,   \* refresh tokens the BFF has received a successor for
    ended        \* the session was deleted by logout or me

requestVars == <<pc, kind, cached, current, renewed, claim>>
idpVars == <<idpRefresh, issued, validFrom, exchanged>>
vars == <<store, lock, requestVars, idpVars, ended>>

NoToken == 0
Token == 0 .. MaxIssued

\* An archive is named after the request that staged it.
Archive == Requests \cup Earlier \cup {Nobody}

Session == [live: BOOLEAN, access: Token, refresh: Token, pending: Archive]

NoSession == [live |-> FALSE, access |-> NoToken, refresh |-> NoToken,
              pending |-> Nobody]

\* The callback of the login established the session with the first tokens;
\* an export may have staged an archive since.
Established == [live: {TRUE}, access: {1}, refresh: {1}, pending: Earlier \cup {Nobody}]

InRefresh == {"refreshRead", "refreshing", "refreshStore",
              "refreshRelease", "refreshDelete"}
InPersist == {"persistSet", "persistRelease", "persistDelete"}
Locations == {"idle", "calling", "refreshWait", "retrying", "persistWait",
              "checkPending", "ending", "done", "crashed"}
             \cup InRefresh \cup InPersist

Init ==
    /\ store \in Established
    /\ lock = Nobody
    /\ pc = [r \in Requests |-> "idle"]
    /\ kind \in [Requests -> Kinds]
    /\ cached = [r \in Requests |-> NoSession]
    /\ current = [r \in Requests |-> NoSession]
    /\ renewed = [r \in Requests |-> FALSE]
    /\ claim = [r \in Requests |-> Nobody]
    /\ idpRefresh = 1
    /\ issued = 1
    /\ validFrom = 1
    /\ exchanged = {}
    /\ ended = FALSE

Goto(r, location) == pc' = [pc EXCEPT ![r] = location]

-----------------------------------------------------------------------------
(* The start of a request: the dependencies load the session once.         *)

\* sessions.load: one GET, remembered for the rest of the request.  Without
\* a session the route's dependency answers 401 (logout has none and goes on).
Load(r) ==
    /\ pc[r] = "idle"
    /\ cached' = [cached EXCEPT ![r] = store]
    /\ Goto(r, CASE kind[r] = "logout" -> "ending"
                 [] kind[r] # "logout" /\ ~store.live -> "done"
                 [] kind[r] = "download" /\ store.live -> "checkPending"
                 [] OTHER -> "calling")
    /\ UNCHANGED <<store, lock, kind, current, renewed, claim, idpVars, ended>>

-----------------------------------------------------------------------------
(* The relay: relay_get and relay_request.                                 *)

Accepted(access) == access >= validFrom

\* What the handler does with the answer of a gateway that took the token.
\* An export stages the archive in the session the request has cached.
AnswerOf(r) ==
    /\ Accepted(cached[r].access)
    /\ \/ /\ kind[r] # "export"
          /\ Goto(r, "done")
          /\ UNCHANGED cached
       \/ /\ kind[r] = "export"
          /\ cached' = [cached EXCEPT ![r].pending = r]
          /\ Goto(r, "persistWait")

\* The gateway is unreachable or answers with some other error, which every
\* handler passes on (me answers without scopes).
OtherAnswer(r) ==
    /\ Goto(r, "done")
    /\ UNCHANGED cached

\* What the handler does with a 401 the relay could not repair: me ends the
\* session, every other route passes the 401 on.
RefusalOf(r) == Goto(r, IF kind[r] = "me" THEN "ending" ELSE "done")

Called(r) ==
    /\ pc[r] = "calling"
    /\ \/ AnswerOf(r)
       \/ OtherAnswer(r)
       \/ /\ ~Accepted(cached[r].access)
          /\ Goto(r, "refreshWait")
          /\ UNCHANGED cached
    /\ UNCHANGED <<store, lock, kind, current, renewed, claim, idpVars, ended>>

Retried(r) ==
    /\ pc[r] = "retrying"
    /\ \/ AnswerOf(r)
       \/ OtherAnswer(r)
       \/ /\ ~Accepted(cached[r].access)
          /\ RefusalOf(r)
          /\ UNCHANGED cached
    /\ UNCHANGED <<store, lock, kind, current, renewed, claim, idpVars, ended>>

-----------------------------------------------------------------------------
(* The per-session lock.                                                   *)

LockFreeMutant == TRUE
LockFree == lock = Nobody

\* SET key token NX; the loop of the code retries until it succeeds.
Acquire(r) ==
    /\ LockFree
    /\ \/ /\ pc[r] = "refreshWait"
          /\ Goto(r, "refreshRead")
       \/ /\ pc[r] = "persistWait"
          /\ Goto(r, "persistSet")
    /\ lock' = r
    /\ UNCHANGED <<store, kind, cached, current, renewed, claim, idpVars, ended>>

AfterRefresh(r) == IF renewed[r] THEN Goto(r, "retrying") ELSE RefusalOf(r)

\* The release: GET, and only if the token is the request's own, DELETE.
CompareToken(r) ==
    /\ \/ /\ pc[r] = "refreshRelease"
          /\ IF lock = r THEN Goto(r, "refreshDelete") ELSE AfterRefresh(r)
       \/ /\ pc[r] = "persistRelease"
          /\ Goto(r, IF lock = r THEN "persistDelete" ELSE "done")
    /\ UNCHANGED <<store, lock, kind, cached, current, renewed, claim, idpVars, ended>>

Unlocked == Nobody

DeleteLock(r) ==
    /\ \/ /\ pc[r] = "refreshDelete"
          /\ AfterRefresh(r)
       \/ /\ pc[r] = "persistDelete"
          /\ Goto(r, "done")
    /\ lock' = Unlocked
    /\ UNCHANGED <<store, kind, cached, current, renewed, claim, idpVars, ended>>

-----------------------------------------------------------------------------
(* refresh_oidc_access_token, under the lock.                              *)

SessionUnderLockMutant(r) == cached[r]
SessionUnderLock(r) == store

\* Somebody refreshed while this request waited for the lock.
NeverRefreshedMutant(r) == FALSE
AlwaysRefreshedMutant(r) == TRUE
AlreadyRefreshed(r) == SessionUnderLock(r).access # cached[r].access

ReadCurrent(r) ==
    /\ pc[r] = "refreshRead"
    /\ \/ /\ ~SessionUnderLock(r).live
          /\ Goto(r, "refreshRelease")
          /\ UNCHANGED <<cached, current, renewed>>
       \/ /\ SessionUnderLock(r).live
          /\ AlreadyRefreshed(r)
          /\ cached' = [cached EXCEPT ![r] = SessionUnderLock(r)]
          /\ renewed' = [renewed EXCEPT ![r] = TRUE]
          /\ Goto(r, "refreshRelease")
          /\ UNCHANGED current
       \/ /\ SessionUnderLock(r).live
          /\ ~AlreadyRefreshed(r)
          /\ current' = [current EXCEPT ![r] = SessionUnderLock(r)]
          /\ Goto(r, "refreshing")
          /\ UNCHANGED <<cached, renewed>>
    /\ UNCHANGED <<store, lock, kind, claim, idpVars, ended>>

CanIssue == issued < MaxIssued

WithTokens(session, access, refresh) ==
    [session EXCEPT !.access = access, !.refresh = refresh]

\* The token endpoint answers 200 with an access token, and with a new
\* refresh token when the provider rotates them.
Exchanged(r) ==
    /\ pc[r] = "refreshing"
    /\ current[r].refresh = idpRefresh
    /\ CanIssue
    /\ issued' = issued + 1
    /\ \/ /\ idpRefresh' = issued + 1
          /\ exchanged' = exchanged \cup {current[r].refresh}
       \/ UNCHANGED <<idpRefresh, exchanged>>
    /\ current' = [current EXCEPT ![r] = WithTokens(@, issued + 1, idpRefresh')]
    /\ Goto(r, "refreshStore")
    /\ UNCHANGED <<store, lock, kind, cached, renewed, claim, validFrom, ended>>

AccessMissingMutant(r) ==
    /\ pc[r] = "refreshing"
    /\ current[r].refresh = idpRefresh
    /\ current' = [current EXCEPT ![r].access = NoToken]
    /\ Goto(r, "refreshStore")
    /\ UNCHANGED <<store, lock, kind, cached, renewed, claim, idpVars, ended>>

\* A 200 without an access token is no refresh.
AccessMissing(r) ==
    /\ pc[r] = "refreshing"
    /\ current[r].refresh = idpRefresh
    /\ Goto(r, "refreshRelease")
    /\ UNCHANGED <<store, lock, kind, cached, current, renewed, claim, idpVars, ended>>

\* The exchange raises: the provider is unreachable or rejects the token, or
\* it exchanged the token and the answer was lost.
ExchangeRaises(r) ==
    /\ pc[r] = "refreshing"
    /\ Goto(r, "refreshRelease")
    /\ \/ UNCHANGED <<idpRefresh, issued>>
       \/ /\ current[r].refresh = idpRefresh
          /\ CanIssue
          /\ issued' = issued + 1
          /\ idpRefresh' = issued + 1
    /\ UNCHANGED <<store, lock, kind, cached, current, renewed, claim,
                   validFrom, exchanged, ended>>

StoreRefreshed(r) ==
    /\ pc[r] = "refreshStore"
    /\ store' = current[r]
    /\ cached' = [cached EXCEPT ![r] = current[r]]
    /\ renewed' = [renewed EXCEPT ![r] = TRUE]
    /\ Goto(r, "refreshRelease")
    /\ UNCHANGED <<lock, kind, current, claim, idpVars, ended>>

-----------------------------------------------------------------------------
(* _persist_session and the handlers that use it on the tenant plane.      *)

\* The whole cached dict is written, whatever the store holds by now.
PersistSet(r) ==
    /\ pc[r] = "persistSet"
    /\ store' = cached[r]
    /\ Goto(r, "persistRelease")
    /\ UNCHANGED <<lock, kind, cached, current, renewed, claim, idpVars, ended>>

\* download_backup: an unknown token is a 404; a staged archive is dropped
\* from the session, and kept by the request unless it has expired.
CheckPending(r) ==
    /\ pc[r] = "checkPending"
    /\ \/ /\ Goto(r, "done")
          /\ UNCHANGED <<cached, claim>>
       \/ /\ cached[r].pending # Nobody
          /\ cached' = [cached EXCEPT ![r].pending = Nobody]
          /\ \/ claim' = [claim EXCEPT ![r] = cached[r].pending]
             \/ UNCHANGED claim
          /\ Goto(r, "persistWait")
    /\ UNCHANGED <<store, lock, kind, current, renewed, idpVars, ended>>

\* sessions.destroy takes no lock.
Destroy(r) ==
    /\ pc[r] = "ending"
    /\ store' = NoSession
    /\ cached' = [cached EXCEPT ![r] = NoSession]
    /\ ended' = TRUE
    /\ Goto(r, "done")
    /\ UNCHANGED <<lock, kind, current, renewed, claim, idpVars>>

-----------------------------------------------------------------------------
(* Time and failures.                                                      *)

AccessExpires ==
    /\ validFrom <= issued
    /\ validFrom' = validFrom + 1
    /\ UNCHANGED <<store, lock, requestVars, idpRefresh, issued, exchanged, ended>>

\* The session's own TTL.
SessionExpires ==
    /\ store.live
    /\ store' = NoSession
    /\ UNCHANGED <<lock, requestVars, idpVars, ended>>

\* A replica dies with a request; only the shared backend survives that.
Crash(r) ==
    /\ LockLapse # "never"
    /\ pc[r] \notin {"idle", "done", "crashed"}
    /\ Goto(r, "crashed")
    /\ UNCHANGED <<store, lock, kind, cached, current, renewed, claim, idpVars, ended>>

NoTtlMutant == FALSE /\ UNCHANGED vars

\* LOCK_TTL runs out.  "holder_dead" assumes that no holder is slower than
\* the TTL; "anytime" does not.  The memory backend's lock never lapses.
LockLapses ==
    /\ \/ LockLapse = "anytime"
       \/ LockLapse = "holder_dead" /\ \E r \in Requests : lock = r /\ pc[r] = "crashed"
    /\ lock # Nobody
    /\ lock' = Nobody
    /\ UNCHANGED <<store, requestVars, idpVars, ended>>

-----------------------------------------------------------------------------
Step(r) ==
    \/ Load(r) \/ Called(r) \/ Retried(r)
    \/ Acquire(r) \/ CompareToken(r) \/ DeleteLock(r)
    \/ ReadCurrent(r) \/ Exchanged(r) \/ AccessMissing(r) \/ ExchangeRaises(r)
    \/ StoreRefreshed(r)
    \/ PersistSet(r) \/ CheckPending(r) \/ Destroy(r)

Next ==
    \/ \E r \in Requests : Step(r) \/ Crash(r)
    \/ AccessExpires \/ SessionExpires \/ LockLapses

Spec == Init /\ [][Next]_vars
FairSpec == Spec /\ (\A r \in Requests : WF_vars(Step(r))) /\ WF_vars(LockLapses)
-----------------------------------------------------------------------------
(* Properties.                                                             *)

\* The variables have their types, and a stored session always carries an
\* access token the provider has issued: a failed refresh never replaces it.
TypeOK ==
    /\ store \in Session
    /\ store.live => store.access \in 1 .. issued /\ store.refresh \in 1 .. issued
    /\ lock \in Requests \cup {Nobody}
    /\ pc \in [Requests -> Locations]
    /\ kind \in [Requests -> Kinds]
    /\ cached \in [Requests -> Session]
    /\ current \in [Requests -> Session]
    /\ renewed \in [Requests -> BOOLEAN]
    /\ claim \in [Requests -> Archive]
    /\ idpRefresh \in 1 .. issued
    /\ issued \in 1 .. MaxIssued
    /\ validFrom \in 1 .. issued + 1
    /\ exchanged \in SUBSET (1 .. issued)
    /\ ended \in BOOLEAN

Critical(r) == pc[r] \in InRefresh \cup InPersist

\* Two requests are never both between taking the session's lock and giving
\* it back ("Async context manager serialising critical sections").
MutualExclusion ==
    \A r, s \in Requests : Critical(r) /\ Critical(s) => r = s

\* The lock, crashes and all, is the abstract session lock: a request enters
\* only when nobody is inside, and a lapsed key never lets a second one in.
InSection == {r \in Requests : Critical(r)}
SectionLock == INSTANCE SessionLock WITH Tasks <- Requests, inside <- InSection
ImplementsSessionLock == SectionLock!LockSpec

\* A refresh token whose successor the BFF has received is never presented
\* to the provider again: it is rotated out, and a provider may revoke the
\* whole family on its reuse ("safe with refresh-token rotation").
NoSpentTokenPresented ==
    \A r \in Requests : pc[r] = "refreshing" => current[r].refresh \notin exchanged

\* Only an access token that has expired is refreshed, so requests that run
\* into the same expiry refresh once between them: whoever comes later finds
\* the stored token changed ("racing an expiry refresh exactly once").
RefreshOncePerExpiry ==
    \A r \in Requests : pc[r] = "refreshing" => ~Accepted(current[r].access)

\* Between refreshes the session never keeps a refresh token the BFF has
\* already exchanged for another.
StoredTokenUnspent ==
    (\A r \in Requests : pc[r] # "refreshStore") /\ store.live
        => store.refresh \notin exchanged

\* A request that was refused retries with a newer token, never with the one
\* refused or an older one, whether it refreshed or reused another's refresh.
RetryUsesNewerToken ==
    [][\A r \in Requests :
          renewed'[r] /\ ~renewed[r] => cached'[r].access > cached[r].access]_vars

\* No write takes a stored session back to an older token set: there is no
\* lost update of a refresh.
StoreNeverRegresses ==
    [][store.live /\ store'.live => store'.access >= store.access]_vars

Served(r) == kind[r] = "download" /\ pc[r] = "done" /\ claim[r] # Nobody

\* An archive that was served is not in the session any more, so a download
\* that starts later finds nothing ("a retried or replayed request finds
\* nothing even if the response never reaches the browser").
ServedArchiveIsGone ==
    \A r \in Requests : Served(r) => store.pending # claim[r]

\* Every request that starts is answered, unless its replica dies: nobody
\* waits for the lock for ever ("A crashed/hung holder can't wedge everyone
\* else: the lock key expires").
EveryRequestEnds ==
    \A r \in Requests : []<>(pc[r] \in {"done", "crashed"})

-----------------------------------------------------------------------------
(* What the texts promise and the code does not keep in general (README).  *)

\* A session that was ended by logout, or by me after a refused token, stays
\* ended ("End the session: delete the stored state").
EndedStaysEnded == ended => ~store.live

\* A prepared archive is served to one request at most ("Single use: claimed
\* before it is served").
ServedOnce ==
    \A r, s \in Requests :
        Served(r) /\ Served(s) /\ claim[r] = claim[s] => r = s
=============================================================================
