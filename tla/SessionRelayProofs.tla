------------------------- MODULE SessionRelayProofs -------------------------
(***************************************************************************)
(* Proofs about SessionRelay, for any set of requests and any number of    *)
(* tokens, and about MemorySessionLock, the other session lock, for any    *)
(* tasks.                                                                  *)
(***************************************************************************)
EXTENDS SessionRelay, MemorySessionLock, TLAPS

USE RequestsAssumption, KindsAssumption, LapseAssumption, MaxIssuedAssumption

\* The tokens of a live session come from the provider.
Genuine(s) == s.live => s.access \in 1 .. issued /\ s.refresh \in 1 .. issued

TypeInv ==
    /\ TypeOK
    /\ \A r \in Requests : Genuine(cached[r]) /\ Genuine(current[r])

\* A session without an archive, or with one of a request, is well-formed.
LEMMA Archives == Nobody \in Archive /\ \A r \in Requests : r \in Archive
  BY DEF Archive

LEMMA InitTypeInv == Init => TypeInv
<1> SUFFICES ASSUME Init PROVE TypeInv
  OBVIOUS
<1> USE DEF Init
<1>1. Established \subseteq Session /\ NoSession \in Session /\ ~NoSession.live
  <2>1. 0 \in Token /\ 1 \in Token
    BY MaxIssuedAssumption DEF Token
  <2>2. \A p \in Earlier \cup {Nobody} : p \in Archive
    BY DEF Archive
  <2> QED
    BY <2>1, <2>2 DEF Established, NoSession, Session, NoToken
<1>2. \A s \in Established : s.access = 1 /\ s.refresh = 1
  BY DEF Established
<1>3. "idle" \in Locations
  BY DEF Locations
<1>4. TypeOK
  <2>1. store \in Session /\ store.access \in 1 .. issued /\ store.refresh \in 1 .. issued
    BY <1>1, <1>2, MaxIssuedAssumption
  <2>2. pc \in [Requests -> Locations]
    BY <1>3
  <2>3. cached \in [Requests -> Session] /\ current \in [Requests -> Session]
    BY <1>1
  <2>4. idpRefresh \in 1 .. issued /\ issued \in 1 .. MaxIssued /\ validFrom \in 1 .. issued + 1
    OBVIOUS
  <2>5. renewed \in [Requests -> BOOLEAN] /\ claim \in [Requests -> Archive]
    BY Archives
  <2> QED
    BY <2>1, <2>2, <2>3, <2>4, <2>5 DEF TypeOK
<1>5. \A r \in Requests : Genuine(cached[r]) /\ Genuine(current[r])
  BY <1>1 DEF Genuine
<1> QED
  BY <1>4, <1>5 DEF TypeInv

\* Replacing the tokens of a session leaves a session with those tokens.
LEMMA NewTokens ==
  ASSUME NEW s \in Session, NEW a \in Token, NEW t \in Token
  PROVE  /\ WithTokens(s, a, t) \in Session
         /\ WithTokens(s, a, t).access = a
         /\ WithTokens(s, a, t).refresh = t
         /\ WithTokens(s, a, t).live = s.live
  BY DEF Session, WithTokens

LEMMA StepTypeInv == TypeInv /\ [Next]_vars => TypeInv'
<1> SUFFICES ASSUME TypeInv, [Next]_vars PROVE TypeInv'
  OBVIOUS
<1> USE DEF TypeInv, TypeOK, Genuine, Session, Token, Locations, InRefresh,
            InPersist, Goto, idpVars, requestVars
<1>1. ASSUME NEW r \in Requests, Load(r) PROVE TypeInv'
  BY <1>1 DEF Load
<1>2. ASSUME NEW r \in Requests, Called(r) PROVE TypeInv'
  <2>1. \E l \in Locations : pc' = [pc EXCEPT ![r] = l]
    BY <1>2 DEF Called, AnswerOf, OtherAnswer
  <2>2. cached' = cached \/ cached' = [cached EXCEPT ![r].pending = r]
    BY <1>2 DEF Called, AnswerOf, OtherAnswer
  <2>3. cached' \in [Requests -> Session]
    BY <2>2, Archives
  <2>4. \A q \in Requests : /\ cached'[q].live = cached[q].live
                            /\ cached'[q].access = cached[q].access
                            /\ cached'[q].refresh = cached[q].refresh
    BY <2>2
  <2>5. UNCHANGED <<store, lock, kind, current, renewed, claim, idpVars, ended>>
    BY <1>2 DEF Called
  <2>6. pc' \in [Requests -> Locations]
    <3> HIDE DEF Locations
    <3> QED
      BY <2>1
  <2>7. TypeOK'
    BY <2>3, <2>5, <2>6
  <2>8. \A q \in Requests : Genuine(cached[q])' /\ Genuine(current[q])'
    BY <2>4, <2>5
  <2> QED
    BY <2>7, <2>8
<1>3. ASSUME NEW r \in Requests, Retried(r) PROVE TypeInv'
  <2>1. \E l \in Locations : pc' = [pc EXCEPT ![r] = l]
    BY <1>3 DEF Retried, AnswerOf, OtherAnswer, RefusalOf
  <2>2. cached' = cached \/ cached' = [cached EXCEPT ![r].pending = r]
    BY <1>3 DEF Retried, AnswerOf, OtherAnswer, RefusalOf
  <2>3. cached' \in [Requests -> Session]
    BY <2>2, Archives
  <2>4. \A q \in Requests : /\ cached'[q].live = cached[q].live
                            /\ cached'[q].access = cached[q].access
                            /\ cached'[q].refresh = cached[q].refresh
    BY <2>2
  <2>5. UNCHANGED <<store, lock, kind, current, renewed, claim, idpVars, ended>>
    BY <1>3 DEF Retried
  <2>6. pc' \in [Requests -> Locations]
    <3> HIDE DEF Locations
    <3> QED
      BY <2>1
  <2>7. TypeOK'
    BY <2>3, <2>5, <2>6
  <2>8. \A q \in Requests : Genuine(cached[q])' /\ Genuine(current[q])'
    BY <2>4, <2>5
  <2> QED
    BY <2>7, <2>8
<1>4. ASSUME NEW r \in Requests, Acquire(r) PROVE TypeInv'
  BY <1>4 DEF Acquire
<1>5. ASSUME NEW r \in Requests, CompareToken(r) PROVE TypeInv'
  <2>1. \E l \in Locations : pc' = [pc EXCEPT ![r] = l]
    BY <1>5 DEF CompareToken, AfterRefresh, RefusalOf
  <2> QED
    BY <1>5, <2>1 DEF CompareToken
<1>6. ASSUME NEW r \in Requests, DeleteLock(r) PROVE TypeInv'
  <2>1. \E l \in Locations : pc' = [pc EXCEPT ![r] = l]
    BY <1>6 DEF DeleteLock, AfterRefresh, RefusalOf
  <2> QED
    BY <1>6, <2>1 DEF DeleteLock, Unlocked
<1>7. ASSUME NEW r \in Requests, ReadCurrent(r) PROVE TypeInv'
  <2>1. CASE ~store.live
    BY <1>7, <2>1 DEF ReadCurrent, SessionUnderLock
  <2>2. CASE store.live /\ AlreadyRefreshed(r)
    <3>1. /\ cached' = [cached EXCEPT ![r] = store]
          /\ renewed' = [renewed EXCEPT ![r] = TRUE]
          /\ pc' = [pc EXCEPT ![r] = "refreshRelease"]
          /\ UNCHANGED current
      BY <1>7, <2>2 DEF ReadCurrent, SessionUnderLock
    <3> QED
      BY <1>7, <3>1 DEF ReadCurrent
  <2>3. CASE store.live /\ ~AlreadyRefreshed(r)
    <3>1. /\ current' = [current EXCEPT ![r] = store]
          /\ pc' = [pc EXCEPT ![r] = "refreshing"]
          /\ UNCHANGED <<cached, renewed>>
      BY <1>7, <2>3 DEF ReadCurrent, SessionUnderLock
    <3> QED
      BY <1>7, <3>1 DEF ReadCurrent
  <2> QED
    BY <2>1, <2>2, <2>3
<1>8. ASSUME NEW r \in Requests, Exchanged(r) PROVE TypeInv'
  <2>1. issued' = issued + 1 /\ issued' \in 1 .. MaxIssued
    BY <1>8 DEF Exchanged, CanIssue
  <2>2. idpRefresh' \in 1 .. issued' /\ exchanged' \in SUBSET (1 .. issued')
    <3>1. /\ current[r].refresh \in 1 .. issued
          /\ idpRefresh \in 1 .. issued
          /\ exchanged \in SUBSET (1 .. issued)
      BY <1>8 DEF Exchanged
    <3>2. issued + 1 \in 1 .. issued' /\ 1 .. issued \subseteq 1 .. issued'
      BY <2>1
    <3>3. CASE UNCHANGED <<idpRefresh, exchanged>>
      BY <3>1, <3>2, <3>3
    <3>4. CASE /\ idpRefresh' = issued + 1
               /\ exchanged' = exchanged \cup {current[r].refresh}
      <4> HIDE DEF TypeInv, TypeOK, Session, Token, Genuine, Locations
      <4> QED
        BY <3>1, <3>2, <3>4
    <3> QED
      BY <1>8, <3>3, <3>4 DEF Exchanged
  <2> DEFINE new == WithTokens(current[r], issued', idpRefresh')
  <2>3. new \in Session /\ new.access \in 1 .. issued' /\ new.refresh \in 1 .. issued'
    <3>1. current[r] \in Session
      OBVIOUS
    <3>2. issued' \in Token /\ idpRefresh' \in Token
      BY <2>1, <2>2
    <3>3. /\ new \in Session
          /\ new.access = issued'
          /\ new.refresh = idpRefresh'
      <4> HIDE DEF TypeInv, TypeOK, Session, Token, Genuine, Locations
      <4> QED
        BY <3>1, <3>2, NewTokens
    <3> HIDE DEF new
    <3> QED
      BY <2>1, <2>2, <3>3
  <2>4. current' = [current EXCEPT ![r] = new]
    BY <1>8, <2>1 DEF Exchanged
  <2>5. \A q \in Requests : Genuine(current[q])'
    BY <2>1, <2>3, <2>4
  <2>6. \A q \in Requests : Genuine(cached[q])'
    BY <1>8, <2>1 DEF Exchanged
  <2>7. TypeOK'
    BY <1>8, <2>1, <2>2, <2>3, <2>4 DEF Exchanged
  <2> QED
    BY <2>5, <2>6, <2>7
<1>9. ASSUME NEW r \in Requests, AccessMissing(r) PROVE TypeInv'
  BY <1>9 DEF AccessMissing
<1>10. ASSUME NEW r \in Requests, ExchangeRaises(r) PROVE TypeInv'
  BY <1>10 DEF ExchangeRaises, CanIssue
<1>11. ASSUME NEW r \in Requests, StoreRefreshed(r) PROVE TypeInv'
  BY <1>11 DEF StoreRefreshed
<1>12. ASSUME NEW r \in Requests, PersistSet(r) PROVE TypeInv'
  BY <1>12 DEF PersistSet
<1>13. ASSUME NEW r \in Requests, CheckPending(r) PROVE TypeInv'
  <2>1. CASE UNCHANGED <<cached, claim>>
    BY <1>13, <2>1 DEF CheckPending
  <2>2. CASE cached' = [cached EXCEPT ![r].pending = Nobody]
    <3>1. cached[r].pending \in Archive
      OBVIOUS
    <3>2. claim' \in [Requests -> Archive]
      BY <1>13, <3>1 DEF CheckPending
    <3>3. cached' \in [Requests -> Session]
      BY <2>2, Archives
    <3>4. \A q \in Requests : /\ cached'[q].live = cached[q].live
                              /\ cached'[q].access = cached[q].access
                              /\ cached'[q].refresh = cached[q].refresh
      BY <2>2
    <3> QED
      BY <1>13, <3>2, <3>3, <3>4 DEF CheckPending
  <2> QED
    BY <1>13, <2>1, <2>2 DEF CheckPending
<1>14. ASSUME NEW r \in Requests, Destroy(r) PROVE TypeInv'
  BY <1>14, Archives DEF Destroy, NoSession, NoToken
<1>15. ASSUME NEW r \in Requests, Crash(r) PROVE TypeInv'
  BY <1>15 DEF Crash
<1>16. CASE AccessExpires
  BY <1>16 DEF AccessExpires
<1>17. CASE SessionExpires
  BY <1>17, Archives DEF SessionExpires, NoSession, NoToken
<1>18. CASE LockLapses
  BY <1>18 DEF LockLapses
<1>19. CASE UNCHANGED vars
  BY <1>19 DEF vars
<1> QED
  BY <1>1, <1>2, <1>3, <1>4, <1>5, <1>6, <1>7, <1>8, <1>9, <1>10, <1>11,
     <1>12, <1>13, <1>14, <1>15, <1>16, <1>17, <1>18, <1>19 DEF Next, Step

LEMMA TypeInvAlways == Spec => []TypeInv
  BY InitTypeInv, StepTypeInv, PTL DEF Spec

\* The variables keep their types and a stored session never loses its
\* tokens, whatever the requests do and whenever the lock lapses.
THEOREM TypeCorrect == Spec => []TypeOK
<1>1. TypeInv => TypeOK
  BY DEF TypeInv
<1> QED
  BY <1>1, TypeInvAlways, PTL

-----------------------------------------------------------------------------
(* The lock.                                                               *)

LockOwner == \A r \in Requests : Critical(r) => lock = r

LEMMA StepLockOwner ==
  ASSUME LockLapse # "anytime", TypeInv, LockOwner, [Next]_vars
  PROVE  LockOwner'
<1> USE DEF LockOwner, Critical, InRefresh, InPersist, Goto
<1>0. pc \in [Requests -> Locations]
  BY DEF TypeInv, TypeOK
<1>1. ASSUME NEW r \in Requests, Load(r) PROVE LockOwner'
  BY <1>0, <1>1 DEF Load
<1>2. ASSUME NEW r \in Requests, Called(r) \/ Retried(r) PROVE LockOwner'
  BY <1>0, <1>2 DEF Called, Retried, AnswerOf, OtherAnswer, RefusalOf
<1>3. ASSUME NEW r \in Requests, Acquire(r) PROVE LockOwner'
  BY <1>0, <1>3, RequestsAssumption DEF Acquire, LockFree
<1>4. ASSUME NEW r \in Requests, CompareToken(r) PROVE LockOwner'
  BY <1>0, <1>4 DEF CompareToken, AfterRefresh, RefusalOf
<1>5. ASSUME NEW r \in Requests, DeleteLock(r) PROVE LockOwner'
  <2>1. Critical(r) /\ \A q \in Requests \ {r} : ~Critical(q)
    BY <1>5 DEF DeleteLock
  <2>2. \E l \in {"retrying", "ending", "done"} : pc' = [pc EXCEPT ![r] = l]
    BY <1>5 DEF DeleteLock, AfterRefresh, RefusalOf
  <2> QED
    BY <1>0, <2>1, <2>2
<1>6. ASSUME NEW r \in Requests,
             \/ ReadCurrent(r) \/ Exchanged(r) \/ AccessMissing(r)
             \/ ExchangeRaises(r) \/ StoreRefreshed(r) \/ PersistSet(r)
      PROVE  LockOwner'
  BY <1>0, <1>6 DEF ReadCurrent, Exchanged, AccessMissing, ExchangeRaises,
                    StoreRefreshed, PersistSet
<1>7. ASSUME NEW r \in Requests, CheckPending(r) \/ Destroy(r) \/ Crash(r)
      PROVE  LockOwner'
  BY <1>0, <1>7 DEF CheckPending, Destroy, Crash
<1>8. CASE AccessExpires \/ SessionExpires
  BY <1>8 DEF AccessExpires, SessionExpires, requestVars
<1>9. CASE LockLapses
  BY <1>9 DEF LockLapses, requestVars
<1>10. CASE UNCHANGED vars
  BY <1>10 DEF vars, requestVars
<1> QED
  BY <1>1, <1>2, <1>3, <1>4, <1>5, <1>6, <1>7, <1>8, <1>9, <1>10 DEF Next, Step

LEMMA LockOwnerAlways ==
  ASSUME LockLapse # "anytime"
  PROVE  Spec => [](TypeInv /\ LockOwner)
<1>1. Init => LockOwner
  BY DEF Init, LockOwner, Critical, InRefresh, InPersist
<1>2. TypeInv /\ LockOwner /\ [Next]_vars => LockOwner'
  BY StepLockOwner
<1> QED
  BY <1>1, <1>2, InitTypeInv, StepTypeInv, PTL DEF Spec

\* As long as the lock key outlives a holder that is alive, at most one
\* request is in a critical section, crashes of holders included.
THEOREM LockIsExclusive ==
  ASSUME LockLapse # "anytime"
  PROVE  Spec => []MutualExclusion
<1>1. TypeInv /\ LockOwner => MutualExclusion
  BY DEF LockOwner, MutualExclusion
<1> QED
  BY <1>1, LockOwnerAlways, PTL

\* The lock of the session store implements the abstract one: every step of a
\* request enters or leaves a section under the rules of SessionLock.
THEOREM LockImplements ==
  ASSUME LockLapse # "anytime"
  PROVE  Spec => ImplementsSessionLock
<1> DEFINE InLock == InRefresh \cup InPersist
<1>1. Init => InSection = {}
  BY DEF Init, InSection, Critical, InRefresh, InPersist
<1>2. ASSUME TypeInv, LockOwner, Next
      PROVE  SectionLock!LockNext \/ InSection' = InSection
  <2>0. pc \in [Requests -> Locations]
    BY <1>2 DEF TypeInv, TypeOK
  <2>1. ASSUME NEW r \in Requests, NEW l \in Locations,
               pc' = [pc EXCEPT ![r] = l], l \in InLock <=> Critical(r)
        PROVE  InSection' = InSection
    BY <2>0, <2>1 DEF InSection, Critical
  <2>2. ASSUME NEW r \in Requests, NEW l \in Locations,
               pc' = [pc EXCEPT ![r] = l], l \notin InLock, Critical(r)
        PROVE  SectionLock!LockNext
    <3>1. InSection = {r}
      BY <1>2, <2>2 DEF InSection, LockOwner
    <3>2. InSection' = {}
      BY <2>0, <2>2, <3>1 DEF InSection, Critical
    <3> QED
      BY <3>1, <3>2 DEF SectionLock!LockNext, SectionLock!Exit
  <2>3. ASSUME NEW r \in Requests, Acquire(r) PROVE SectionLock!LockNext
    <3>1. InSection = {}
      BY <1>2, <2>3, RequestsAssumption DEF InSection, Acquire, LockFree, LockOwner
    <3>2. \E l \in InLock : pc' = [pc EXCEPT ![r] = l]
      BY <2>3 DEF Acquire, Goto, InRefresh, InPersist
    <3>3. InSection' = {r}
      BY <2>0, <3>1, <3>2 DEF InSection, Critical
    <3> QED
      BY <3>1, <3>3 DEF SectionLock!LockNext, SectionLock!Enter
  <2>4. ASSUME NEW r \in Requests, NEW l \in Locations,
               pc' = [pc EXCEPT ![r] = l], l \in InLock => Critical(r)
        PROVE  SectionLock!LockNext \/ InSection' = InSection
    BY <2>1, <2>2, <2>4
  <2>5. ASSUME NEW r \in Requests, Load(r) \/ Called(r) \/ Retried(r)
        PROVE  InSection' = InSection
    <3>1. ~Critical(r)
      BY <2>5 DEF Load, Called, Retried, Critical, InRefresh, InPersist
    <3>2. \E l \in Locations \ InLock : pc' = [pc EXCEPT ![r] = l]
      BY <2>5 DEF Load, Called, Retried, AnswerOf, OtherAnswer, RefusalOf, Goto,
                  Locations, InRefresh, InPersist
    <3> QED
      BY <2>1, <3>1, <3>2
  <2>6. ASSUME NEW r \in Requests, CompareToken(r) \/ DeleteLock(r)
        PROVE  SectionLock!LockNext \/ InSection' = InSection
    <3>1. Critical(r)
      BY <2>6 DEF CompareToken, DeleteLock, Critical, InRefresh, InPersist
    <3>2. \E l \in Locations : pc' = [pc EXCEPT ![r] = l]
      BY <2>6 DEF CompareToken, DeleteLock, AfterRefresh, RefusalOf, Goto,
                  Locations, InRefresh, InPersist
    <3> QED
      BY <2>4, <3>1, <3>2
  <2>7. ASSUME NEW r \in Requests,
               \/ ReadCurrent(r) \/ Exchanged(r) \/ AccessMissing(r)
               \/ ExchangeRaises(r) \/ StoreRefreshed(r) \/ PersistSet(r)
        PROVE  InSection' = InSection
    <3>1. Critical(r)
      BY <2>7 DEF ReadCurrent, Exchanged, AccessMissing, ExchangeRaises,
                  StoreRefreshed, PersistSet, Critical, InRefresh, InPersist
    <3>2. \E l \in {"refreshRelease", "refreshing", "refreshStore", "persistRelease"} :
             pc' = [pc EXCEPT ![r] = l]
      BY <2>7 DEF ReadCurrent, Exchanged, AccessMissing, ExchangeRaises,
                  StoreRefreshed, PersistSet, Goto
    <3>3. {"refreshRelease", "refreshing", "refreshStore", "persistRelease"}
             \subseteq Locations \cap InLock
      BY DEF Locations, InRefresh, InPersist
    <3> QED
      BY <2>1, <3>1, <3>2, <3>3
  <2>8. ASSUME NEW r \in Requests, CheckPending(r) \/ Destroy(r) \/ Crash(r)
        PROVE  SectionLock!LockNext \/ InSection' = InSection
    <3>1. \E l \in {"done", "persistWait", "crashed"} : pc' = [pc EXCEPT ![r] = l]
      BY <2>8 DEF CheckPending, Destroy, Crash, Goto
    <3>2. {"done", "persistWait", "crashed"} \subseteq Locations \ InLock
      BY DEF Locations, InRefresh, InPersist
    <3> QED
      BY <2>4, <3>1, <3>2
  <2>9. ASSUME AccessExpires \/ SessionExpires \/ LockLapses PROVE InSection' = InSection
    BY <2>9 DEF AccessExpires, SessionExpires, LockLapses, requestVars, InSection, Critical
  <2> QED
    BY <1>2, <2>3, <2>5, <2>6, <2>7, <2>8, <2>9 DEF Next, Step
<1>3. UNCHANGED vars => InSection' = InSection
  BY DEF vars, requestVars, InSection, Critical
<1>4. Init => SectionLock!LockInit
  BY <1>1 DEF SectionLock!LockInit
<1>5. TypeInv /\ LockOwner /\ [Next]_vars => [SectionLock!LockNext]_InSection
  BY <1>2, <1>3
<1> QED
  BY <1>4, <1>5, LockOwnerAlways, PTL
     DEF Spec, ImplementsSessionLock, SectionLock!LockSpec

-----------------------------------------------------------------------------
(* The refresh, when nothing but a refresh writes the session back: no     *)
(* export and no download, and a lock that never lapses.                   *)

RelayOnly == LockLapse = "never" /\ Kinds \cap {"export", "download"} = {}

\* Without exports and downloads nobody reaches _persist_session.
NoPersist ==
    \A r \in Requests :
        /\ kind[r] \notin {"export", "download"}
        /\ pc[r] \notin InPersist \cup {"persistWait", "checkPending", "crashed"}

\* What a request caches is never newer than the store, and a session that
\* is gone has no token that could be newer.
CachesAreOlder ==
    /\ store.access <= issued
    /\ ~store.live => store.access = NoToken
    /\ \A q \in Requests :
        /\ cached[q].access <= issued
        /\ store.live => cached[q].access <= store.access

\* Who wants a refresh was refused.
RefusedIsExpired ==
    \A r \in Requests :
        pc[r] \in {"refreshWait", "refreshRead", "refreshing"}
            => ~Accepted(cached[r].access)

\* What the holder of the lock read is still what is stored, if anything is.
ReadIsCurrent ==
    \A r \in Requests : pc[r] = "refreshing" =>
        /\ current[r].live
        /\ current[r].refresh \notin exchanged
        /\ current[r].access = cached[r].access
        /\ store.access <= current[r].access
        /\ \A q \in Requests : cached[q].access <= current[r].access

\* What it is about to store is newer than anything else, and unspent.
WrittenIsNewer ==
    \A r \in Requests : pc[r] = "refreshStore" =>
        /\ current[r].live
        /\ current[r].refresh \notin exchanged
        /\ current[r].access <= issued
        /\ store.access < current[r].access
        /\ \A q \in Requests : cached[q].access < current[r].access

RefreshInv ==
    /\ NoPersist
    /\ CachesAreOlder
    /\ RefusedIsExpired
    /\ StoredTokenUnspent
    /\ ReadIsCurrent
    /\ WrittenIsNewer

LEMMA InitRefreshInv == RelayOnly /\ Init => RefreshInv
<1> SUFFICES ASSUME RelayOnly, Init PROVE RefreshInv
  OBVIOUS
<1> USE DEF Init
<1>1. NoPersist
  BY DEF RelayOnly, NoPersist, InPersist
<1>2. CachesAreOlder
  <2>1. store.live /\ store.access = 1
    BY DEF Established
  <2> QED
    BY <2>1 DEF CachesAreOlder, NoSession, NoToken
<1>3. RefusedIsExpired /\ StoredTokenUnspent /\ ReadIsCurrent /\ WrittenIsNewer
  BY DEF RefusedIsExpired, StoredTokenUnspent, ReadIsCurrent, WrittenIsNewer
<1> QED
  BY <1>1, <1>2, <1>3 DEF RefreshInv

\* The numbers the invariant compares.
LEMMA TokenTypes ==
  ASSUME TypeInv
  PROVE  /\ issued \in Nat /\ validFrom \in Nat /\ store.access \in Nat
         /\ \A q \in Requests : cached[q].access \in Nat /\ current[q].access \in Nat
         /\ exchanged \subseteq 1 .. issued
         /\ pc \in [Requests -> Locations]
         /\ cached \in [Requests -> Session] /\ current \in [Requests -> Session]
         /\ store \in Session
  BY DEF TypeInv, TypeOK, Session, Token

\* A request that neither holds a read session nor is asking for a refresh
\* moves without touching the sessions and the tokens.
LEMMA QuietStep ==
  ASSUME TypeInv, RefreshInv, NEW r \in Requests, NEW l \in Locations,
         l \notin {"refreshWait", "refreshRead", "refreshing", "refreshStore",
                   "persistWait", "checkPending", "crashed"} \cup InPersist,
         pc[r] # "refreshStore",
         pc' = [pc EXCEPT ![r] = l],
         UNCHANGED <<store, kind, cached, current, validFrom, exchanged>>,
         issued' \in Nat, issued' >= issued
  PROVE  RefreshInv'
<1> USE TokenTypes DEF RefreshInv
<1>1. NoPersist'
  BY DEF NoPersist
<1>2. CachesAreOlder'
  BY DEF CachesAreOlder
<1>3. RefusedIsExpired'
  BY DEF RefusedIsExpired, Accepted
<1>4. StoredTokenUnspent'
  BY DEF StoredTokenUnspent
<1>5. ReadIsCurrent'
  BY DEF ReadIsCurrent
<1>6. WrittenIsNewer'
  BY DEF WrittenIsNewer
<1> QED
  BY <1>1, <1>2, <1>3, <1>4, <1>5, <1>6

LEMMA StepRefreshInv ==
  ASSUME RelayOnly, TypeInv, LockOwner, RefreshInv, [Next]_vars
  PROVE  RefreshInv'
<1> USE TokenTypes DEF RefreshInv, Goto
<1>t. TypeInv'
  BY StepTypeInv
<1>l. /\ {"refreshDelete", "refreshRelease", "retrying", "calling", "ending", "done"}
             \subseteq Locations
      /\ \A l \in {"refreshDelete", "refreshRelease", "retrying", "calling", "ending", "done"} :
            l \notin {"refreshWait", "refreshRead", "refreshing", "refreshStore",
                      "persistWait", "checkPending", "crashed"} \cup InPersist
  BY DEF Locations, InRefresh, InPersist
<1>1. ASSUME NEW r \in Requests, Load(r) PROVE RefreshInv'
  <2>1. kind[r] # "download"
    BY DEF NoPersist
  <2>2. \E l \in {"calling", "ending", "done"} : pc' = [pc EXCEPT ![r] = l]
    BY <1>1, <2>1 DEF Load
  <2>3. cached' = [cached EXCEPT ![r] = store]
    BY <1>1 DEF Load
  <2>4. UNCHANGED <<store, kind, current, issued, validFrom, exchanged>>
    BY <1>1 DEF Load, idpVars
  <2>5. NoPersist'
    BY <2>2, <2>4 DEF NoPersist, InPersist
  <2>6. CachesAreOlder'
    BY <2>3, <2>4 DEF CachesAreOlder, NoToken
  <2>7. RefusedIsExpired'
    BY <2>2, <2>3, <2>4 DEF RefusedIsExpired, Accepted
  <2>8. StoredTokenUnspent'
    BY <1>1, <2>2, <2>4 DEF StoredTokenUnspent, Load
  <2>9. ReadIsCurrent'
    BY <2>2, <2>3, <2>4 DEF ReadIsCurrent
  <2>10. WrittenIsNewer'
    BY <2>2, <2>3, <2>4 DEF WrittenIsNewer
  <2> QED
    BY <2>5, <2>6, <2>7, <2>8, <2>9, <2>10
<1>2. ASSUME NEW r \in Requests, Called(r) \/ Retried(r) PROVE RefreshInv'
  <2>1. kind[r] # "export"
    BY DEF NoPersist
  <2>2. UNCHANGED <<store, kind, cached, current, issued, validFrom, exchanged>>
    BY <1>2, <2>1 DEF Called, Retried, AnswerOf, OtherAnswer, idpVars
  <2>3. CASE \E l \in {"ending", "done"} : pc' = [pc EXCEPT ![r] = l]
    <3>1. pc[r] # "refreshStore"
      BY <1>2 DEF Called, Retried
    <3>2. PICK l \in {"ending", "done"} : pc' = [pc EXCEPT ![r] = l]
      BY <2>3
    <3>3. issued' \in Nat /\ issued' >= issued
      BY <2>2
    <3> QED
      BY <1>l, <2>2, <3>1, <3>2, <3>3, QuietStep
  <2>4. CASE pc' = [pc EXCEPT ![r] = "refreshWait"] /\ ~Accepted(cached[r].access)
    <3>1. NoPersist' /\ CachesAreOlder'
      BY <2>2, <2>4 DEF NoPersist, CachesAreOlder, InPersist
    <3>2. RefusedIsExpired'
      BY <2>2, <2>4 DEF RefusedIsExpired, Accepted
    <3>3. StoredTokenUnspent'
      BY <1>2, <2>2, <2>4 DEF StoredTokenUnspent, Called, Retried
    <3>4. ReadIsCurrent' /\ WrittenIsNewer'
      BY <2>2, <2>4 DEF ReadIsCurrent, WrittenIsNewer
    <3> QED
      BY <3>1, <3>2, <3>3, <3>4
  <2> QED
    BY <1>2, <2>1, <2>3, <2>4 DEF Called, Retried, AnswerOf, OtherAnswer, RefusalOf
<1>3. ASSUME NEW r \in Requests, Acquire(r) PROVE RefreshInv'
  <2>1. pc[r] = "refreshWait" /\ pc' = [pc EXCEPT ![r] = "refreshRead"]
    BY <1>3 DEF Acquire, NoPersist
  <2>2. UNCHANGED <<store, kind, cached, current, issued, validFrom, exchanged>>
    BY <1>3 DEF Acquire, idpVars
  <2>3. NoPersist' /\ CachesAreOlder'
    BY <2>1, <2>2 DEF NoPersist, CachesAreOlder, InPersist
  <2>4. RefusedIsExpired'
    BY <2>1, <2>2 DEF RefusedIsExpired, Accepted
  <2>5. StoredTokenUnspent' /\ ReadIsCurrent' /\ WrittenIsNewer'
    BY <2>1, <2>2 DEF StoredTokenUnspent, ReadIsCurrent, WrittenIsNewer
  <2> QED
    BY <2>3, <2>4, <2>5
<1>4. ASSUME NEW r \in Requests, CompareToken(r) \/ DeleteLock(r) PROVE RefreshInv'
  <2>1. pc[r] \in {"refreshRelease", "refreshDelete"}
    BY <1>4 DEF CompareToken, DeleteLock, NoPersist, InPersist
  <2>2. \E l \in {"refreshDelete", "retrying", "ending", "done"} : pc' = [pc EXCEPT ![r] = l]
    BY <1>4, <2>1 DEF CompareToken, DeleteLock, AfterRefresh, RefusalOf
  <2>3. UNCHANGED <<store, kind, cached, current, issued, validFrom, exchanged>>
    BY <1>4 DEF CompareToken, DeleteLock, idpVars
  <2>4. PICK l \in {"refreshDelete", "retrying", "ending", "done"} : pc' = [pc EXCEPT ![r] = l]
    BY <2>2
  <2>5. issued' \in Nat /\ issued' >= issued
    BY <2>3
  <2> QED
    BY <1>l, <2>1, <2>3, <2>4, <2>5, QuietStep
<1>5. ASSUME NEW r \in Requests, AccessMissing(r) \/ ExchangeRaises(r) PROVE RefreshInv'
  <2>1. pc[r] = "refreshing" /\ pc' = [pc EXCEPT ![r] = "refreshRelease"]
    BY <1>5 DEF AccessMissing, ExchangeRaises
  <2>2. UNCHANGED <<store, kind, cached, current, validFrom, exchanged>>
    BY <1>5 DEF AccessMissing, ExchangeRaises, idpVars
  <2>3. issued' \in Nat /\ issued' >= issued
    BY <1>5 DEF AccessMissing, ExchangeRaises, idpVars
  <2> QED
    BY <1>l, <2>1, <2>2, <2>3, QuietStep
<1>6. ASSUME NEW r \in Requests, PersistSet(r) \/ CheckPending(r) \/ Crash(r)
      PROVE  FALSE
  BY <1>6 DEF PersistSet, CheckPending, Crash, NoPersist, InPersist, RelayOnly
<1>7. ASSUME NEW r \in Requests, Destroy(r) PROVE RefreshInv'
  <2>1. pc[r] = "ending" /\ pc' = [pc EXCEPT ![r] = "done"]
    BY <1>7 DEF Destroy
  <2>2. /\ store' = NoSession
        /\ cached' = [cached EXCEPT ![r] = NoSession]
        /\ UNCHANGED <<kind, current, issued, validFrom, exchanged>>
    BY <1>7 DEF Destroy, idpVars
  <2>3. NoSession.access = 0 /\ ~NoSession.live
    BY DEF NoSession, NoToken
  <2>4. NoPersist'
    BY <2>1, <2>2 DEF NoPersist, InPersist
  <2>5. CachesAreOlder'
    BY <2>2, <2>3 DEF CachesAreOlder, NoToken
  <2>6. RefusedIsExpired'
    BY <2>1, <2>2 DEF RefusedIsExpired, Accepted
  <2>7. StoredTokenUnspent'
    BY <2>2, <2>3 DEF StoredTokenUnspent
  <2>8. ReadIsCurrent'
    BY <2>1, <2>2, <2>3 DEF ReadIsCurrent
  <2>9. WrittenIsNewer'
    BY <2>1, <2>2, <2>3 DEF WrittenIsNewer
  <2> QED
    BY <2>4, <2>5, <2>6, <2>7, <2>8, <2>9
<1>8. CASE AccessExpires
  BY <1>8 DEF AccessExpires, requestVars, NoPersist, CachesAreOlder, RefusedIsExpired,
              StoredTokenUnspent, ReadIsCurrent, WrittenIsNewer, Accepted
<1>9. CASE SessionExpires
  <2>1. /\ store' = NoSession
        /\ UNCHANGED <<pc, kind, cached, current, issued, validFrom, exchanged>>
    BY <1>9 DEF SessionExpires, requestVars, idpVars
  <2>2. NoSession.access = 0 /\ ~NoSession.live
    BY DEF NoSession, NoToken
  <2>3. NoPersist' /\ CachesAreOlder' /\ RefusedIsExpired' /\ StoredTokenUnspent'
    BY <2>1, <2>2 DEF NoPersist, CachesAreOlder, NoToken, RefusedIsExpired,
                      StoredTokenUnspent, Accepted
  <2>4. ReadIsCurrent' /\ WrittenIsNewer'
    BY <2>1, <2>2 DEF ReadIsCurrent, WrittenIsNewer
  <2> QED
    BY <2>3, <2>4
<1>10. ~LockLapses
  BY DEF LockLapses, RelayOnly
<1>11. CASE UNCHANGED vars
  BY <1>11 DEF vars, requestVars, idpVars, NoPersist, CachesAreOlder, RefusedIsExpired,
               StoredTokenUnspent, ReadIsCurrent, WrittenIsNewer, Accepted
<1>12. ASSUME NEW r \in Requests, ReadCurrent(r) PROVE RefreshInv'
  <2>1. pc[r] = "refreshRead" /\ UNCHANGED <<store, kind, issued, validFrom, exchanged>>
    BY <1>12 DEF ReadCurrent, idpVars
  <2>2. \A q \in Requests : pc[q] # "refreshStore"
    BY <2>1 DEF LockOwner, Critical, InRefresh
  <2>3. CASE /\ pc' = [pc EXCEPT ![r] = "refreshRelease"]
             /\ UNCHANGED <<cached, current>>
    <3>1. issued' \in Nat /\ issued' >= issued
      BY <2>1
    <3> QED
      BY <1>l, <2>1, <2>3, <3>1, QuietStep
  <2>4. CASE /\ pc' = [pc EXCEPT ![r] = "refreshRelease"]
             /\ cached' = [cached EXCEPT ![r] = store]
             /\ UNCHANGED current
    <3>1. NoPersist' /\ CachesAreOlder'
      BY <2>1, <2>4 DEF NoPersist, InPersist, CachesAreOlder, NoToken
    <3>2. RefusedIsExpired' /\ StoredTokenUnspent'
      BY <2>1, <2>2, <2>4 DEF RefusedIsExpired, StoredTokenUnspent, Accepted
    <3>3. ReadIsCurrent' /\ WrittenIsNewer'
      BY <2>1, <2>4 DEF ReadIsCurrent, WrittenIsNewer
    <3> QED
      BY <3>1, <3>2, <3>3
  <2>5. CASE /\ store.live /\ store.access = cached[r].access
             /\ pc' = [pc EXCEPT ![r] = "refreshing"]
             /\ current' = [current EXCEPT ![r] = store]
             /\ UNCHANGED cached
    <3>1. NoPersist' /\ CachesAreOlder'
      BY <2>1, <2>5 DEF NoPersist, InPersist, CachesAreOlder, NoToken
    <3>2. RefusedIsExpired' /\ StoredTokenUnspent'
      BY <2>1, <2>2, <2>5 DEF RefusedIsExpired, StoredTokenUnspent, Accepted
    <3>3. ReadIsCurrent'
      BY <2>1, <2>2, <2>5 DEF ReadIsCurrent, StoredTokenUnspent, CachesAreOlder
    <3>4. WrittenIsNewer'
      BY <2>1, <2>5 DEF WrittenIsNewer
    <3> QED
      BY <3>1, <3>2, <3>3, <3>4
  <2> QED
    BY <1>12, <2>3, <2>4, <2>5 DEF ReadCurrent, SessionUnderLock, AlreadyRefreshed
<1>13. ASSUME NEW r \in Requests, Exchanged(r) PROVE RefreshInv'
  <2>1. /\ pc[r] = "refreshing" /\ pc' = [pc EXCEPT ![r] = "refreshStore"]
        /\ issued' = issued + 1
        /\ UNCHANGED <<store, kind, cached, validFrom>>
    BY <1>13 DEF Exchanged
  <2>2. \A q \in Requests : pc[q] \in {"refreshing", "refreshStore"} => q = r
    BY <2>1 DEF LockOwner, Critical, InRefresh
  <2>3. /\ current'[r].live = current[r].live
        /\ current'[r].access = issued + 1
        /\ current'[r].refresh = idpRefresh'
    <3>1. issued + 1 \in Token /\ idpRefresh' \in Token
      BY <1>13, <1>t DEF Exchanged, CanIssue, TypeInv, TypeOK, Token
    <3>2. current' = [current EXCEPT ![r] = WithTokens(current[r], issued + 1, idpRefresh')]
      BY <1>13 DEF Exchanged
    <3> QED
      BY <3>1, <3>2, NewTokens
  <2>4. current'[r].live
    BY <2>1, <2>3 DEF ReadIsCurrent
  <2>5. current'[r].refresh \notin exchanged'
    <3>1. current[r].refresh = idpRefresh /\ current[r].refresh \notin exchanged
      BY <1>13, <2>1 DEF Exchanged, ReadIsCurrent
    <3>2. idpRefresh \in 1 .. issued /\ issued + 1 \notin 1 .. issued
      BY DEF TypeInv, TypeOK
    <3>3. \/ idpRefresh' = issued + 1 /\ exchanged' = exchanged \cup {current[r].refresh}
          \/ UNCHANGED <<idpRefresh, exchanged>>
      BY <1>13 DEF Exchanged
    <3>4. CASE UNCHANGED <<idpRefresh, exchanged>>
      BY <2>3, <3>1, <3>4
    <3>5. CASE idpRefresh' = issued + 1 /\ exchanged' = exchanged \cup {current[r].refresh}
      <4>1. issued + 1 \notin exchanged /\ issued + 1 # current[r].refresh
        BY <3>1, <3>2
      <4> QED
        BY <2>3, <3>5, <4>1
    <3> QED
      BY <3>3, <3>4, <3>5
  <2>6. NoPersist' /\ CachesAreOlder'
    BY <2>1 DEF NoPersist, InPersist, CachesAreOlder, NoToken
  <2>7. RefusedIsExpired' /\ StoredTokenUnspent'
    BY <2>1 DEF RefusedIsExpired, StoredTokenUnspent, Accepted
  <2>8. ReadIsCurrent'
    BY <2>1, <2>2 DEF ReadIsCurrent
  <2>9. WrittenIsNewer'
    BY <2>1, <2>2, <2>3, <2>4, <2>5 DEF WrittenIsNewer, CachesAreOlder
  <2> QED
    BY <2>6, <2>7, <2>8, <2>9
<1>14. ASSUME NEW r \in Requests, StoreRefreshed(r) PROVE RefreshInv'
  <2>1. /\ pc[r] = "refreshStore" /\ pc' = [pc EXCEPT ![r] = "refreshRelease"]
        /\ store' = current[r]
        /\ cached' = [cached EXCEPT ![r] = current[r]]
        /\ UNCHANGED <<kind, current, issued, validFrom, exchanged>>
    BY <1>14 DEF StoreRefreshed, idpVars
  <2>2. \A q \in Requests : pc[q] \in {"refreshRead", "refreshing", "refreshStore"} => q = r
    BY <2>1 DEF LockOwner, Critical, InRefresh
  <2>3. NoPersist' /\ CachesAreOlder'
    BY <2>1 DEF NoPersist, InPersist, CachesAreOlder, WrittenIsNewer, NoToken
  <2>4. RefusedIsExpired'
    BY <2>1, <2>2 DEF RefusedIsExpired, Accepted
  <2>5. StoredTokenUnspent'
    BY <2>1 DEF StoredTokenUnspent, WrittenIsNewer
  <2>6. ReadIsCurrent' /\ WrittenIsNewer'
    BY <2>1, <2>2 DEF ReadIsCurrent, WrittenIsNewer
  <2> QED
    BY <2>3, <2>4, <2>5, <2>6
<1> QED
  BY <1>1, <1>2, <1>3, <1>4, <1>5, <1>6, <1>7, <1>8, <1>9, <1>10, <1>11,
     <1>12, <1>13, <1>14 DEF Next, Step

LEMMA RefreshInvAlways ==
  ASSUME RelayOnly
  PROVE  Spec => [](TypeInv /\ LockOwner /\ RefreshInv)
<1>1. Spec => [](TypeInv /\ LockOwner)
  BY LockOwnerAlways DEF RelayOnly
<1>2. TypeInv /\ LockOwner /\ RefreshInv /\ [Next]_vars => RefreshInv'
  BY StepRefreshInv
<1>3. Init => RefreshInv
  BY InitRefreshInv
<1> QED
  BY <1>1, <1>2, <1>3, PTL DEF Spec

\* As long as only refreshes write the session back, no refresh token is
\* presented again after its successor was received, for any number of
\* concurrent requests and expiries.
THEOREM RefreshSafe ==
  ASSUME RelayOnly
  PROVE  Spec => [](NoSpentTokenPresented /\ StoredTokenUnspent)
<1>1. RefreshInv => NoSpentTokenPresented /\ StoredTokenUnspent
  BY DEF RefreshInv, ReadIsCurrent, NoSpentTokenPresented
<1> QED
  BY <1>1, RefreshInvAlways, PTL

\* Requests that run into the same expiry refresh once between them.
THEOREM RefreshOnce ==
  ASSUME RelayOnly
  PROVE  Spec => []RefreshOncePerExpiry
<1>1. RefreshInv => RefreshOncePerExpiry
  BY DEF RefreshInv, ReadIsCurrent, RefusedIsExpired, RefreshOncePerExpiry
<1> QED
  BY <1>1, RefreshInvAlways, PTL

\* A retry carries a newer token than the call that was refused, and the
\* stored token set never goes back.
THEOREM RefreshAdvances ==
  ASSUME RelayOnly
  PROVE  Spec => RetryUsesNewerToken /\ StoreNeverRegresses
<1> DEFINE Newer == \A r \in Requests :
                       renewed'[r] /\ ~renewed[r] => cached'[r].access > cached[r].access
           Forward == store.live /\ store'.live => store'.access >= store.access
<1>1. TypeInv /\ RefreshInv /\ [Next]_vars => [Newer]_vars /\ [Forward]_vars
  <2> SUFFICES ASSUME TypeInv, RefreshInv, Next PROVE Newer /\ Forward
    OBVIOUS
  <2> USE TokenTypes DEF RefreshInv
  <2>r. renewed \in [Requests -> BOOLEAN]
    BY DEF TypeInv, TypeOK
  <2>1. ASSUME NEW r \in Requests, StoreRefreshed(r) PROVE Newer /\ Forward
    BY <2>1, <2>r DEF StoreRefreshed, WrittenIsNewer
  <2>2. ASSUME NEW r \in Requests, ReadCurrent(r) PROVE Newer /\ Forward
    <3>1. store' = store
      BY <2>2 DEF ReadCurrent
    <3>2. Forward
      BY <3>1
    <3>3. CASE UNCHANGED <<cached, renewed>>
      BY <3>2, <3>3
    <3>4. CASE /\ store.live /\ store.access # cached[r].access
               /\ cached' = [cached EXCEPT ![r] = store]
               /\ renewed' = [renewed EXCEPT ![r] = TRUE]
      <4>1. cached[r].access <= store.access
        BY <3>4 DEF CachesAreOlder
      <4>2. store.access \in Nat /\ cached[r].access \in Nat
        BY TokenTypes
      <4>3. \A m, n \in Nat : m <= n /\ n # m => n > m
        OBVIOUS
      <4>4. store.access > cached[r].access
        BY <3>4, <4>1, <4>2, <4>3
      <4> QED
        BY <2>r, <3>2, <3>4, <4>4
    <3> QED
      BY <2>2, <3>3, <3>4 DEF ReadCurrent, SessionUnderLock, AlreadyRefreshed
  <2>3. ASSUME NEW r \in Requests, PersistSet(r) PROVE FALSE
    BY <2>3 DEF PersistSet, NoPersist, InPersist
  <2>4. ASSUME NEW r \in Requests,
               \/ Load(r) \/ Called(r) \/ Retried(r) \/ Acquire(r)
               \/ CompareToken(r) \/ DeleteLock(r) \/ Exchanged(r)
               \/ AccessMissing(r) \/ ExchangeRaises(r) \/ CheckPending(r)
               \/ Crash(r)
        PROVE  UNCHANGED <<renewed, store>>
    BY <2>4 DEF Load, Called, Retried, Acquire, CompareToken, DeleteLock,
                Exchanged, AccessMissing, ExchangeRaises, CheckPending, Crash
  <2>5. ASSUME NEW r \in Requests, Destroy(r) PROVE Newer /\ Forward
    BY <2>5 DEF Destroy, NoSession
  <2>6. CASE AccessExpires \/ SessionExpires \/ LockLapses
    BY <2>6 DEF AccessExpires, SessionExpires, LockLapses, requestVars, NoSession
  <2>7. store.access <= store.access
    OBVIOUS
  <2>8. UNCHANGED <<renewed, store>> => Newer /\ Forward
    BY <2>7
  <2> QED
    BY <2>1, <2>2, <2>3, <2>4, <2>5, <2>6, <2>8 DEF Next, Step
<1>2. Spec => [](TypeInv /\ RefreshInv)
  BY RefreshInvAlways, PTL
<1> QED
  BY <1>1, <1>2, PTL DEF Spec, RetryUsesNewerToken, StoreNeverRegresses

-----------------------------------------------------------------------------
(* Prepared archives, whatever the requests do, as long as the lock        *)
(* excludes.                                                               *)

Past == {"persistRelease", "persistDelete", "done", "crashed"}

\* A download goes straight to its claim, and has none before it.
Downloads ==
    \A r \in Requests :
        /\ kind[r] = "download" =>
              pc[r] \in {"idle", "checkPending", "persistWait", "persistSet"} \cup Past
        /\ pc[r] = "checkPending" => kind[r] = "download"
        /\ pc[r] \in {"idle", "checkPending"} => claim[r] = Nobody

\* A request persists the archive it has staged, a download none.
Persists ==
    \A r \in Requests : pc[r] \in {"persistWait", "persistSet"} =>
        cached[r].pending = IF kind[r] = "download" THEN Nobody ELSE r

\* The archive of a request that has not persisted it is not seen elsewhere.
Unseen(r) ==
    /\ store.pending # r
    /\ \A q \in Requests :
          /\ claim[q] # r /\ current[q].pending # r
          /\ cached[q].pending = r => q = r /\ pc[r] \in {"persistWait", "persistSet"}
FreshUnseen == \A r \in Requests : pc[r] \notin Past => Unseen(r)

\* An archive that a download has claimed and dropped from the session is
\* neither there nor in a refresh that will write the session.
Dropped(r) == kind[r] = "download" /\ claim[r] # Nobody /\ pc[r] \in Past \ {"crashed"}
Gone(x) ==
    /\ store.pending # x
    /\ \A q \in Requests : pc[q] \in {"refreshing", "refreshStore"} => current[q].pending # x
DroppedGone == \A r \in Requests : Dropped(r) => Gone(claim[r])

ArchiveInv == Downloads /\ Persists /\ FreshUnseen /\ DroppedGone

LEMMA InitArchiveInv == Init => ArchiveInv
<1> SUFFICES ASSUME Init PROVE ArchiveInv
  OBVIOUS
<1>1. store.pending \in Earlier \cup {Nobody} /\ NoSession.pending = Nobody
  BY DEF Init, Established, NoSession
<1>2. \A r \in Requests : store.pending # r /\ Nobody # r
  BY <1>1, EarlierAssumption, RequestsAssumption
<1> QED
  BY <1>1, <1>2 DEF Init, ArchiveInv, Downloads, Persists, FreshUnseen, Unseen, DroppedGone,
                    Dropped, Past

LEMMA StepDownloads ==
  ASSUME TypeInv, Downloads, [Next]_vars
  PROVE  Downloads'
<1>t. /\ pc \in [Requests -> Locations] /\ cached \in [Requests -> Session]
      /\ current \in [Requests -> Session] /\ claim \in [Requests -> Archive]
      /\ kind \in [Requests -> Kinds]
  BY DEF TypeInv, TypeOK
<1> USE DEF Downloads, Past, Goto
<1>1. ASSUME NEW r \in Requests, Load(r) PROVE Downloads'
  BY <1>1, <1>t DEF Load
<1>2. ASSUME NEW r \in Requests, Called(r) PROVE Downloads'
  BY <1>2, <1>t DEF Called, AnswerOf, OtherAnswer
<1>3. ASSUME NEW r \in Requests, Retried(r) PROVE Downloads'
  BY <1>3, <1>t DEF Retried, AnswerOf, OtherAnswer, RefusalOf
<1>4. ASSUME NEW r \in Requests, Acquire(r) PROVE Downloads'
  BY <1>4, <1>t DEF Acquire
<1>5. ASSUME NEW r \in Requests, CompareToken(r) PROVE Downloads'
  BY <1>5, <1>t DEF CompareToken, AfterRefresh, RefusalOf
<1>6. ASSUME NEW r \in Requests, DeleteLock(r) PROVE Downloads'
  BY <1>6, <1>t DEF DeleteLock, AfterRefresh, RefusalOf
<1>7. ASSUME NEW r \in Requests, ReadCurrent(r) PROVE Downloads'
  BY <1>7, <1>t DEF ReadCurrent, SessionUnderLock
<1>8. ASSUME NEW r \in Requests, Exchanged(r) PROVE Downloads'
  BY <1>8, <1>t DEF Exchanged, WithTokens
<1>9. ASSUME NEW r \in Requests, AccessMissing(r) PROVE Downloads'
  BY <1>9, <1>t DEF AccessMissing
<1>10. ASSUME NEW r \in Requests, ExchangeRaises(r) PROVE Downloads'
  BY <1>10, <1>t DEF ExchangeRaises
<1>11. ASSUME NEW r \in Requests, StoreRefreshed(r) PROVE Downloads'
  BY <1>11, <1>t DEF StoreRefreshed
<1>12. ASSUME NEW r \in Requests, PersistSet(r) PROVE Downloads'
  BY <1>12, <1>t DEF PersistSet
<1>13. ASSUME NEW r \in Requests, CheckPending(r) PROVE Downloads'
  BY <1>13, <1>t DEF CheckPending
<1>14. ASSUME NEW r \in Requests, Destroy(r) PROVE Downloads'
  BY <1>14, <1>t DEF Destroy, NoSession
<1>15. ASSUME NEW r \in Requests, Crash(r) PROVE Downloads'
  BY <1>15, <1>t DEF Crash
<1>16. CASE AccessExpires \/ SessionExpires \/ LockLapses
  BY <1>16, <1>t DEF AccessExpires, SessionExpires, LockLapses, requestVars, NoSession
<1>17. CASE UNCHANGED vars
  BY <1>17 DEF vars, requestVars
<1> QED
  BY <1>1, <1>2, <1>3, <1>4, <1>5, <1>6, <1>7, <1>8, <1>9, <1>10, <1>11, <1>12,
     <1>13, <1>14, <1>15, <1>16, <1>17 DEF Next, Step

LEMMA StepPersists ==
  ASSUME TypeInv, Downloads, Persists, [Next]_vars
  PROVE  Persists'
<1>t. /\ pc \in [Requests -> Locations] /\ cached \in [Requests -> Session]
      /\ current \in [Requests -> Session] /\ claim \in [Requests -> Archive]
      /\ kind \in [Requests -> Kinds]
  BY DEF TypeInv, TypeOK
<1> USE DEF Downloads, Persists, Session, Past, Goto
<1>1. ASSUME NEW r \in Requests, Load(r) PROVE Persists'
  BY <1>1, <1>t, RequestsAssumption DEF Load
<1>2. ASSUME NEW r \in Requests, Called(r) PROVE Persists'
  BY <1>2, <1>t, RequestsAssumption DEF Called, AnswerOf, OtherAnswer
<1>3. ASSUME NEW r \in Requests, Retried(r) PROVE Persists'
  BY <1>3, <1>t, RequestsAssumption DEF Retried, AnswerOf, OtherAnswer, RefusalOf
<1>4. ASSUME NEW r \in Requests, Acquire(r) PROVE Persists'
  BY <1>4, <1>t, RequestsAssumption DEF Acquire
<1>5. ASSUME NEW r \in Requests, CompareToken(r) PROVE Persists'
  BY <1>5, <1>t, RequestsAssumption DEF CompareToken, AfterRefresh, RefusalOf
<1>6. ASSUME NEW r \in Requests, DeleteLock(r) PROVE Persists'
  BY <1>6, <1>t, RequestsAssumption DEF DeleteLock, AfterRefresh, RefusalOf
<1>7. ASSUME NEW r \in Requests, ReadCurrent(r) PROVE Persists'
  BY <1>7, <1>t, RequestsAssumption DEF ReadCurrent, SessionUnderLock
<1>8. ASSUME NEW r \in Requests, Exchanged(r) PROVE Persists'
  BY <1>8, <1>t, RequestsAssumption DEF Exchanged, WithTokens
<1>9. ASSUME NEW r \in Requests, AccessMissing(r) PROVE Persists'
  BY <1>9, <1>t, RequestsAssumption DEF AccessMissing
<1>10. ASSUME NEW r \in Requests, ExchangeRaises(r) PROVE Persists'
  BY <1>10, <1>t, RequestsAssumption DEF ExchangeRaises
<1>11. ASSUME NEW r \in Requests, StoreRefreshed(r) PROVE Persists'
  BY <1>11, <1>t, RequestsAssumption DEF StoreRefreshed
<1>12. ASSUME NEW r \in Requests, PersistSet(r) PROVE Persists'
  BY <1>12, <1>t, RequestsAssumption DEF PersistSet
<1>13. ASSUME NEW r \in Requests, CheckPending(r) PROVE Persists'
  BY <1>13, <1>t, RequestsAssumption DEF CheckPending
<1>14. ASSUME NEW r \in Requests, Destroy(r) PROVE Persists'
  BY <1>14, <1>t, RequestsAssumption DEF Destroy, NoSession
<1>15. ASSUME NEW r \in Requests, Crash(r) PROVE Persists'
  BY <1>15, <1>t, RequestsAssumption DEF Crash
<1>16. CASE AccessExpires \/ SessionExpires \/ LockLapses
  BY <1>16, <1>t, RequestsAssumption DEF AccessExpires, SessionExpires, LockLapses,
                                         requestVars, NoSession
<1>17. CASE UNCHANGED vars
  BY <1>17 DEF vars, requestVars
<1> QED
  BY <1>1, <1>2, <1>3, <1>4, <1>5, <1>6, <1>7, <1>8, <1>9, <1>10, <1>11, <1>12,
     <1>13, <1>14, <1>15, <1>16, <1>17 DEF Next, Step

LEMMA StepFreshUnseen ==
  ASSUME TypeInv, Downloads, Persists, FreshUnseen, [Next]_vars
  PROVE  FreshUnseen'
<1>t. /\ pc \in [Requests -> Locations] /\ cached \in [Requests -> Session]
      /\ current \in [Requests -> Session] /\ claim \in [Requests -> Archive]
      /\ kind \in [Requests -> Kinds]
  BY DEF TypeInv, TypeOK
<1> USE DEF Downloads, Persists, FreshUnseen, Unseen, Session, Past, Goto
<1>1. ASSUME NEW r \in Requests, Load(r) PROVE FreshUnseen'
  BY <1>1, <1>t, RequestsAssumption DEF Load
<1>2. ASSUME NEW r \in Requests, Called(r) PROVE FreshUnseen'
  BY <1>2, <1>t, RequestsAssumption DEF Called, AnswerOf, OtherAnswer
<1>3. ASSUME NEW r \in Requests, Retried(r) PROVE FreshUnseen'
  BY <1>3, <1>t, RequestsAssumption DEF Retried, AnswerOf, OtherAnswer, RefusalOf
<1>4. ASSUME NEW r \in Requests, Acquire(r) PROVE FreshUnseen'
  BY <1>4, <1>t, RequestsAssumption DEF Acquire
<1>5. ASSUME NEW r \in Requests, CompareToken(r) PROVE FreshUnseen'
  BY <1>5, <1>t, RequestsAssumption DEF CompareToken, AfterRefresh, RefusalOf
<1>6. ASSUME NEW r \in Requests, DeleteLock(r) PROVE FreshUnseen'
  BY <1>6, <1>t, RequestsAssumption DEF DeleteLock, AfterRefresh, RefusalOf
<1>7. ASSUME NEW r \in Requests, ReadCurrent(r) PROVE FreshUnseen'
  BY <1>7, <1>t, RequestsAssumption DEF ReadCurrent, SessionUnderLock
<1>8. ASSUME NEW r \in Requests, Exchanged(r) PROVE FreshUnseen'
  BY <1>8, <1>t, RequestsAssumption DEF Exchanged, WithTokens
<1>9. ASSUME NEW r \in Requests, AccessMissing(r) PROVE FreshUnseen'
  BY <1>9, <1>t, RequestsAssumption DEF AccessMissing
<1>10. ASSUME NEW r \in Requests, ExchangeRaises(r) PROVE FreshUnseen'
  BY <1>10, <1>t, RequestsAssumption DEF ExchangeRaises
<1>11. ASSUME NEW r \in Requests, StoreRefreshed(r) PROVE FreshUnseen'
  BY <1>11, <1>t, RequestsAssumption DEF StoreRefreshed
<1>12. ASSUME NEW r \in Requests, PersistSet(r) PROVE FreshUnseen'
  BY <1>12, <1>t, RequestsAssumption DEF PersistSet
<1>13. ASSUME NEW r \in Requests, CheckPending(r) PROVE FreshUnseen'
  <2> SUFFICES ASSUME NEW x \in Requests, pc'[x] \notin Past PROVE Unseen(x)'
    OBVIOUS
  <2>1. pc[x] \notin Past /\ Unseen(x)
    BY <1>13, <1>t DEF CheckPending
  <2>2. cached[r].pending # x
    BY <1>13, <2>1 DEF CheckPending
  <2>3. store' = store /\ current' = current /\ \A q \in Requests \ {r} : pc'[q] = pc[q]
    BY <1>13, <1>t DEF CheckPending
  <2>4. \A q \in Requests : claim'[q] # x
    BY <1>13, <1>t, <2>1, <2>2 DEF CheckPending
  <2>5. \A q \in Requests \ {r} : cached'[q] = cached[q]
    BY <1>13, <1>t DEF CheckPending
  <2>6. cached'[r].pending # x
    BY <1>13, <1>t, <2>2, RequestsAssumption DEF CheckPending
  <2>7. \A q \in Requests : cached'[q].pending = x => q = x /\ pc'[x] \in {"persistWait", "persistSet"}
    BY <2>1, <2>3, <2>5, <2>6
  <2> QED
    BY <2>1, <2>3, <2>4, <2>7
<1>14. ASSUME NEW r \in Requests, Destroy(r) PROVE FreshUnseen'
  BY <1>14, <1>t, RequestsAssumption DEF Destroy, NoSession
<1>15. ASSUME NEW r \in Requests, Crash(r) PROVE FreshUnseen'
  BY <1>15, <1>t, RequestsAssumption DEF Crash
<1>16. CASE AccessExpires \/ SessionExpires \/ LockLapses
  BY <1>16, <1>t, RequestsAssumption DEF AccessExpires, SessionExpires, LockLapses,
                                         requestVars, NoSession
<1>17. CASE UNCHANGED vars
  BY <1>17 DEF vars, requestVars
<1> QED
  BY <1>1, <1>2, <1>3, <1>4, <1>5, <1>6, <1>7, <1>8, <1>9, <1>10, <1>11, <1>12,
     <1>13, <1>14, <1>15, <1>16, <1>17 DEF Next, Step

LEMMA StepDroppedGone ==
  ASSUME TypeInv, LockOwner, ArchiveInv, [Next]_vars
  PROVE  DroppedGone'
<1>t. /\ pc \in [Requests -> Locations] /\ cached \in [Requests -> Session]
      /\ current \in [Requests -> Session] /\ claim \in [Requests -> Archive]
      /\ kind \in [Requests -> Kinds]
  BY DEF TypeInv, TypeOK
<1> USE DEF ArchiveInv, Downloads, Persists, FreshUnseen, Unseen, DroppedGone, Dropped, Gone,
            Session, Past, Goto
<1>1. ASSUME NEW r \in Requests, Load(r) PROVE DroppedGone'
  BY <1>1, <1>t, RequestsAssumption DEF Load
<1>2. ASSUME NEW r \in Requests, Called(r) PROVE DroppedGone'
  BY <1>2, <1>t, RequestsAssumption DEF Called, AnswerOf, OtherAnswer
<1>3. ASSUME NEW r \in Requests, Retried(r) PROVE DroppedGone'
  BY <1>3, <1>t, RequestsAssumption DEF Retried, AnswerOf, OtherAnswer, RefusalOf
<1>4. ASSUME NEW r \in Requests, Acquire(r) PROVE DroppedGone'
  BY <1>4, <1>t, RequestsAssumption DEF Acquire
<1>5. ASSUME NEW r \in Requests, CompareToken(r) PROVE DroppedGone'
  BY <1>5, <1>t, RequestsAssumption DEF CompareToken, AfterRefresh, RefusalOf
<1>6. ASSUME NEW r \in Requests, DeleteLock(r) PROVE DroppedGone'
  BY <1>6, <1>t, RequestsAssumption DEF DeleteLock, AfterRefresh, RefusalOf
<1>7. ASSUME NEW r \in Requests, ReadCurrent(r) PROVE DroppedGone'
  BY <1>7, <1>t, RequestsAssumption DEF ReadCurrent, SessionUnderLock
<1>8. ASSUME NEW r \in Requests, Exchanged(r) PROVE DroppedGone'
  BY <1>8, <1>t, RequestsAssumption DEF Exchanged, WithTokens
<1>9. ASSUME NEW r \in Requests, AccessMissing(r) PROVE DroppedGone'
  BY <1>9, <1>t, RequestsAssumption DEF AccessMissing
<1>10. ASSUME NEW r \in Requests, ExchangeRaises(r) PROVE DroppedGone'
  BY <1>10, <1>t, RequestsAssumption DEF ExchangeRaises
<1>11. ASSUME NEW r \in Requests, StoreRefreshed(r) PROVE DroppedGone'
  BY <1>11, <1>t, RequestsAssumption DEF StoreRefreshed
<1>12. ASSUME NEW r \in Requests, PersistSet(r) PROVE DroppedGone'
  <2>1. store'.pending = IF kind[r] = "download" THEN Nobody ELSE r
    BY <1>12 DEF PersistSet
  <2>2. \A q \in Requests : pc'[q] \notin {"refreshing", "refreshStore"}
    BY <1>12, <1>t DEF PersistSet, LockOwner, Critical, InRefresh, InPersist
  <2>3. \A q \in Requests : claim'[q] = claim[q] /\ claim[q] # r /\ kind'[q] = kind[q]
    BY <1>12 DEF PersistSet
  <2>4. \A q \in Requests : Dropped(q)' => store'.pending # claim'[q]
    BY <2>1, <2>3
  <2> QED
    BY <2>2, <2>4
<1>13. ASSUME NEW r \in Requests, CheckPending(r) PROVE DroppedGone'
  BY <1>13, <1>t, RequestsAssumption DEF CheckPending
<1>14. ASSUME NEW r \in Requests, Destroy(r) PROVE DroppedGone'
  BY <1>14, <1>t, RequestsAssumption DEF Destroy, NoSession
<1>15. ASSUME NEW r \in Requests, Crash(r) PROVE DroppedGone'
  BY <1>15, <1>t, RequestsAssumption DEF Crash
<1>16. CASE AccessExpires \/ SessionExpires \/ LockLapses
  BY <1>16, <1>t, RequestsAssumption DEF AccessExpires, SessionExpires, LockLapses,
                                         requestVars, NoSession
<1>17. CASE UNCHANGED vars
  BY <1>17 DEF vars, requestVars
<1> QED
  BY <1>1, <1>2, <1>3, <1>4, <1>5, <1>6, <1>7, <1>8, <1>9, <1>10, <1>11, <1>12,
     <1>13, <1>14, <1>15, <1>16, <1>17 DEF Next, Step

LEMMA StepArchiveInv == TypeInv /\ LockOwner /\ ArchiveInv /\ [Next]_vars => ArchiveInv'
  BY StepDownloads, StepPersists, StepFreshUnseen, StepDroppedGone DEF ArchiveInv

\* As long as the lock key outlives a holder that is alive, an archive that a
\* download has served is gone from the session for good: no export, refresh
\* or other download that read the session before writes it back.
THEOREM ServedIsGone ==
  ASSUME LockLapse # "anytime"
  PROVE  Spec => []ServedArchiveIsGone
<1>1. ArchiveInv => ServedArchiveIsGone
  BY DEF ArchiveInv, DroppedGone, Dropped, Gone, Past, ServedArchiveIsGone, Served
<1> QED
  BY <1>1, LockOwnerAlways, InitArchiveInv, StepArchiveInv, PTL DEF Spec
-----------------------------------------------------------------------------
(* The lock of the in-memory session store, for any tasks and any number   *)
(* of lock objects.                                                        *)

USE MaxLocksAssumption, NoLockAssumption

MemoryTypes ==
    /\ entry \in Locks \cup {NoLock} /\ made \in 0 .. MaxLocks /\ dropped \in BOOLEAN
    /\ locked \in [Locks -> BOOLEAN] /\ waiters \in [Locks -> Seq(Tasks)]
    /\ mine \in [Tasks -> Locks \cup {NoLock}]
    /\ taskPc \in [Tasks -> {"outside", "waiting", "inside"}]

\* A task has a lock object while it waits or is inside, and nobody shares
\* the object that is held.
Holders ==
    /\ \A t \in Tasks : taskPc[t] = "outside" <=> mine[t] = NoLock
    /\ \A t \in Tasks : taskPc[t] = "inside" => locked[mine[t]]
    /\ \A s, t \in Tasks :
          taskPc[s] = "inside" /\ taskPc[t] = "inside" /\ mine[s] = mine[t] => s = t

\* Who waits is queued, once, on its object, and nobody else is.
Queues ==
    /\ \A l \in Locks : \A i, j \in 1 .. Len(waiters[l]) : waiters[l][i] = waiters[l][j] => i = j
    /\ \A l \in Locks : \A i \in 1 .. Len(waiters[l]) :
          taskPc[waiters[l][i]] = "waiting" /\ mine[waiters[l][i]] = l
    /\ \A t \in Tasks : taskPc[t] = "waiting" =>
          \E i \in 1 .. Len(waiters[mine[t]]) : waiters[mine[t]][i] = t

\* Until an entry is dropped under its waiters, there is one object in use.
OneObject == ~dropped => \A t \in Tasks : taskPc[t] # "outside" => mine[t] = entry

MemoryInv == MemoryTypes /\ Holders /\ Queues /\ OneObject

LEMMA QueueAppend ==
  ASSUME NEW s \in Seq(Tasks), NEW t \in Tasks
  PROVE  /\ Append(s, t) \in Seq(Tasks) /\ Len(Append(s, t)) = Len(s) + 1 /\ Len(s) \in Nat
         /\ \A i \in 1 .. Len(s) : Append(s, t)[i] = s[i]
         /\ Append(s, t)[Len(s) + 1] = t
  OBVIOUS

LEMMA QueueTail ==
  ASSUME NEW s \in Seq(Tasks), s # <<>>
  PROVE  /\ Tail(s) \in Seq(Tasks) /\ Len(Tail(s)) = Len(s) - 1 /\ Len(s) \in Nat \ {0}
         /\ \A i \in 1 .. Len(s) - 1 : Tail(s)[i] = s[i + 1]
  OBVIOUS

LEMMA InitMemoryInv == MemoryInit => MemoryInv
<1> SUFFICES ASSUME MemoryInit PROVE MemoryInv
  OBVIOUS
<1> USE DEF MemoryInit, Locks
<1>1. MemoryTypes
  <2>1. 0 \in 0 .. MaxLocks /\ \A l \in Locks : waiters[l] \in Seq(Tasks)
    BY DEF Locks
  <2> QED
    BY <2>1 DEF MemoryTypes, Locks
<1>2. \A l \in Locks : 1 .. Len(waiters[l]) = {}
  BY DEF Locks
<1>3. Holders
  BY DEF Holders
<1>4. Queues
  BY <1>2 DEF Queues
<1> QED
  BY <1>1, <1>3, <1>4 DEF MemoryInv, OneObject

\* Taking the lock, at once or after a wait that begins.
LEMMA LockStep ==
  ASSUME MemoryInv, NEW t \in Tasks, NEW l \in Locks, Lock(t, l)
  PROVE  MemoryInv'
<1> USE DEF MemoryInv
<1>0. MemoryTypes
  OBVIOUS
<1>1. /\ taskPc[t] = "outside" /\ mine' = [mine EXCEPT ![t] = l] /\ dropped' = dropped
      /\ mine[t] = NoLock
  BY DEF Lock, Holders
<1>2. entry' = l /\ (entry = l \/ entry = NoLock) /\ made' \in 0 .. MaxLocks
  BY <1>0 DEF Lock, EntryLock, MemoryTypes, Locks
<1>3. OneObject'
  BY <1>0, <1>1, <1>2 DEF OneObject, MemoryTypes, Holders, Lock
<1>4. CASE /\ ~locked[l] /\ waiters[l] = <<>> /\ locked' = [locked EXCEPT ![l] = TRUE]
           /\ taskPc' = [taskPc EXCEPT ![t] = "inside"] /\ waiters' = waiters
  <2>1. MemoryTypes'
    BY <1>0, <1>1, <1>2, <1>4 DEF MemoryTypes
  <2>2. \A s \in Tasks : taskPc[s] = "inside" => mine[s] # l
    BY <1>4 DEF Holders
  <2>3. Holders'
    BY <1>0, <1>1, <1>4, <2>2 DEF MemoryTypes, Holders
  <2>4. \A k \in Locks : \A i \in 1 .. Len(waiters[k]) : waiters[k][i] \in Tasks /\ waiters[k][i] # t
    BY <1>0, <1>1 DEF MemoryTypes, Queues
  <2>5. Queues'
    <3>1. \A s \in Tasks \ {t} : taskPc'[s] = taskPc[s] /\ mine'[s] = mine[s]
      BY <1>0, <1>1, <1>4 DEF MemoryTypes
    <3>2. \A s \in Tasks : taskPc'[s] = "waiting" => s # t
      BY <1>0, <1>4 DEF MemoryTypes
    <3> QED
      BY <1>4, <2>4, <3>1, <3>2 DEF Queues
  <2> QED
    BY <1>3, <2>1, <2>3, <2>5
<1>5. CASE /\ waiters' = [waiters EXCEPT ![l] = Append(waiters[l], t)]
           /\ taskPc' = [taskPc EXCEPT ![t] = "waiting"] /\ locked' = locked
  <2> DEFINE w == waiters[l]
  <2>0. w \in Seq(Tasks) /\ waiters' \in [Locks -> Seq(Tasks)] /\ waiters'[l] = Append(w, t)
    BY <1>0, <1>5, QueueAppend DEF MemoryTypes
  <2>1. MemoryTypes'
    BY <1>0, <1>1, <1>2, <1>5, <2>0 DEF MemoryTypes
  <2>2. Holders'
    BY <1>0, <1>1, <1>5 DEF MemoryTypes, Holders
  <2>3. \A k \in Locks : \A i \in 1 .. Len(waiters[k]) : waiters[k][i] \in Tasks /\ waiters[k][i] # t
    BY <1>0, <1>1 DEF MemoryTypes, Queues
  <2>4. \A k \in Locks \ {l} : waiters'[k] = waiters[k]
    BY <1>0, <1>5 DEF MemoryTypes
  <2>5. /\ Len(waiters'[l]) = Len(w) + 1 /\ Len(w) \in Nat
        /\ \A i \in 1 .. Len(w) : waiters'[l][i] = w[i]
        /\ waiters'[l][Len(w) + 1] = t
    BY <2>0, QueueAppend
  <2>6. \A s \in Tasks \ {t} : taskPc'[s] = taskPc[s] /\ mine'[s] = mine[s]
    BY <1>0, <1>1, <1>5 DEF MemoryTypes
  <2>7. taskPc'[t] = "waiting" /\ mine'[t] = l
    BY <1>0, <1>1, <1>5 DEF MemoryTypes
  <2>8. Queues'
    <3> HIDE DEF w
    <3>1. \A i \in 1 .. Len(waiters'[l]) : i \in 1 .. Len(w) \/ i = Len(w) + 1
      BY <2>5
    <3>2. \A k \in Locks : \A i, j \in 1 .. Len(waiters'[k]) :
              waiters'[k][i] = waiters'[k][j] => i = j
      <4>1. \A i, j \in 1 .. Len(w) : w[i] = w[j] => i = j
        BY DEF Queues, w
      <4>2. \A i \in 1 .. Len(w) : w[i] # t
        BY <2>3 DEF w
      <4>3. \A i, j \in 1 .. Len(waiters'[l]) : waiters'[l][i] = waiters'[l][j] => i = j
        BY <2>5, <3>1, <4>1, <4>2
      <4> QED
        BY <2>4, <4>3 DEF Queues
    <3>3. \A k \in Locks : \A i \in 1 .. Len(waiters'[k]) :
              taskPc'[waiters'[k][i]] = "waiting" /\ mine'[waiters'[k][i]] = k
      <4>1. \A k \in Locks : \A i \in 1 .. Len(waiters[k]) :
               taskPc'[waiters[k][i]] = "waiting" /\ mine'[waiters[k][i]] = k
        BY <2>3, <2>6 DEF Queues
      <4>2. \A i \in 1 .. Len(waiters'[l]) :
              taskPc'[waiters'[l][i]] = "waiting" /\ mine'[waiters'[l][i]] = l
        BY <2>5, <2>7, <3>1, <4>1 DEF w
      <4> QED
        BY <2>4, <4>1, <4>2
    <3>4. ASSUME NEW s \in Tasks, taskPc'[s] = "waiting"
          PROVE  \E i \in 1 .. Len(waiters'[mine'[s]]) : waiters'[mine'[s]][i] = s
      <4>1. CASE s = t
        BY <2>5, <2>7, <4>1
      <4>2. CASE s # t
        <5>1. mine'[s] = mine[s] /\ mine[s] \in Locks
          BY <1>0, <2>6, <3>4, <4>2 DEF MemoryTypes, Holders
        <5>2. PICK i \in 1 .. Len(waiters[mine[s]]) : waiters[mine[s]][i] = s
          BY <2>6, <3>4, <4>2 DEF Queues
        <5>3. i \in 1 .. Len(waiters'[mine[s]]) /\ waiters'[mine[s]][i] = s
          BY <2>4, <2>5, <5>1, <5>2 DEF w
        <5> QED
          BY <5>1, <5>3
      <4> QED
        BY <4>1, <4>2
    <3> QED
      BY <3>2, <3>3, <3>4 DEF Queues
  <2> QED
    BY <1>3, <2>1, <2>2, <2>8
<1> QED
  BY <1>4, <1>5 DEF Lock, Uncontended

\* A waiter that was woken runs: it is the first of its queue.
LEMMA ResumeStep ==
  ASSUME MemoryInv, NEW t \in Tasks, Resume(t)
  PROVE  MemoryInv'
<1> USE DEF MemoryInv
<1>0. MemoryTypes
  OBVIOUS
<1> DEFINE l == mine[t]
           w == waiters[l]
<1>1. /\ taskPc[t] = "waiting" /\ l \in Locks /\ ~locked[l]
      /\ w \in Seq(Tasks) /\ Len(w) >= 1 /\ Len(w) \in Nat
  BY <1>0 DEF Resume, Woken, IsPrefix, MemoryTypes, Holders
<1>2. w[1] = t
  <2>1. SubSeq(<<t>>, 1, 1) = SubSeq(w, 1, 1)
    BY DEF Resume, Woken, IsPrefix
  <2> QED
    BY <1>1, <2>1
<1>3. /\ locked' = [locked EXCEPT ![l] = TRUE] /\ waiters' = [waiters EXCEPT ![l] = Tail(w)]
      /\ taskPc' = [taskPc EXCEPT ![t] = "inside"] /\ UNCHANGED <<entry, made, mine, dropped>>
  BY DEF Resume
<1>4. /\ Tail(w) \in Seq(Tasks) /\ Len(Tail(w)) = Len(w) - 1
      /\ \A i \in 1 .. Len(w) - 1 : Tail(w)[i] = w[i + 1]
  BY <1>1, QueueTail
<1> HIDE DEF w
<1>5. waiters'[l] = Tail(w) /\ \A k \in Locks \ {l} : waiters'[k] = waiters[k]
  BY <1>0, <1>1, <1>3 DEF MemoryTypes
<1>6. MemoryTypes'
  BY <1>0, <1>1, <1>3, <1>4 DEF MemoryTypes
<1>7. Holders'
  BY <1>0, <1>1, <1>3 DEF MemoryTypes, Holders
<1>8. OneObject'
  BY <1>0, <1>1, <1>3 DEF MemoryTypes, OneObject
<1>9. Queues'
  <2>1. \A i \in 1 .. Len(w) - 1 : i + 1 \in 1 .. Len(w) /\ i \in 1 .. Len(w)
    BY <1>1
  <2>2. \A i, j \in 1 .. Len(w) : w[i] = w[j] => i = j
    BY <1>1 DEF Queues, w
  <2>3. \A s \in Tasks \ {t} : taskPc'[s] = taskPc[s]
    BY <1>0, <1>3 DEF MemoryTypes
  <2>4. \A k \in Locks : \A i, j \in 1 .. Len(waiters'[k]) :
            waiters'[k][i] = waiters'[k][j] => i = j
    <3>1. \A i, j \in 1 .. Len(Tail(w)) : Tail(w)[i] = Tail(w)[j] => i = j
      <4> TAKE i, j \in 1 .. Len(Tail(w))
      <4>1. i + 1 \in 1 .. Len(w) /\ j + 1 \in 1 .. Len(w) /\ i \in Nat /\ j \in Nat
        BY <1>4, <2>1
      <4>2. Tail(w)[i] = Tail(w)[j] => i + 1 = j + 1
        BY <1>4, <2>2, <4>1
      <4> QED
        BY <4>1, <4>2
    <3>2. \A k \in Locks \ {l} : \A i, j \in 1 .. Len(waiters[k]) :
            waiters[k][i] = waiters[k][j] => i = j
      BY DEF Queues
    <3> HIDE DEF l
    <3> QED
      BY <1>5, <3>1, <3>2
  <2>5. \A k \in Locks : \A i \in 1 .. Len(waiters'[k]) :
            taskPc'[waiters'[k][i]] = "waiting" /\ mine'[waiters'[k][i]] = k
    <3>1. \A k \in Locks \ {l} : \A i \in 1 .. Len(waiters[k]) :
            waiters[k][i] \in Tasks /\ waiters[k][i] # t
      BY <1>0, <1>1 DEF MemoryTypes, Queues
    <3>2. \A i \in 1 .. Len(w) - 1 : w[i + 1] \in Tasks /\ w[i + 1] # t /\ mine[w[i + 1]] = l
                                     /\ taskPc[w[i + 1]] = "waiting"
      <4> TAKE i \in 1 .. Len(w) - 1
      <4>1. i + 1 \in 1 .. Len(w) /\ 1 \in 1 .. Len(w) /\ i + 1 # 1
        BY <1>1, <2>1
      <4>2. w[i + 1] # t
        BY <1>2, <2>2, <4>1
      <4>3. w[i + 1] \in Tasks /\ mine[w[i + 1]] = l /\ taskPc[w[i + 1]] = "waiting"
        BY <1>1, <4>1 DEF Queues, w
      <4> QED
        BY <4>2, <4>3
    <3>3. \A i \in 1 .. Len(Tail(w)) : taskPc'[Tail(w)[i]] = "waiting" /\ mine'[Tail(w)[i]] = l
      <4> TAKE i \in 1 .. Len(Tail(w))
      <4>1. Tail(w)[i] \in Tasks \ {t} /\ mine[Tail(w)[i]] = l /\ taskPc[Tail(w)[i]] = "waiting"
        BY <1>4, <3>2
      <4> QED
        BY <1>3, <2>3, <4>1
    <3>4. \A k \in Locks \ {l} : \A i \in 1 .. Len(waiters[k]) :
            taskPc'[waiters[k][i]] = "waiting" /\ mine'[waiters[k][i]] = k
      BY <1>3, <2>3, <3>1 DEF Queues
    <3> QED
      <4> SUFFICES ASSUME NEW k \in Locks, NEW i \in 1 .. Len(waiters'[k])
                   PROVE  taskPc'[waiters'[k][i]] = "waiting" /\ mine'[waiters'[k][i]] = k
        OBVIOUS
      <4> HIDE DEF l
      <4>1. CASE k = l
        <5>1. waiters'[k] = Tail(w)
          BY <1>5, <4>1
        <5> QED
          BY <3>3, <4>1, <5>1
      <4>2. CASE k # l
        <5>1. waiters'[k] = waiters[k]
          BY <1>5, <4>2
        <5> QED
          BY <3>4, <4>2, <5>1
      <4> QED
        BY <4>1, <4>2
  <2>6. ASSUME NEW s \in Tasks, taskPc'[s] = "waiting"
        PROVE  \E i \in 1 .. Len(waiters'[mine'[s]]) : waiters'[mine'[s]][i] = s
    <3>1. s # t /\ taskPc[s] = "waiting" /\ mine[s] \in Locks /\ mine'[s] = mine[s]
      BY <1>0, <1>3, <2>6 DEF MemoryTypes, Holders
    <3>2. PICK i \in 1 .. Len(waiters[mine[s]]) : waiters[mine[s]][i] = s
      BY <3>1 DEF Queues
    <3>3. CASE mine[s] # l
      BY <1>5, <3>1, <3>2, <3>3
    <3>4. CASE mine[s] = l
      <4>1. i \in 1 .. Len(w) /\ w[i] = s /\ i # 1
        BY <1>2, <3>1, <3>2, <3>4 DEF w
      <4>2. i - 1 \in 1 .. Len(w) - 1 /\ (i - 1) + 1 = i
        BY <1>1, <4>1
      <4>3. Tail(w)[i - 1] = s
        BY <1>4, <4>1, <4>2
      <4> QED
        BY <1>4, <1>5, <3>1, <3>4, <4>2, <4>3
    <3> QED
      BY <3>3, <3>4
  <2> QED
    BY <2>4, <2>5, <2>6 DEF Queues
<1> QED
  BY <1>6, <1>7, <1>8, <1>9

LEMMA UnlockStep ==
  ASSUME MemoryInv, NEW t \in Tasks, Unlock(t)
  PROVE  MemoryInv'
<1> USE DEF MemoryInv
<1>0. MemoryTypes
  OBVIOUS
<1>1. /\ taskPc[t] = "inside" /\ locked' = [locked EXCEPT ![mine[t]] = FALSE]
      /\ mine' = [mine EXCEPT ![t] = NoLock] /\ taskPc' = [taskPc EXCEPT ![t] = "outside"]
      /\ UNCHANGED <<entry, made, waiters, dropped>>
  BY DEF Unlock
<1>2. mine[t] \in Locks
  BY <1>0, <1>1 DEF MemoryTypes, Holders
<1>3. MemoryTypes'
  BY <1>0, <1>1, <1>2 DEF MemoryTypes
<1>4. Holders'
  BY <1>0, <1>1, <1>2 DEF MemoryTypes, Holders
<1>5. \A k \in Locks : \A i \in 1 .. Len(waiters[k]) : waiters[k][i] \in Tasks /\ waiters[k][i] # t
  BY <1>0, <1>1 DEF MemoryTypes, Queues
<1>6. Queues'
  <2>1. \A s \in Tasks \ {t} : taskPc'[s] = taskPc[s] /\ mine'[s] = mine[s]
    BY <1>0, <1>1 DEF MemoryTypes
  <2>2. \A s \in Tasks : taskPc'[s] = "waiting" => s # t
    BY <1>0, <1>1 DEF MemoryTypes
  <2> QED
    BY <1>1, <1>5, <2>1, <2>2 DEF Queues
<1>7. OneObject'
  BY <1>0, <1>1 DEF MemoryTypes, OneObject
<1> QED
  BY <1>3, <1>4, <1>6, <1>7

\* An entry that nobody waits for has nobody inside either.
LEMMA DeleteStep ==
  ASSUME MemoryInv, Delete
  PROVE  MemoryInv'
<1> USE DEF MemoryInv
<1>1. /\ entry' = NoLock /\ dropped' = (dropped \/ waiters[entry] # <<>>)
      /\ entry # NoLock /\ ~locked[entry] /\ UNCHANGED <<made, locked, waiters, mine, taskPc>>
  BY DEF Delete, Droppable
<1>2. MemoryTypes' /\ Holders' /\ Queues'
  BY <1>1 DEF MemoryTypes, Holders, Queues
<1>3. OneObject'
  <2> SUFFICES ASSUME ~dropped, waiters[entry] = <<>>, NEW t \in Tasks, taskPc[t] # "outside"
               PROVE  FALSE
    BY <1>1 DEF OneObject
  <2>1. mine[t] = entry
    BY DEF OneObject
  <2>2. 1 .. Len(waiters[mine[t]]) = {}
    BY <2>1
  <2>3. taskPc[t] = "inside"
    BY <2>2 DEF MemoryTypes, Queues
  <2> QED
    BY <1>1, <2>1, <2>3 DEF Holders
<1> QED
  BY <1>2, <1>3

LEMMA StepMemoryInv ==
  ASSUME MemoryInv, [MemoryNext]_memoryVars
  PROVE  MemoryInv'
<1>1. CASE UNCHANGED memoryVars
  BY <1>1 DEF memoryVars, MemoryInv, MemoryTypes, Holders, Queues, OneObject
<1>2. ASSUME NEW t \in Tasks, TaskStep(t) PROVE MemoryInv'
  BY <1>2, LockStep, ResumeStep, UnlockStep DEF TaskStep, Locks, Locks
<1> QED
  BY <1>1, <1>2, DeleteStep DEF MemoryNext

LEMMA MemoryInvAlways == MemorySpec => []MemoryInv
<1>1. MemoryInv /\ [MemoryNext]_memoryVars => MemoryInv'
  BY StepMemoryInv
<1> QED
  BY <1>1, InitMemoryInv, PTL DEF MemorySpec, memoryVars, memoryVars

LEMMA OneIsInside == MemoryInv => dropped \/ OneInside
  BY DEF MemoryInv, MemoryTypes, Holders, OneObject, OneInside, Inside

\* The queues of the in-memory lock are well-formed, and two critical
\* sections overlap only after an entry was dropped under its waiters: the
\* deletion of a session between a release and the run of the waiter it woke
\* is the one way to two holders.
THEOREM MemoryLockIsExclusive == MemorySpec => []ExclusiveUnlessDropped
<1>1. ASSUME MemoryInv PROVE MemoryTypeOK
  <2>1. \A l \in Locks : IsInjective(waiters[l])
    BY <1>1 DEF MemoryInv, MemoryTypes, Queues, IsInjective
  <2>2. ASSUME NEW t \in Tasks
        PROVE  \/ taskPc[t] = "outside" /\ mine[t] = NoLock
               \/ taskPc[t] = "waiting" /\ Contains(waiters[mine[t]], t)
               \/ taskPc[t] = "inside" /\ locked[mine[t]]
    BY <1>1 DEF MemoryInv, MemoryTypes, Holders, Queues, Contains
  <2> QED
    BY <1>1, <2>1, <2>2 DEF MemoryInv, MemoryTypes, MemoryTypeOK, Locks, Locks
<1>2. MemoryInv => ExclusiveUnlessDropped
  BY <1>1, OneIsInside DEF ExclusiveUnlessDropped
<1> QED
  BY <1>2, MemoryInvAlways, PTL

\* While no session is deleted, the in-memory lock implements the same
\* abstract lock as the one in Redis.
THEOREM MemoryLockImplements ==
  ASSUME MayDelete = FALSE
  PROVE  MemorySpec => MemoryImplementsSessionLock
<1>1. MemoryInit => ~dropped /\ AbstractLock!LockInit
  BY DEF MemoryInit, Inside, AbstractLock!LockInit
<1>2. ~dropped /\ [MemoryNext]_memoryVars => ~dropped'
  BY DEF MemoryNext, TaskStep, Lock, Resume, Unlock, Delete, memoryVars
<1>3. MemoryInv /\ ~dropped /\ [MemoryNext]_memoryVars =>
        [AbstractLock!LockNext]_(Inside)
  <2> SUFFICES ASSUME MemoryInv, ~dropped, MemoryNext
               PROVE  AbstractLock!LockNext \/ Inside' = Inside
    BY DEF memoryVars, Inside
  <2>0. MemoryTypes /\ \A s, t \in Inside : s = t
    BY OneIsInside DEF MemoryInv, OneInside
  <2>1. ASSUME NEW t \in Tasks, taskPc[t] # "inside", Inside = {},
               taskPc' = [taskPc EXCEPT ![t] = "inside"]
        PROVE  AbstractLock!LockNext
    <3>1. Inside' = {t}
      BY <2>0, <2>1 DEF Inside, MemoryTypes
    <3> QED
      BY <2>1, <3>1 DEF AbstractLock!LockNext, AbstractLock!Enter
  <2>2. ASSUME NEW l \in Locks, ~locked[l], entry = l \/ entry = NoLock
        PROVE  Inside = {}
    BY <2>2 DEF MemoryInv, MemoryTypes, Holders, OneObject, Inside
  <2>3. ASSUME NEW t \in Tasks, NEW l \in Locks, Lock(t, l)
        PROVE  AbstractLock!LockNext \/ Inside' = Inside
    <3>1. taskPc[t] = "outside" /\ (entry = l \/ entry = NoLock)
      BY <2>3 DEF Lock, EntryLock
    <3>2. CASE ~locked[l] /\ taskPc' = [taskPc EXCEPT ![t] = "inside"]
      BY <2>1, <2>2, <3>1, <3>2
    <3>3. CASE taskPc' = [taskPc EXCEPT ![t] = "waiting"]
      BY <2>0, <3>1, <3>3 DEF Inside, MemoryTypes
    <3> QED
      BY <2>3, <3>2, <3>3 DEF Lock, Uncontended
  <2>4. ASSUME NEW t \in Tasks, Resume(t) PROVE AbstractLock!LockNext
    <3>1. /\ taskPc[t] = "waiting" /\ ~locked[mine[t]]
          /\ taskPc' = [taskPc EXCEPT ![t] = "inside"]
      BY <2>4 DEF Resume, Woken
    <3>2. mine[t] \in Locks /\ entry = mine[t]
      BY <3>1 DEF MemoryInv, MemoryTypes, Holders, OneObject
    <3> QED
      BY <2>1, <2>2, <3>1, <3>2
  <2>5. ASSUME NEW t \in Tasks, Unlock(t) PROVE AbstractLock!LockNext
    <3>1. taskPc[t] = "inside" /\ taskPc' = [taskPc EXCEPT ![t] = "outside"]
      BY <2>5 DEF Unlock
    <3>2. Inside = {t} /\ Inside' = {}
      BY <2>0, <3>1 DEF Inside, MemoryTypes
    <3> QED
      BY <3>2 DEF AbstractLock!LockNext, AbstractLock!Exit
  <2> QED
    BY <2>3, <2>4, <2>5 DEF MemoryNext, TaskStep, Delete, Locks, Locks
<1> QED
  BY <1>1, <1>2, <1>3, MemoryInvAlways, PTL
     DEF MemorySpec, memoryVars, memoryVars, MemoryImplementsSessionLock,
         AbstractLock!LockSpec
=============================================================================
