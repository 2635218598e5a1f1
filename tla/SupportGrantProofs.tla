------------------------- MODULE SupportGrantProofs -------------------------
(***************************************************************************)
(* Proofs about SupportGrant, for any slots, asks and tenants: a delegated *)
(* credential goes to its own tenant only, what reached a tenant is in the *)
(* audit chain, and, where gateways answer a revoke truthfully, released   *)
(* means revoked.                                                          *)
(***************************************************************************)
EXTENDS SupportGrant, TLAPS

Delivered(a) == ask[a] \in {"approved", "revoked"}

\* A grant somebody holds names the tenant it was asked of, which has
\* approved it at some time.
Genuine(g) == g # NoGrant => g.tenant = TenantOf[g.ask] /\ Delivered(g.ask)
GrantsAreGenuine == Genuine(held) /\ \A s \in Slots : Genuine(cached[s])

Raising(s) == kind[s] = "raise" /\ pc[s] # "idle"

\* A raise that has not been sent is for an ask that no tenant knows,
Unsent == \A s \in Slots : Raising(s) /\ pc[s] \in {"resolving", "calling"}
                             => ask[named[s].ask] = "unraised"
\* and no two are for the same ask.
RaisedApart ==
    \A s, u \in Slots : s # u /\ Raising(s) /\ Raising(u) => named[s].ask # named[u].ask

\* A request calls the gateway that it addressed.
CallsAddressed == \A s \in Slots : pc[s] = "calling" => gateway[s] = Addressed(s)

\* What is about to be audited is an ask.
AuditsAsks == \A s \in Slots : pc[s] = "auditing" => named[s] \in Grant

GrantInv ==
    TypeOK /\ GrantsAreGenuine /\ Unsent /\ RaisedApart /\ CallsAddressed /\ AuditsAsks

\* What a tenant has approved stays approved or revoked.
AsksAdvance == \A a \in Asks : Delivered(a) => Delivered(a)'

LEMMA NoneIsNoGrant == NoGrant \notin Grant
  BY NoneAssumption DEF Grant, NoGrant

LEMMA InitGrantInv == Init => GrantInv
  BY NoneIsNoGrant DEF Init, GrantInv, TypeOK, Handlers, GrantsAreGenuine, Genuine, Delivered,
         Unsent, RaisedApart, CallsAddressed, AuditsAsks, Raising

-----------------------------------------------------------------------------
(* Every action keeps the invariant.                                       *)

LEMMA StartKeeps ==
  ASSUME GrantInv, NEW s \in Slots, Start(s) PROVE GrantInv'
<1> USE DEF GrantInv
<1>1. PICK k \in Handlers, a \in Asks, t \in Tenants :
        /\ k = "raise" => t = TenantOf[a] /\ New(a)
        /\ Admitted(k)
        /\ kind' = [kind EXCEPT ![s] = k]
        /\ named' = [named EXCEPT ![s] = IF k \in {"raise", "poll"}
                                         THEN [ask |-> a, tenant |-> t] ELSE NoGrant]
        /\ \/ /\ k = "raise" /\ a \in AboveRole
              /\ traced' = traced \cup {a}
              /\ UNCHANGED pc
           \/ /\ ~(k = "raise" /\ a \in AboveRole)
              /\ Goto(s, "resolving")
              /\ UNCHANGED traced
  BY DEF Start
<1>2. /\ pc[s] = "idle" /\ cached' = [cached EXCEPT ![s] = held]
      /\ released' = [released EXCEPT ![s] = None]
      /\ UNCHANGED <<ask, listed, held, gateway>>
  BY DEF Start, tenantVars
<1>3. [ask |-> a, tenant |-> t] \in Grant /\ [ask |-> a, tenant |-> t] # NoGrant
  BY NoneIsNoGrant DEF Grant
<1>4. TypeOK'
  <2>1. traced' \subseteq Asks
    BY <1>1 DEF TypeOK
  <2>2. pc'[s] \in {"idle", "resolving"} /\ pc' \in [Slots -> {"idle", "resolving", "calling", "auditing", "persisting"}]
    BY <1>1, <1>2 DEF TypeOK, Goto
  <2>3. pc'[s] = "resolving" =>
          IF kind'[s] \in {"raise", "poll"} THEN named'[s] # NoGrant ELSE cached'[s] # NoGrant
    BY <1>1, <1>2, <1>3 DEF TypeOK, Admitted, Handlers
  <2>4. \A u \in Slots \ {s} : pc'[u] = pc[u] /\ kind'[u] = kind[u] /\ cached'[u] = cached[u] /\ named'[u] = named[u]
    BY <1>1, <1>2 DEF TypeOK, Goto
  <2>5. kind' \in [Slots -> Handlers] /\ named' \in [Slots -> Grant \cup {NoGrant}]
    BY <1>1, <1>3 DEF TypeOK
  <2> QED
    BY <1>2, <2>1, <2>2, <2>3, <2>4, <2>5 DEF TypeOK
<1>5. GrantsAreGenuine'
  BY <1>2 DEF GrantsAreGenuine, Genuine, Delivered, TypeOK
<1>6. Unsent'
  BY <1>1, <1>2 DEF Unsent, Raising, New, TypeOK, Goto
<1>7. RaisedApart'
  BY <1>1, <1>2 DEF RaisedApart, Raising, New, TypeOK, Goto
<1>8. CallsAddressed' /\ AuditsAsks'
  BY <1>1, <1>2 DEF CallsAddressed, AuditsAsks, Addressed, TypeOK, Goto
<1> QED
  BY <1>4, <1>5, <1>6, <1>7, <1>8

LEMMA ResolveKeeps ==
  ASSUME GrantInv, NEW s \in Slots, Resolve(s) PROVE GrantInv'
<1> USE DEF GrantInv
<1>1. /\ pc[s] = "resolving"
      /\ \/ /\ Addressed(s) \in listed
            /\ gateway' = [gateway EXCEPT ![s] = Addressed(s)]
            /\ pc' = [pc EXCEPT ![s] = "calling"]
         \/ /\ pc' = [pc EXCEPT ![s] = "idle"]
            /\ UNCHANGED gateway
      /\ UNCHANGED <<ask, listed, held, kind, cached, named, released, traced>>
  BY DEF Resolve, Goto, tenantVars
<1>2. TypeOK'
  BY <1>1 DEF TypeOK
<1>3. GrantsAreGenuine' /\ Unsent' /\ RaisedApart'
  BY <1>1 DEF GrantsAreGenuine, Genuine, Delivered, Unsent, RaisedApart, Raising, TypeOK
<1>4. CallsAddressed' /\ AuditsAsks'
  BY <1>1 DEF CallsAddressed, AuditsAsks, Addressed, TypeOK
<1> QED
  BY <1>2, <1>3, <1>4

LEMMA RaiseKeeps ==
  ASSUME GrantInv, NEW s \in Slots, Raise(s) PROVE GrantInv'
<1> USE DEF GrantInv
<1>1. /\ pc[s] = "calling" /\ kind[s] = "raise"
      /\ pc' = [pc EXCEPT ![s] = "auditing"]
      /\ ask' = [ask EXCEPT ![named[s].ask] = "pending"] \/ UNCHANGED ask
      /\ UNCHANGED <<listed, held, kind, cached, named, gateway, released, traced>>
  BY DEF Raise, Goto, AfterFailure
<1>2. named[s] \in Grant /\ named[s].ask \in Asks /\ ask[named[s].ask] = "unraised"
  BY <1>1 DEF TypeOK, Grant, Unsent, Raising
<1>3. TypeOK'
  BY <1>1 DEF TypeOK
<1>4. AsksAdvance
  BY <1>1, <1>2 DEF AsksAdvance, Delivered, TypeOK
<1>5. GrantsAreGenuine'
  BY <1>1, <1>4 DEF GrantsAreGenuine, Genuine, AsksAdvance, Grant, TypeOK
<1>6. Unsent'
  <2> SUFFICES ASSUME NEW u \in Slots, Raising(u)', pc'[u] \in {"resolving", "calling"}
               PROVE  ask'[named'[u].ask] = "unraised"
    BY DEF Unsent
  <2>1. u # s
    BY <1>1 DEF TypeOK
  <2>2. Raising(u) /\ pc[u] \in {"resolving", "calling"} /\ named'[u] = named[u]
    BY <1>1, <2>1 DEF Raising, TypeOK
  <2>3. named[u] \in Grant
    BY <2>2 DEF Raising, TypeOK
  <2>4. named[u].ask # named[s].ask /\ ask[named[u].ask] = "unraised"
    BY <1>1, <2>1, <2>2 DEF RaisedApart, Raising, Unsent
  <2> QED
    BY <1>1, <2>2, <2>3, <2>4 DEF Grant, TypeOK
<1>7. RaisedApart' /\ CallsAddressed' /\ AuditsAsks'
  BY <1>1, <1>2 DEF RaisedApart, Raising, CallsAddressed, AuditsAsks, Addressed, TypeOK
<1> QED
  BY <1>3, <1>5, <1>6, <1>7

LEMMA PollKeeps ==
  ASSUME GrantInv, NEW s \in Slots, Poll(s) PROVE GrantInv'
<1> USE DEF GrantInv
<1>1. /\ pc[s] = "calling" /\ kind[s] = "poll"
      /\ \/ pc' = [pc EXCEPT ![s] = "idle"] /\ UNCHANGED cached
         \/ /\ Delivers(s)
            /\ cached' = [cached EXCEPT ![s] = named[s]]
            /\ pc' = [pc EXCEPT ![s] = "persisting"]
      /\ UNCHANGED <<ask, listed, held, kind, named, gateway, released, traced>>
  BY DEF Poll, Goto, tenantVars
<1>2. TypeOK'
  BY <1>1 DEF TypeOK
<1>3. GrantsAreGenuine'
  <2>1. gateway[s] = named[s].tenant
    BY <1>1 DEF CallsAddressed, Addressed
  <2>2. Delivers(s) => Genuine(named[s])
    BY <2>1 DEF Delivers, Genuine, Delivered, Live
  <2> QED
    BY <1>1, <2>2 DEF GrantsAreGenuine, Genuine, Delivered, TypeOK
<1>4. Unsent' /\ RaisedApart' /\ CallsAddressed' /\ AuditsAsks'
  BY <1>1 DEF Unsent, RaisedApart, Raising, CallsAddressed, AuditsAsks, Addressed, TypeOK
<1> QED
  BY <1>2, <1>3, <1>4

LEMMA ReleaseKeeps ==
  ASSUME GrantInv, NEW s \in Slots, Release(s) PROVE GrantInv'
<1> USE DEF GrantInv
<1>1. /\ pc[s] = "calling" /\ kind[s] = "release"
      /\ \/ UNCHANGED ask
         \/ Live(cached[s].ask) /\ ask' = [ask EXCEPT ![cached[s].ask] = "revoked"]
      /\ \/ /\ released' = [released EXCEPT ![s] = cached[s].ask]
            /\ cached' = [cached EXCEPT ![s] = NoGrant]
            /\ pc' = [pc EXCEPT ![s] = "persisting"]
         \/ /\ pc' = [pc EXCEPT ![s] = "idle"]
            /\ UNCHANGED <<released, cached>>
      /\ UNCHANGED <<listed, held, kind, named, gateway, traced>>
  BY DEF Release, Goto
<1>2. cached[s] \in Grant
  BY <1>1 DEF TypeOK
<1>3. TypeOK'
  <2>1. ask' \in [Asks -> {"unraised", "pending", "approved", "rejected", "revoked"}]
    BY <1>1 DEF TypeOK
  <2>2. released' \in [Slots -> Asks \cup {None}] /\ cached' \in [Slots -> Grant \cup {NoGrant}]
    BY <1>1, <1>2 DEF TypeOK, Grant
  <2>3. /\ pc' \in [Slots -> {"idle", "resolving", "calling", "auditing", "persisting"}]
        /\ pc'[s] \notin {"resolving", "calling"}
        /\ \A u \in Slots \ {s} : pc'[u] = pc[u] /\ cached'[u] = cached[u]
    BY <1>1 DEF TypeOK
  <2> QED
    BY <1>1, <2>1, <2>2, <2>3 DEF TypeOK
<1>4. AsksAdvance
  BY <1>1 DEF AsksAdvance, Delivered, TypeOK
<1>5. GrantsAreGenuine'
  BY <1>1, <1>4 DEF GrantsAreGenuine, Genuine, AsksAdvance, Grant, TypeOK
<1>6. Unsent'
  <2>1. \A a \in Asks : ask[a] = "unraised" => ask'[a] = "unraised"
    BY <1>1 DEF Live, TypeOK
  <2> QED
    BY <1>1, <2>1 DEF Unsent, Raising, TypeOK, Grant
<1>7. RaisedApart' /\ CallsAddressed' /\ AuditsAsks'
  BY <1>1 DEF RaisedApart, Raising, CallsAddressed, AuditsAsks, Addressed, TypeOK
<1> QED
  BY <1>3, <1>5, <1>6, <1>7

LEMMA RelayKeeps ==
  ASSUME GrantInv, NEW s \in Slots, Relay(s) PROVE GrantInv'
<1> USE DEF GrantInv
<1>1. /\ pc[s] = "calling" /\ kind[s] = "relay"
      /\ \/ pc' = [pc EXCEPT ![s] = "idle"] /\ UNCHANGED cached
         \/ /\ cached' = [cached EXCEPT ![s] = NoGrant]
            /\ pc' = [pc EXCEPT ![s] = "persisting"]
      /\ UNCHANGED <<ask, listed, held, kind, named, gateway, released, traced>>
  BY DEF Relay, Goto, tenantVars
<1>2. TypeOK'
  BY <1>1 DEF TypeOK
<1>3. GrantsAreGenuine'
  BY <1>1 DEF GrantsAreGenuine, Genuine, Delivered, TypeOK
<1>4. Unsent' /\ RaisedApart' /\ CallsAddressed' /\ AuditsAsks'
  BY <1>1 DEF Unsent, RaisedApart, Raising, CallsAddressed, AuditsAsks, Addressed, TypeOK
<1> QED
  BY <1>2, <1>3, <1>4

\* Audit and Persist.
LEMMA EndingKeeps ==
  ASSUME GrantInv, NEW s \in Slots, Audit(s) \/ Persist(s) PROVE GrantInv'
<1> USE DEF GrantInv
<1>1. /\ pc' = [pc EXCEPT ![s] = "idle"]
      /\ \/ UNCHANGED traced
         \/ /\ pc[s] = "auditing"
            /\ traced' = traced \cup {named[s].ask}
      /\ held' \in {held, cached[s]}
      /\ UNCHANGED <<ask, listed, kind, cached, named, gateway, released>>
  BY DEF Audit, Persist, Goto, tenantVars
<1>2. GrantsAreGenuine'
  BY <1>1 DEF GrantsAreGenuine, Genuine, Delivered, TypeOK
<1>3. Unsent' /\ RaisedApart' /\ CallsAddressed' /\ AuditsAsks'
  BY <1>1 DEF Unsent, RaisedApart, Raising, CallsAddressed, AuditsAsks, Addressed, TypeOK
<1>4. TypeOK'
  BY <1>1 DEF TypeOK, AuditsAsks, Grant
<1> QED
  BY <1>2, <1>3, <1>4

\* The steps of the tenants.
LEMMA TenantsKeep ==
  ASSUME GrantInv,
         \/ \E a \in Asks : Decide(a) \/ Revoke(a)
         \/ \E t \in Tenants : Withdraw(t)
  PROVE  GrantInv'
<1> USE DEF GrantInv
<1>1. UNCHANGED <<held, pc, kind, cached, named, gateway, released, traced>>
  BY DEF Decide, Revoke, Withdraw, slotVars
<1>2. /\ ask' \in [Asks -> {"unraised", "pending", "approved", "rejected", "revoked"}]
      /\ AsksAdvance
      /\ \A a \in Asks : ask[a] = "unraised" => ask'[a] = "unraised"
  BY DEF Decide, Revoke, Withdraw, Live, AsksAdvance, Delivered, TypeOK
<1>3. listed' \subseteq Tenants
  BY DEF Decide, Revoke, Withdraw, TypeOK
<1>4. TypeOK'
  BY <1>1, <1>2, <1>3 DEF TypeOK
<1>5. GrantsAreGenuine'
  BY <1>1, <1>2 DEF GrantsAreGenuine, Genuine, AsksAdvance, Grant, TypeOK
<1>6. Unsent'
  BY <1>1, <1>2 DEF Unsent, Raising, Grant, TypeOK
<1>7. RaisedApart' /\ CallsAddressed' /\ AuditsAsks'
  BY <1>1 DEF RaisedApart, Raising, CallsAddressed, AuditsAsks, Addressed
<1> QED
  BY <1>4, <1>5, <1>6, <1>7

LEMMA StepGrantInv == GrantInv /\ [Next]_vars => GrantInv'
<1> SUFFICES ASSUME GrantInv, [Next]_vars PROVE GrantInv'
  OBVIOUS
<1>1. CASE \E s \in Slots : \/ Start(s) \/ Resolve(s) \/ Raise(s) \/ Audit(s)
                            \/ Poll(s) \/ Release(s) \/ Relay(s) \/ Persist(s)
  <2> HIDE DEF GrantInv
  <2> QED
    BY <1>1, StartKeeps, ResolveKeeps, RaiseKeeps, PollKeeps, ReleaseKeeps, RelayKeeps, EndingKeeps
<1>2. CASE \/ \E a \in Asks : Decide(a) \/ Revoke(a)
           \/ \E t \in Tenants : Withdraw(t)
  BY <1>2, TenantsKeep
<1>3. CASE UNCHANGED vars
  BY <1>3 DEF vars, tenantVars, slotVars, GrantInv, TypeOK, GrantsAreGenuine, Genuine, Delivered,
              Unsent, RaisedApart, Raising, CallsAddressed, AuditsAsks, Addressed
<1> QED
  BY <1>1, <1>2, <1>3 DEF Next

-----------------------------------------------------------------------------
(* Credentials.                                                            *)

\* A relayed call carries the credential of the tenant it goes to, for any
\* number of overlapping raises, polls, relays and releases.
THEOREM CredentialsGoHome == Spec => []CredentialGoesHome
<1>1. GrantInv => CredentialGoesHome
  BY DEF GrantInv, CredentialGoesHome, TypeOK, GrantsAreGenuine, Genuine, CallsAddressed,
         Addressed, Bearer
<1> QED
  BY <1>1, InitGrantInv, StepGrantInv, PTL DEF Spec

-----------------------------------------------------------------------------
(* The audit chain.                                                        *)

LEMMA StepTraced == GrantInv /\ AskedIsTraced /\ [Next]_vars => AskedIsTraced'
<1> SUFFICES ASSUME GrantInv, AskedIsTraced, [Next]_vars,
                    NEW a \in Asks, ask'[a] # "unraised"
             PROVE  a \in traced' \/ \E s \in Slots : pc'[s] = "auditing" /\ named'[s].ask = a
  BY DEF AskedIsTraced
<1> USE DEF GrantInv
<1>1. CASE ask[a] # "unraised"
  <2>1. traced \subseteq traced'
    BY DEF Next, Start, Resolve, Raise, Audit, Poll, Release, Relay, Persist, Decide, Revoke,
           Withdraw, vars
  <2>2. CASE a \in traced
    BY <2>1, <2>2
  <2>3. CASE a \notin traced
    <3>1. PICK s \in Slots : pc[s] = "auditing" /\ named[s].ask = a
      BY <1>1, <2>3 DEF AskedIsTraced
    <3>2. CASE Audit(s)
      BY <3>1, <3>2 DEF Audit
    <3>3. CASE ~Audit(s)
      <4>1. pc'[s] = "auditing" /\ named'[s] = named[s]
        BY <3>1, <3>3 DEF Next, Start, Resolve, Raise, Audit, Poll, Release, Relay, Persist,
           Decide, Revoke, Withdraw, vars, slotVars, Goto, TypeOK
      <4> QED
        BY <3>1, <4>1
    <3> QED
      BY <3>2, <3>3
  <2> QED
    BY <2>2, <2>3
<1>2. CASE ask[a] = "unraised"
  <2>1. PICK s \in Slots : Raise(s) /\ a = named[s].ask
    BY <1>2 DEF Next, Start, Resolve, Raise, Audit, Poll, Release, Relay, Persist, Live,
       Decide, Revoke, Withdraw, vars, tenantVars, TypeOK
  <2>2. pc'[s] = "auditing" /\ named' = named
    BY <2>1 DEF Raise, Goto, AfterFailure, TypeOK
  <2> QED
    BY <2>1, <2>2
<1> QED
  BY <1>1, <1>2

\* What reached a tenant is in the chain, or about to be put there, whatever
\* call failed or lost its answer.
THEOREM AsksAreTraced == Spec => []AskedIsTraced
<1>1. Init => AskedIsTraced
  BY DEF Init, AskedIsTraced
<1> QED
  BY <1>1, InitGrantInv, StepGrantInv, StepTraced, PTL DEF Spec

-----------------------------------------------------------------------------
(* Releases.                                                               *)

ReleasedInv == \A s \in Slots : released[s] # None => ask[released[s]] = "revoked"

LEMMA StepReleased ==
  ASSUME RefusedRevokes = FALSE
  PROVE  GrantInv /\ ReleasedInv /\ [Next]_vars => ReleasedInv'
<1> SUFFICES ASSUME GrantInv, ReleasedInv, [Next]_vars PROVE ReleasedInv'
  OBVIOUS
<1> USE DEF GrantInv
<1>1. \A a \in Asks : ask[a] = "revoked" => ask'[a] = "revoked"
  <2>1. ASSUME NEW s \in Slots, Raise(s)
        PROVE  ask' = [ask EXCEPT ![named[s].ask] = "pending"] \/ ask' = ask
    BY <2>1 DEF Raise
  <2>2. ASSUME NEW s \in Slots, Raise(s) PROVE ask[named[s].ask] = "unraised"
    BY <2>2 DEF Raise, Unsent, Raising
  <2> QED
    BY <2>1, <2>2 DEF Next, Start, Resolve, Audit, Poll, Release, Relay, Persist, Live,
       Decide, Revoke, Withdraw, vars, tenantVars, TypeOK
<1>2. CASE UNCHANGED released
  BY <1>1, <1>2 DEF ReleasedInv, TypeOK
<1>3. ASSUME NEW s \in Slots, Start(s) PROVE ReleasedInv'
  BY <1>1, <1>3 DEF Start, ReleasedInv, TypeOK
<1>4. ASSUME NEW s \in Slots, Release(s) PROVE ReleasedInv'
  <2>1. cached[s] \in Grant /\ Delivered(cached[s].ask)
    BY <1>4 DEF Release, TypeOK, GrantsAreGenuine, Genuine
  <2>2. released' # released => ask'[cached[s].ask] = "revoked"
    BY <1>4, <2>1 DEF Release, Swallowed, Live, Delivered, Grant, TypeOK
  <2>3. released' = [released EXCEPT ![s] = cached[s].ask] \/ released' = released
    BY <1>4 DEF Release
  <2> QED
    BY <1>1, <2>2, <2>3 DEF ReleasedInv, TypeOK
<1> QED
  BY <1>2, <1>3, <1>4 DEF Next, Resolve, Raise, Audit, Poll, Relay, Persist,
     Decide, Revoke, Withdraw, vars, slotVars

\* Where gateways answer a revoke truthfully, what was reported as released has
\* ended at its tenant.
THEOREM ReleasesRevoke ==
  ASSUME RefusedRevokes = FALSE
  PROVE  Spec => []ReleasedIsRevoked
<1>1. Init => ReleasedInv
  BY DEF Init, ReleasedInv
<1>2. ReleasedInv => ReleasedIsRevoked
  BY DEF ReleasedInv, ReleasedIsRevoked, Live
<1>3. GrantInv /\ ReleasedInv /\ [Next]_vars => ReleasedInv'
  BY StepReleased
<1> QED
  BY <1>1, <1>2, <1>3, InitGrantInv, StepGrantInv, PTL DEF Spec
=============================================================================
