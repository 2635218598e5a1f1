---------------------------- MODULE SupportGrant ----------------------------
(***************************************************************************)
(* The delegated support grant of one provider session (routers/           *)
(* provider.py, relay.py, security.py): an operator raises a request at a  *)
(* tenant's gateway, polls it, holds the credential the tenant minted on   *)
(* the session, relays with it, and releases it.                           *)
(*                                                                         *)
(* A slot is one request the browser has in flight; a slot whose request   *)
(* is answered is used again, so Next allows any sequence of requests.     *)
(* Each await is a step boundary.  All that _persist_session does under    *)
(* the session's lock is one SET, so it is one step here.                  *)
(***************************************************************************)
EXTENDS Naturals, FiniteSets

CONSTANTS
    Slots,          \* the requests in flight at a time
    Tenants,        \* the estate
    Asks,           \* support requests that can be raised
    None,
    TenantOf,       \* the tenant each of the asks is raised at
    AboveRole,      \* the asks that name scopes above the operator's role
    RefusedRevokes  \* BOOLEAN: may a gateway answer a DELETE with an error

ASSUME TenantOfAssumption == TenantOf \in [Asks -> Tenants]
ASSUME AboveAssumption == AboveRole \subseteq Asks
ASSUME NoneAssumption == None \notin Asks \cup Tenants
ASSUME RefusedAssumption == RefusedRevokes \in BOOLEAN

VARIABLES
    ask,        \* what each tenant's gateway says of each ask
    listed,     \* the tenants the directory names
    held,       \* support_grant of the stored session
    pc, kind,   \* where each slot is, and in which handler
    cached,     \* support_grant of the request's copy of the session
    named,      \* the ask and the tenant a raise or a poll names
    gateway,    \* the tenant whose gateway client the request resolved
    released,   \* the grant the last release of the slot reported released
    traced      \* the asks whose raise is in the provider's audit chain

tenantVars == <<ask, listed>>
slotVars == <<pc, kind, cached, named, gateway, released>>
vars == <<tenantVars, held, slotVars, traced>>

\* A delivered credential: the grant and the tenant it was polled from.
Grant == [ask : Asks, tenant : Tenants]
NoGrant == [ask |-> None, tenant |-> None]

Handlers == {"raise", "poll", "relay", "release"}

Init ==
    /\ ask = [a \in Asks |-> "unraised"]
    /\ listed = Tenants
    /\ held = NoGrant
    /\ pc = [s \in Slots |-> "idle"]
    /\ kind \in [Slots -> {"relay"}]
    /\ cached = [s \in Slots |-> NoGrant]
    /\ named = [s \in Slots |-> NoGrant]
    /\ gateway = [s \in Slots |-> None]
    /\ released = [s \in Slots |-> None]
    /\ traced = {}

Goto(s, location) == pc' = [pc EXCEPT ![s] = location]
Live(a) == ask[a] = "approved"

\* No raise has been made for this ask: every raise is another ask.
New(a) ==
    /\ ask[a] = "unraised" /\ a \notin traced
    /\ \A s \in Slots : kind[s] = "raise" /\ pc[s] # "idle" => named[s].ask # a

-----------------------------------------------------------------------------
(* The start of a request.                                                 *)

Admitted(handler) == handler \in {"relay", "release"} => held # NoGrant

\* The dependency loads the session.  A raise above the role is refused,
\* and audited, before the tenant is resolved; a relay without a grant is
\* refused; a release without one has nothing to do.
Start(s) ==
    /\ pc[s] = "idle"
    /\ cached' = [cached EXCEPT ![s] = held]
    /\ released' = [released EXCEPT ![s] = None]
    /\ \E k \in Handlers, a \in Asks, t \in Tenants :
          /\ k = "raise" => t = TenantOf[a] /\ New(a)
          /\ Admitted(k)
          /\ kind' = [kind EXCEPT ![s] = k]
          /\ named' = [named EXCEPT ![s] = IF k \in {"raise", "poll"}
                                           THEN [ask |-> a, tenant |-> t] ELSE NoGrant]
          /\ \/ /\ k = "raise" /\ a \in AboveRole
                /\ traced' = traced \cup {a}
                /\ UNCHANGED pc
             \/ /\ ~(k = "raise" /\ a \in AboveRole)
                /\ Goto(s, "resolving")
                /\ UNCHANGED traced
    /\ UNCHANGED <<tenantVars, held, gateway>>

\* The tenant whose gateway a handler asks the pool for.
Addressed(s) == IF kind[s] \in {"raise", "poll"} THEN named[s].tenant ELSE cached[s].tenant

\* gateway_pool.get: 404 (500 for a relay) for a tenant that is not listed,
\* 503 when its credential cannot be fetched.
Resolve(s) ==
    /\ pc[s] = "resolving"
    /\ \/ /\ Addressed(s) \in listed
          /\ gateway' = [gateway EXCEPT ![s] = Addressed(s)]
          /\ Goto(s, "calling")
       \/ /\ Goto(s, "idle")
          /\ UNCHANGED gateway
    /\ UNCHANGED <<tenantVars, held, kind, cached, named, released, traced>>

-----------------------------------------------------------------------------
(* raise_support_request.                                                  *)

AfterFailureMutant == "idle"
AfterFailure == "auditing"

\* The POST: the request is accepted or refused, or the transport fails
\* before or after the gateway has taken it.  A failure is audited as well.
Raise(s) ==
    /\ pc[s] = "calling" /\ kind[s] = "raise"
    /\ \E accepted, answered \in BOOLEAN :
          /\ ask' = IF accepted THEN [ask EXCEPT ![named[s].ask] = "pending"] ELSE ask
          /\ Goto(s, IF answered THEN "auditing" ELSE AfterFailure)
    /\ UNCHANGED <<listed, held, kind, cached, named, gateway, released, traced>>

Audit(s) ==
    /\ pc[s] = "auditing"
    /\ traced' = traced \cup {named[s].ask}
    /\ Goto(s, "idle")
    /\ UNCHANGED <<tenantVars, held, kind, cached, named, gateway, released>>

-----------------------------------------------------------------------------
(* poll_support_request.                                                   *)

\* A gateway answers for its own asks only.
Delivers(s) == gateway[s] = TenantOf[named[s].ask] /\ Live(named[s].ask)

\* An approved ask with its
\* credential is put on the request's copy of the session.
Poll(s) ==
    /\ pc[s] = "calling" /\ kind[s] = "poll"
    /\ \/ /\ Goto(s, "idle")
          /\ UNCHANGED cached
       \/ /\ Delivers(s)
          /\ cached' = [cached EXCEPT ![s] = named[s]]
          /\ Goto(s, "persisting")
    /\ UNCHANGED <<tenantVars, held, kind, named, gateway, released, traced>>

-----------------------------------------------------------------------------
(* release_support_grant.                                                  *)

SwallowedMutant == TRUE
Swallowed == FALSE

\* The DELETE.  Whatever the gateway answers counts as released; only a
\* transport failure (503, not swallowed) leaves the session's copy in place.
Release(s) ==
    /\ pc[s] = "calling" /\ kind[s] = "release"
    /\ \E revoked, answered \in BOOLEAN :
          /\ answered => revoked \/ RefusedRevokes \/ ~Live(cached[s].ask)
          /\ ask' = IF revoked /\ Live(cached[s].ask)
                    THEN [ask EXCEPT ![cached[s].ask] = "revoked"] ELSE ask
          /\ IF answered \/ Swallowed
             THEN /\ released' = [released EXCEPT ![s] = cached[s].ask]
                  /\ cached' = [cached EXCEPT ![s] = NoGrant]
                  /\ Goto(s, "persisting")
             ELSE /\ Goto(s, "idle")
                  /\ UNCHANGED <<released, cached>>
    /\ UNCHANGED <<listed, held, kind, named, gateway, traced>>

-----------------------------------------------------------------------------
(* relay_get and relay_request with a grant.                               *)

BearerMutant(s) == held
Bearer(s) == cached[s]

Refused(s) == ~Live(Bearer(s).ask)

\* The gateway checks the credential on every call; a 401 drops the grant
\* from the request's copy (there is nothing to refresh on this plane).
Relay(s) ==
    /\ pc[s] = "calling" /\ kind[s] = "relay"
    /\ \/ /\ Goto(s, "idle")
          /\ UNCHANGED cached
       \/ /\ Refused(s)
          /\ cached' = [cached EXCEPT ![s] = NoGrant]
          /\ Goto(s, "persisting")
    /\ UNCHANGED <<tenantVars, held, kind, named, gateway, released, traced>>

\* _persist_session writes the request's copy over the stored session.
Persist(s) ==
    /\ pc[s] = "persisting"
    /\ held' = cached[s]
    /\ Goto(s, "idle")
    /\ UNCHANGED <<tenantVars, kind, cached, named, gateway, released, traced>>

-----------------------------------------------------------------------------
(* The tenants: an admin decides, revokes, a grant expires, a tenant is    *)
(* withdrawn from the estate.                                              *)

Decide(a) ==
    /\ ask[a] = "pending"
    /\ \E verdict \in {"approved", "rejected"} : ask' = [ask EXCEPT ![a] = verdict]
    /\ UNCHANGED <<listed, held, slotVars, traced>>

Revoke(a) ==
    /\ Live(a)
    /\ ask' = [ask EXCEPT ![a] = "revoked"]
    /\ UNCHANGED <<listed, held, slotVars, traced>>

Withdraw(t) ==
    /\ t \in listed
    /\ listed' = listed \ {t}
    /\ UNCHANGED <<ask, held, slotVars, traced>>

Next ==
    \/ \E s \in Slots : \/ Start(s) \/ Resolve(s) \/ Raise(s) \/ Audit(s)
                        \/ Poll(s) \/ Release(s) \/ Relay(s) \/ Persist(s)
    \/ \E a \in Asks : Decide(a) \/ Revoke(a)
    \/ \E t \in Tenants : Withdraw(t)

Spec == Init /\ [][Next]_vars
-----------------------------------------------------------------------------
(* Properties.                                                             *)

TypeOK ==
    /\ ask \in [Asks -> {"unraised", "pending", "approved", "rejected", "revoked"}]
    /\ listed \subseteq Tenants
    /\ held \in Grant \cup {NoGrant}
    /\ pc \in [Slots -> {"idle", "resolving", "calling", "auditing", "persisting"}]
    /\ kind \in [Slots -> Handlers]
    /\ cached \in [Slots -> Grant \cup {NoGrant}]
    /\ named \in [Slots -> Grant \cup {NoGrant}]
    /\ gateway \in [Slots -> Tenants \cup {None}]
    /\ released \in [Slots -> Asks \cup {None}]
    /\ traced \subseteq Asks
    \* a handler that needs a grant runs with one
    /\ \A s \in Slots : pc[s] \in {"resolving", "calling"} =>
          IF kind[s] \in {"raise", "poll"} THEN named[s] # NoGrant ELSE cached[s] # NoGrant

\* A relayed call never carries one tenant's credential to another tenant's
\* gateway, however polls for several tenants overlap with it ("sending a
\* tenant-scoped credential to it would reach the wrong backend outright").
\* The type invariant is part of it: who relays has a credential at all.
CredentialGoesHome ==
    TypeOK /\ \A s \in Slots : pc[s] = "calling" /\ kind[s] = "relay"
                                => Bearer(s) # NoGrant /\ gateway[s] = TenantOf[Bearer(s).ask]

\* A release that reports a grant as released has ended it at the tenant
\* ("Only report a grant as released once the revoke was actually sent").
ReleasedIsRevoked == \A s \in Slots : released[s] # None => ~Live(released[s])

\* A request that reached a tenant is in the provider's audit chain, or its
\* raise is about to put it there, even when the answer was lost.
AskedIsTraced ==
    \A a \in Asks : ask[a] # "unraised" =>
        a \in traced \/ \E s \in Slots : pc[s] = "auditing" /\ named[s].ask = a

-----------------------------------------------------------------------------
(* What the texts promise and the code does not keep in general (README).  *)

\* The session loses its grant only when the tenant has ended it, by a
\* release or a 401: "a refusal here means it is genuinely gone".
LiveGrantIsKept == [][held # NoGrant /\ held' = NoGrant => ~Live(held.ask)]_vars

\* Every raise that was answered, with whatever status, left a trace ("An
\* attempt an operator made and an attempt they never made must not look
\* identical afterwards").
EveryRaiseIsTraced ==
    \A s \in Slots : pc[s] = "idle" /\ kind[s] = "raise" => named[s].ask \in traced
=============================================================================
