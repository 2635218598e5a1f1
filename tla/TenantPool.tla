----------------------------- MODULE TenantPool -----------------------------
(***************************************************************************)
(* How the provider console knows one tenant and reaches its gateway:      *)
(* the directory of each replica, refreshed from the catalog, and the pool *)
(* of gateway clients built from it (tenant_directory.py, gateway_pool.py) *)
(* with the handlers that use them: list_tenants, the pool's get, and the  *)
(* last steps of redeem, which record a new enrolment.                     *)
(*                                                                         *)
(* Every enrolment of the tenant may move its gateway and then records a   *)
(* new gateway credential; the address and the credential are named by the *)
(* number of the POST /tenants that enrolled it.  The address is recorded  *)
(* by that POST and the credential by a PUT some awaits later, so that     *)
(* redemptions cross.  A slot is a request in flight, used again when it   *)
(* is answered.                                                            *)
(***************************************************************************)
EXTENDS Integers

CONSTANTS
    Replicas,
    Slots,
    MaxEpoch,   \* bound: how often the catalog's listing changes
    Nowhere     \* no replica

ASSUME MaxEpochAssumption == MaxEpoch \in Nat
ASSUME NowhereAssumption == Nowhere \notin Replicas

VARIABLES
    row,        \* the tenant's entry in the catalog's listing
    key,        \* the gateway credential the catalog has for it, 0 if none
    beside,     \* history: the address beside which each was recorded
    listed,     \* the entry each replica's directory took over
    stale,      \* the directory's _last_refresh_failed
    client,     \* the client in each replica's pool
    open,       \* how many clients the replica has built and not closed
    pc, at,     \* each slot's place and replica
    seen,       \* the entry the slot's handler works with
    fetched,    \* the credential the catalog answered
    begun,      \* the epoch at which the slot's refresh was sent
    asOf,       \* for each replica, the latest begun of a finished refresh
    recorded    \* for each replica, the enrolment last redeemed there

catalogVars == <<row, key, beside>>
replicaVars == <<listed, stale, client, open, asOf, recorded>>
slotVars == <<pc, at, seen, fetched, begun>>
vars == <<catalogVars, replicaVars, slotVars>>

\* Address 0: the tenant is not enrolled.
Row == [epoch : 0 .. MaxEpoch, address : 0 .. MaxEpoch]
NoRow == [epoch |-> 0, address |-> 0]

Client == [address : 1 .. MaxEpoch, credential : 1 .. MaxEpoch]
NoClient == [address |-> 0, credential |-> 0]

Init ==
    /\ row = NoRow
    /\ key = 0
    /\ beside = [n \in 1 .. MaxEpoch |-> 0]
    /\ listed = [p \in Replicas |-> NoRow]
    /\ stale = [p \in Replicas |-> FALSE]
    /\ client = [p \in Replicas |-> NoClient]
    /\ open = [p \in Replicas |-> 0]
    /\ pc = [s \in Slots |-> "idle"]
    /\ at = [s \in Slots |-> Nowhere]
    /\ seen = [s \in Slots |-> NoRow]
    /\ fetched = [s \in Slots |-> 0]
    /\ begun = [s \in Slots |-> 0]
    /\ asOf = [p \in Replicas |-> 0]
    /\ recorded = [p \in Replicas |-> 0]

Goto(s, location) == pc' = [pc EXCEPT ![s] = location]

-----------------------------------------------------------------------------
(* TenantGatewayPool.get.                                                  *)

\* The first contact, which asks for the credential.  An unlisted tenant (a
\* KeyError) and a cached client change nothing.
Get(s, p) ==
    /\ pc[s] = "idle"
    /\ listed[p].address # 0 /\ client[p] = NoClient
    /\ at' = [at EXCEPT ![s] = p]
    /\ seen' = [seen EXCEPT ![s] = listed[p]]
    /\ Goto(s, "fetching")
    /\ UNCHANGED <<catalogVars, replicaVars, fetched, begun>>

WhenUnanswered == "idle"

\* The catalog answers with the credential it has now, or not (the caller
\* gets TenantUnreachable and nothing is cached).
AnswerCredential(s) ==
    /\ pc[s] = "fetching"
    /\ \/ /\ key # 0
          /\ fetched' = [fetched EXCEPT ![s] = key]
          /\ Goto(s, "building")
       \/ /\ Goto(s, WhenUnanswered)
          /\ UNCHANGED fetched
    /\ UNCHANGED <<catalogVars, replicaVars, at, seen, begun>>

\* The client as if the entry were read after the credential was awaited.
ReadLateMutant(s) == [address |-> listed[at[s]].address, credential |-> fetched[s]]
Built(s) == [address |-> seen[s].address, credential |-> fetched[s]]

\* The answer arrives: the client is built from the entry read before the
\* await and put in the pool, whatever the pool holds by now.
Build(s) ==
    /\ pc[s] = "building"
    /\ client' = [client EXCEPT ![at[s]] = Built(s)]
    /\ open' = [open EXCEPT ![at[s]] = @ + 1]
    /\ Goto(s, "idle")
    /\ UNCHANGED <<catalogVars, listed, stale, asOf, recorded,
                   at, seen, fetched, begun>>

-----------------------------------------------------------------------------
(* TenantDirectory.refresh, for list_tenants and at the end of redeem.     *)

List(s, p) ==
    /\ pc[s] = "idle"
    /\ at' = [at EXCEPT ![s] = p]
    /\ begun' = [begun EXCEPT ![s] = row.epoch]
    /\ Goto(s, "listing")
    /\ UNCHANGED <<catalogVars, replicaVars, seen, fetched>>

AnswerList(s) ==
    /\ pc[s] = "listing"
    /\ seen' = [seen EXCEPT ![s] = row]
    /\ Goto(s, "listed")
    /\ UNCHANGED <<catalogVars, replicaVars, at, fetched, begun>>

\* The enrolled set is replaced wholesale.
Refreshed(s) ==
    /\ pc[s] = "listed"
    /\ listed' = [listed EXCEPT ![at[s]] = seen[s]]
    /\ stale' = [stale EXCEPT ![at[s]] = FALSE]
    /\ asOf' = [asOf EXCEPT ![at[s]] = begun[s]]
    /\ Goto(s, "idle")
    /\ UNCHANGED <<catalogVars, client, open, recorded, at, seen, fetched, begun>>

StandsSilentlyMutant(p) == UNCHANGED <<listed, stale>>
\* The last known estate stands, and is said to be stale.
Failed(p) ==
    /\ stale' = [stale EXCEPT ![p] = TRUE]
    /\ UNCHANGED listed

\* An answer that names no list of tenants raises outside the try: the
\* request ends, and the directory says nothing of it.
RefreshRaises(s) ==
    /\ pc[s] = "listing"
    /\ Goto(s, "idle")
    /\ UNCHANGED <<catalogVars, replicaVars, at, seen, fetched, begun>>

RefreshFails(s) ==
    /\ pc[s] \in {"listing", "listed"}
    /\ Failed(at[s])
    /\ asOf' = [asOf EXCEPT ![at[s]] = begun[s]]
    /\ Goto(s, "idle")
    /\ UNCHANGED <<catalogVars, client, open, recorded, at, seen, fetched, begun>>

-----------------------------------------------------------------------------
(* redeem, as far as the catalog and this replica see it.                  *)

\* POST /tenants: the tenant is listed under a new address, and has no
\* credential until the redemption has brought one.
Redeem(s, p) ==
    /\ pc[s] = "idle"
    /\ row.epoch < MaxEpoch
    /\ row' = [epoch |-> row.epoch + 1, address |-> row.epoch + 1]
    /\ key' = 0
    /\ at' = [at EXCEPT ![s] = p]
    /\ seen' = [seen EXCEPT ![s] = row']
    /\ Goto(s, "recording")
    /\ UNCHANGED <<beside, replicaVars, fetched, begun>>

\* PUT gateway-credential, for whatever entry the catalog has by now; the
\* answer may be lost, which ends the attempt.
Record(s) ==
    /\ pc[s] = "recording"
    /\ row.address # 0
    /\ key' = seen[s].address
    /\ beside' = [beside EXCEPT ![seen[s].address] = row.address]
    /\ Goto(s, "invalidating") \/ Goto(s, "idle")
    /\ UNCHANGED <<row, replicaVars, at, seen, fetched, begun>>

Withdrawn ==
    /\ row.address # 0
    /\ row.epoch < MaxEpoch
    /\ row' = [epoch |-> row.epoch + 1, address |-> 0]
    /\ key' = 0
    /\ UNCHANGED beside

\* The attempt ends before the PUT is processed: with the withdrawal that
\* compensates, or without one (unrecorded, or an exception).
Abandon(s) ==
    /\ pc[s] = "recording"
    /\ Withdrawn \/ UNCHANGED catalogVars
    /\ Goto(s, "idle")
    /\ UNCHANGED <<replicaVars, at, seen, fetched, begun>>

\* The cached client is dropped, not closed.
Invalidated(p) == client' = [client EXCEPT ![p] = NoClient]

Invalidate(s) ==
    /\ pc[s] = "invalidating"
    /\ Invalidated(at[s])
    /\ recorded' = [recorded EXCEPT ![at[s]] = seen[s].address]
    /\ begun' = [begun EXCEPT ![s] = row.epoch]
    /\ Goto(s, "listing")
    /\ UNCHANGED <<catalogVars, listed, stale, open, asOf, at, seen, fetched>>

-----------------------------------------------------------------------------
\* The tenant is withdrawn by someone else.
Withdraw == Withdrawn /\ UNCHANGED <<replicaVars, slotVars>>

\* A replica restarts: directory and pool start empty, its requests die.
Restart(p) ==
    /\ listed' = [listed EXCEPT ![p] = NoRow]
    /\ stale' = [stale EXCEPT ![p] = FALSE]
    /\ client' = [client EXCEPT ![p] = NoClient]
    /\ open' = [open EXCEPT ![p] = 0]
    /\ asOf' = [asOf EXCEPT ![p] = 0]
    /\ recorded' = [recorded EXCEPT ![p] = 0]
    /\ pc' = [s \in Slots |-> IF at[s] = p THEN "idle" ELSE pc[s]]
    /\ UNCHANGED <<catalogVars, at, seen, fetched, begun>>

Next ==
    \/ \E s \in Slots :
         \/ \E p \in Replicas : Get(s, p) \/ List(s, p) \/ Redeem(s, p)
         \/ AnswerCredential(s) \/ Build(s)
         \/ AnswerList(s) \/ Refreshed(s) \/ RefreshFails(s) \/ RefreshRaises(s)
         \/ Record(s) \/ Abandon(s) \/ Invalidate(s)
    \/ Withdraw
    \/ \E p \in Replicas : Restart(p)

Spec == Init /\ [][Next]_vars
-----------------------------------------------------------------------------
(* Properties.                                                             *)

TypeOK ==
    /\ row \in Row
    /\ key \in 0 .. MaxEpoch
    /\ beside \in [1 .. MaxEpoch -> 0 .. MaxEpoch]
    /\ listed \in [Replicas -> Row]
    /\ stale \in [Replicas -> BOOLEAN]
    /\ client \in [Replicas -> Client \cup {NoClient}]
    /\ open \in [Replicas -> Nat]
    /\ pc \in [Slots -> {"idle", "fetching", "building", "listing", "listed",
                       "recording", "invalidating"}]
    /\ at \in [Slots -> Replicas \cup {Nowhere}]
    /\ \A s \in Slots : pc[s] # "idle" => at[s] # Nowhere
    /\ seen \in [Slots -> Row]
    /\ fetched \in [Slots -> 0 .. MaxEpoch]
    /\ begun \in [Slots -> 0 .. MaxEpoch]
    /\ asOf \in [Replicas -> 0 .. MaxEpoch]
    /\ recorded \in [Replicas -> 0 .. MaxEpoch]

\* However gets, refreshes, enrolments and withdrawals overlap, a client
\* never presents its credential at an address newer than the one the
\* catalog recorded it beside: the pool makes no pair older than the
\* catalog's own, which redemptions that cross can make.
CredentialFollowsCatalog ==
    TypeOK /\ \A p \in Replicas :
        client[p] # NoClient => beside[client[p].credential] >= client[p].address

\* A directory that does not call itself stale shows the catalog as it was
\* no earlier than when the last refresh it answered was sent ("so the console can say
\* it is showing the last known estate rather than presenting it as current").
StaleIsHonest ==
    \A p \in Replicas : ~stale[p] => listed[p].epoch >= asOf[p]

-----------------------------------------------------------------------------
(* What the texts promise and the code does not keep in general (README).  *)

\* A client never presents a credential of an earlier enrolment at the
\* address of a later one ("re-enrolment issues a new one, and a cached
\* client would keep presenting the old").
CredentialNotOlderThanAddress ==
    \A p \in Replicas : client[p].credential >= client[p].address

\* After an enrolment has been redeemed on a replica, its pool never holds a
\* client with an earlier credential ("Drop the cached client for one tenant,
\* so the next contact rebuilds it").
PoolFollowsRedeem ==
    \A p \in Replicas :
        client[p] # NoClient => client[p].credential >= recorded[p]

\* The same for an enrolment redeemed on any replica.
PoolFollowsEveryRedeem ==
    \A p, q \in Replicas :
        client[p] # NoClient => client[p].credential >= recorded[q]

\* The estate a replica shows never goes back to an earlier one ("a tenant
\* enrolled or withdrawn a minute ago has to be right here").
EstateAdvances ==
    [][\A p \in Replicas :
          listed'[p] # NoRow => listed'[p].epoch >= listed[p].epoch]_vars

\* Every client that was built can still be closed by aclose, which closes
\* those in the pool ("Closing the stale client is left to `aclose()`").
OpenClientsAreInThePool ==
    \A p \in Replicas : open[p] <= (IF client[p] = NoClient THEN 0 ELSE 1)
=============================================================================
