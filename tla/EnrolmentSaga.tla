--------------------------- MODULE EnrolmentSaga ---------------------------
(***************************************************************************)
(* Redeeming tenants' invitations (routers/enrolment.py, redeem): a saga   *)
(* over two services, the provider's catalog and the tenant's gateway.     *)
(* The attempt records the tenant and mints its catalog credential,        *)
(* redeems the invitation at the gateway, verifies whose gateway it was    *)
(* and records the credential the gateway returned; failures before that   *)
(* compensate by withdrawing the tenant from the catalog, but for the      *)
(* exceptions the handler does not catch (a gateway address that is no     *)
(* URL, an answer that cannot be read), which end it where it stands.      *)
(*                                                                         *)
(* An attempt's credentials are named after it.  A call to the catalog     *)
(* may fail before it is processed, or, for the calls in Lossy, after.     *)
(***************************************************************************)
EXTENDS Naturals, FiniteSets

CONSTANTS
    Attempts,
    Tenants,
    None,
    NamedTenant,    \* the tenant id the operator typed for an attempt
    GatewayOf,      \* the tenant whose gateway the attempt's URL names
    MaxActive,      \* how many attempts run at a time
    Lossy           \* the catalog calls that may fail ("withdraw", "record")
                    \* or whose answer may be lost ("enrol")

ASSUME AttemptsAssumption == None \notin Attempts
ASSUME TenantsAssumption ==
    NamedTenant \in [Attempts -> Tenants] /\ GatewayOf \in [Attempts -> Tenants]
ASSUME LossyAssumption == Lossy \subseteq {"enrol", "withdraw", "record"}
ASSUME MaxActiveAssumption == MaxActive \in Nat

VARIABLES
    row,        \* the catalog's registry: the attempt that recorded a tenant
    gatewayKey, \* the gateway credential in the registry, by its attempt
    minted,     \* the attempts whose catalog credential is valid
    enrolled,   \* what each tenant's gateway is enrolled with
    pc,         \* where each attempt is
    failure,    \* how an attempt that compensates will end
    adrift      \* history: the attempts whose enrolment's answer or whose
                \* withdrawal was lost, their tenant not withdrawn since

catalogVars == <<row, gatewayKey, minted, adrift>>
vars == <<catalogVars, enrolled, pc, failure>>

Failures == {"unreachable", "refused", "mismatch"}
Ended == {"notEnrolled", "incomplete", "success", "raised", "crashed"} \cup Failures

Init ==
    /\ row = [t \in Tenants |-> None]
    /\ gatewayKey = [t \in Tenants |-> None]
    /\ minted = {}
    /\ enrolled = [t \in Tenants |-> None]
    /\ pc = [a \in Attempts |-> "start"]
    /\ failure = [a \in Attempts |-> "none"]
    /\ adrift = {}

Goto(a, location) == pc' = [pc EXCEPT ![a] = location]

Active(a) == pc[a] \notin Ended \cup {"start"}

-----------------------------------------------------------------------------
(* The catalog.                                                            *)

\* POST /tenants, one transaction: the registry entry and a new credential.
Enrols(a) ==
    /\ row' = [row EXCEPT ![NamedTenant[a]] = a]
    /\ gatewayKey' = [gatewayKey EXCEPT ![NamedTenant[a]] = None]
    /\ minted' = minted \cup {a}

\* DELETE /tenants/{id}, one transaction: the entry goes and every
\* credential of the tenant is revoked.
Withdraws(t) ==
    /\ row' = [row EXCEPT ![t] = None]
    /\ gatewayKey' = [gatewayKey EXCEPT ![t] = None]
    /\ minted' = {b \in minted : NamedTenant[b] # t}
    /\ adrift' = {b \in adrift : NamedTenant[b] # t}

-----------------------------------------------------------------------------
(* The handler.                                                            *)

\* Step 1.  Anything but a 201 ends the attempt without compensation, and so
\* does a 201 that does not hold the credential, which raises.
Enrol(a) ==
    /\ pc[a] = "start"
    /\ Cardinality({b \in Attempts : Active(b)}) < MaxActive
    /\ \/ /\ Enrols(a)
          /\ Goto(a, "redeem") \/ Goto(a, "raised")
          /\ UNCHANGED adrift
       \/ /\ "enrol" \in Lossy
          /\ Enrols(a)
          /\ Goto(a, "notEnrolled")
          /\ adrift' = adrift \cup {a}
       \/ /\ Goto(a, "notEnrolled")
          /\ UNCHANGED catalogVars
    /\ UNCHANGED <<enrolled, failure>>

NoCompensationMutant(a, how) ==
    /\ Goto(a, how)
    /\ UNCHANGED failure
Compensate(a, how) ==
    /\ Goto(a, "withdraw")
    /\ failure' = [failure EXCEPT ![a] = how]

\* Step 2.  The gateway takes the invitation, refuses it, or cannot be
\* reached, before or after it took it.  An address that is no URL raises
\* before anything is sent, an answer that is no JSON object afterwards.
Redeem(a) ==
    /\ pc[a] = "redeem"
    /\ \/ /\ enrolled' = [enrolled EXCEPT ![GatewayOf[a]] = a]
          /\ \/ Goto(a, "verify") /\ UNCHANGED failure
             \/ Goto(a, "raised") /\ UNCHANGED failure
             \/ Compensate(a, "unreachable")
       \/ /\ UNCHANGED enrolled
          /\ \/ Goto(a, "raised") /\ UNCHANGED failure
             \/ \E how \in {"refused", "unreachable"} : Compensate(a, how)
    /\ UNCHANGED catalogVars

UnverifiedMutant(a) == TRUE
Verified(a) == GatewayOf[a] = NamedTenant[a]

\* Step 3.  The gateway has reported which tenant it is.
Verify(a) ==
    /\ pc[a] = "verify"
    /\ \/ Verified(a) /\ Goto(a, "record") /\ UNCHANGED failure
       \/ ~Verified(a) /\ Compensate(a, "mismatch")
    /\ UNCHANGED <<catalogVars, enrolled>>

\* The withdrawal of a failed attempt is best effort: whatever becomes of
\* the DELETE, the attempt ends with the failure it had.
Withdraw(a) ==
    /\ pc[a] = "withdraw"
    /\ \/ Withdraws(NamedTenant[a])
       \/ /\ "withdraw" \in Lossy
          /\ adrift' = adrift \cup {a}
          /\ UNCHANGED <<row, gatewayKey, minted>>
    /\ Goto(a, failure[a])
    /\ UNCHANGED <<enrolled, failure>>

WithdrawIncompleteMutant(a) == Withdraws(NamedTenant[a])
LeaveIncomplete(a) == UNCHANGED catalogVars

\* Step 4.  The catalog stores the gateway's credential in the entry it has;
\* if not, the entry is deliberately left.
Record(a) ==
    /\ pc[a] = "record"
    /\ \/ /\ row[NamedTenant[a]] # None
          /\ gatewayKey' = [gatewayKey EXCEPT ![NamedTenant[a]] = a]
          /\ UNCHANGED <<row, minted, adrift>>
          /\ Goto(a, "success") \/ ("record" \in Lossy /\ Goto(a, "incomplete"))
       \/ /\ row[NamedTenant[a]] = None \/ "record" \in Lossy
          /\ LeaveIncomplete(a)
          /\ Goto(a, "incomplete")
    /\ UNCHANGED <<enrolled, failure>>

\* The console dies in the middle of the saga; nothing resumes it.
Crash(a) ==
    /\ Active(a)
    /\ Goto(a, "crashed")
    /\ UNCHANGED <<catalogVars, enrolled, failure>>

Next == \E a \in Attempts : \/ Enrol(a) \/ Redeem(a) \/ Verify(a)
                            \/ Withdraw(a) \/ Record(a) \/ Crash(a)

Spec == Init /\ [][Next]_vars
-----------------------------------------------------------------------------
(* Properties.                                                             *)

TypeOK ==
    /\ row \in [Tenants -> Attempts \cup {None}]
    /\ gatewayKey \in [Tenants -> Attempts \cup {None}]
    /\ minted \subseteq Attempts
    /\ enrolled \in [Tenants -> Attempts \cup {None}]
    /\ pc \in [Attempts -> {"start", "redeem", "verify", "withdraw", "record"} \cup Ended]
    /\ failure \in [Attempts -> Failures \cup {"none"}]
    /\ adrift \subseteq Attempts
    \* only an entry that is listed has a credential, and its tenant's
    /\ \A t \in Tenants : gatewayKey[t] # None => row[t] # None
    /\ \A a \in Attempts : row[NamedTenant[a]] = a => a \in minted

\* The credential recorded for a tenant comes from that tenant's own
\* gateway, whatever ids and addresses operators mix up ("a typo would mint
\* a credential for tenant A and install it in tenant B's console").
NoMisdelivery ==
    \A t \in Tenants : gatewayKey[t] # None => GatewayOf[gatewayKey[t]] = t

\* An attempt that was reported as a failure before step 4 has left neither a
\* registry entry nor a live credential ("Failures compensate"), unless the
\* call that would have told of it or removed it was lost; and what such a
\* call left goes with the tenant's next withdrawal.  What is listed is
\* listed with a credential that is valid (TypeOK).
FailuresCompensate ==
    TypeOK /\ \A a \in Attempts : pc[a] \in Failures \cup {"notEnrolled"} =>
        a \in adrift \/ (a \notin minted /\ row[NamedTenant[a]] # a)

\* An enrolment that could not be recorded still works on the tenant's side
\* when the attempt reports it, and the tenant is still listed: "withdrawing
\* here would revoke the credential it is using".
IncompleteIsAlive ==
    [][\A a \in Attempts : pc[a] = "record" /\ pc'[a] = "incomplete" =>
          a \in minted' /\ row'[NamedTenant[a]] = a /\ enrolled'[NamedTenant[a]] = a]_vars

\* A reported success is whole: the tenant is listed with the credential its
\* gateway gave, and the catalog credential the gateway got is valid.
SuccessIsWhole ==
    [][\A a \in Attempts : pc[a] # "success" /\ pc'[a] = "success" =>
          /\ row'[NamedTenant[a]] = a /\ gatewayKey'[NamedTenant[a]] = a
          /\ enrolled'[NamedTenant[a]] = a /\ a \in minted']_vars

-----------------------------------------------------------------------------
(* What the texts promise and the code does not keep in general (README).  *)

\* Whatever ends an attempt before step 4, exceptions and lost calls
\* included, leaves neither an entry nor a live credential ("Failures
\* compensate").
EveryFailureCompensates ==
    \A a \in Attempts : pc[a] \in Failures \cup {"notEnrolled", "raised"} =>
        a \notin minted /\ row[NamedTenant[a]] # a

\* A tenant that was once enrolled stays listed, whatever becomes of later
\* attempts: compensation is for "a live credential for a tenant that was
\* never enrolled" and "leaves the operator with a plain failure to retry".
EnrolledStaysListed ==
    \A a \in Attempts : pc[a] = "success" => row[NamedTenant[a]] # None

\* A mismatch has enrolled nothing ("Nothing was enrolled and the credential
\* has been revoked"; "before the credential is ever installed").
MismatchEnrolsNothing ==
    \A a \in Attempts : pc[a] = "mismatch" => enrolled[GatewayOf[a]] # a
=============================================================================
