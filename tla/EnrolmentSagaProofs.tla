------------------------ MODULE EnrolmentSagaProofs ------------------------
(***************************************************************************)
(* Proofs about EnrolmentSaga, for any attempts at any tenants.  Unless a  *)
(* theorem says otherwise, any number of them run at a time and the        *)
(* catalog loses any of its calls.  The last part is about CatalogClient,  *)
(* which finds the catalog by what an enrolment has left at the gateway.   *)
(***************************************************************************)
EXTENDS EnrolmentSaga, CatalogClient, FiniteSetTheorems, TLAPS

USE AttemptsAssumption, TenantsAssumption

Typed ==
    /\ row \in [Tenants -> Attempts \cup {None}]
    /\ gatewayKey \in [Tenants -> Attempts \cup {None}]
    /\ pc \in [Attempts -> {"start", "redeem", "verify", "withdraw", "record"} \cup Ended]
    /\ failure \in [Attempts -> Failures \cup {"none"}]
    /\ \A a \in Attempts : pc[a] = "withdraw" => failure[a] \in Failures

\* What is about to be recorded has been verified.
RecordsVerified == \A a \in Attempts : pc[a] = "record" => GatewayOf[a] = NamedTenant[a]

MisdeliveryInv == Typed /\ RecordsVerified /\ NoMisdelivery

LEMMA InitMisdeliveryInv == Init => MisdeliveryInv
  BY DEF Init, MisdeliveryInv, Typed, RecordsVerified, NoMisdelivery, Failures, Ended

\* A step that moves one attempt, not to "record", and puts no credential in
\* the registry keeps the invariant.
LEMMA HarmlessStep ==
  ASSUME MisdeliveryInv, NEW a \in Attempts,
         NEW l \in {"start", "redeem", "verify", "withdraw"} \cup Ended,
         pc' = [pc EXCEPT ![a] = l],
         row' \in [Tenants -> Attempts \cup {None}],
         gatewayKey' \in [Tenants -> Attempts \cup {None}],
         \A t \in Tenants : gatewayKey'[t] \in {gatewayKey[t], None},
         failure' \in [Attempts -> Failures \cup {"none"}],
         \A b \in Attempts \ {a} : failure'[b] = failure[b],
         l = "withdraw" => failure'[a] \in Failures
  PROVE  MisdeliveryInv'
<1>1. l # "record"
  BY DEF Ended, Failures
<1>2. Typed'
  BY DEF MisdeliveryInv, Typed
<1>3. RecordsVerified'
  BY <1>1 DEF MisdeliveryInv, Typed, RecordsVerified
<1>4. NoMisdelivery'
  BY DEF MisdeliveryInv, NoMisdelivery
<1> QED
  BY <1>2, <1>3, <1>4 DEF MisdeliveryInv

LEMMA StepMisdeliveryInv == MisdeliveryInv /\ [Next]_vars => MisdeliveryInv'
<1> SUFFICES ASSUME MisdeliveryInv, [Next]_vars PROVE MisdeliveryInv'
  OBVIOUS
<1>0. Typed
  BY DEF MisdeliveryInv
<1>1. ASSUME NEW a \in Attempts, Enrol(a) PROVE MisdeliveryInv'
  <2>1. \E l \in {"redeem", "notEnrolled", "raised"} : pc' = [pc EXCEPT ![a] = l]
    BY <1>1 DEF Enrol, Goto
  <2>2. /\ row' \in [Tenants -> Attempts \cup {None}]
        /\ gatewayKey' \in [Tenants -> Attempts \cup {None}]
        /\ \A t \in Tenants : gatewayKey'[t] \in {gatewayKey[t], None}
    BY <1>0, <1>1 DEF Enrol, Enrols, catalogVars, Typed
  <2>3. failure' \in [Attempts -> Failures \cup {"none"}] /\ UNCHANGED failure
    BY <1>0, <1>1 DEF Enrol, Typed
  <2> QED
    BY <2>1, <2>2, <2>3, HarmlessStep DEF Ended
<1>2. ASSUME NEW a \in Attempts, Redeem(a) PROVE MisdeliveryInv'
  <2>1. \/ \E l \in {"verify", "raised"} : pc' = [pc EXCEPT ![a] = l] /\ UNCHANGED failure
        \/ \E how \in Failures : /\ pc' = [pc EXCEPT ![a] = "withdraw"]
                                 /\ failure' = [failure EXCEPT ![a] = how]
    BY <1>2 DEF Redeem, Compensate, Goto, Failures
  <2>2. failure' \in [Attempts -> Failures \cup {"none"}]
    BY <1>0, <2>1 DEF Typed
  <2>3. UNCHANGED catalogVars
    BY <1>2 DEF Redeem
  <2> QED
    BY <1>0, <2>1, <2>2, <2>3, HarmlessStep DEF catalogVars, Typed, Ended
<1>3. ASSUME NEW a \in Attempts, Verify(a) PROVE MisdeliveryInv'
  <2>1. UNCHANGED catalogVars
    BY <1>3 DEF Verify
  <2>2. CASE Verified(a) /\ pc' = [pc EXCEPT ![a] = "record"] /\ UNCHANGED failure
    <3>1. Typed'
      BY <1>0, <2>1, <2>2 DEF Typed, catalogVars, Ended, Failures
    <3>2. RecordsVerified'
      BY <1>0, <2>2 DEF MisdeliveryInv, Typed, RecordsVerified, Verified
    <3>3. NoMisdelivery'
      BY <2>1 DEF MisdeliveryInv, NoMisdelivery, catalogVars
    <3> QED
      BY <3>1, <3>2, <3>3 DEF MisdeliveryInv
  <2>3. CASE /\ pc' = [pc EXCEPT ![a] = "withdraw"]
             /\ failure' = [failure EXCEPT ![a] = "mismatch"]
    <3>1. failure' \in [Attempts -> Failures \cup {"none"}] /\ failure'[a] \in Failures
      BY <1>0, <2>3 DEF Typed, Failures
    <3> QED
      BY <1>0, <2>1, <2>3, <3>1, HarmlessStep DEF catalogVars, Typed
  <2> QED
    BY <1>3, <2>2, <2>3 DEF Verify, Compensate, Goto
<1>4. ASSUME NEW a \in Attempts, Withdraw(a) PROVE MisdeliveryInv'
  <2>1. failure[a] \in Failures \cap Ended /\ failure[a] # "withdraw"
    BY <1>0, <1>4 DEF Typed, Withdraw, Ended, Failures
  <2>2. /\ row' \in [Tenants -> Attempts \cup {None}]
        /\ gatewayKey' \in [Tenants -> Attempts \cup {None}]
        /\ \A t \in Tenants : gatewayKey'[t] \in {gatewayKey[t], None}
    BY <1>0, <1>4 DEF Withdraw, Withdraws, catalogVars, Typed
  <2> QED
    BY <1>0, <1>4, <2>1, <2>2, HarmlessStep DEF Withdraw, Goto, Typed, Ended
<1>5. ASSUME NEW a \in Attempts, Record(a) PROVE MisdeliveryInv'
  <2>1. GatewayOf[a] = NamedTenant[a] /\ NamedTenant[a] \in Tenants
    BY <1>5 DEF Record, MisdeliveryInv, RecordsVerified
  <2>2. PICK l \in {"success", "incomplete"} : pc' = [pc EXCEPT ![a] = l]
    BY <1>5 DEF Record, Goto
  <2>3. UNCHANGED <<row, failure>>
    BY <1>5 DEF Record, LeaveIncomplete, catalogVars
  <2>4. \/ gatewayKey' = [gatewayKey EXCEPT ![NamedTenant[a]] = a]
        \/ UNCHANGED gatewayKey
    BY <1>5 DEF Record, LeaveIncomplete, catalogVars
  <2>5. Typed'
    BY <1>0, <2>1, <2>2, <2>3, <2>4 DEF Typed, Ended
  <2>6. RecordsVerified'
    BY <1>0, <2>2 DEF MisdeliveryInv, Typed, RecordsVerified
  <2>7. NoMisdelivery'
    BY <1>0, <2>1, <2>4 DEF MisdeliveryInv, Typed, NoMisdelivery
  <2> QED
    BY <2>5, <2>6, <2>7 DEF MisdeliveryInv
<1>6. ASSUME NEW a \in Attempts, Crash(a) PROVE MisdeliveryInv'
  <2>1. pc' = [pc EXCEPT ![a] = "crashed"] /\ UNCHANGED <<catalogVars, failure>>
    BY <1>6 DEF Crash, Goto
  <2> QED
    BY <1>0, <2>1, HarmlessStep DEF catalogVars, Typed, Ended
<1>7. CASE UNCHANGED vars
  BY <1>7 DEF vars, catalogVars, MisdeliveryInv, Typed, RecordsVerified, NoMisdelivery
<1> QED
  BY <1>1, <1>2, <1>3, <1>4, <1>5, <1>6, <1>7 DEF Next

\* The registry never holds, for a tenant, a credential that another tenant's
\* gateway has given, however many redemptions overlap, fail and crash.
THEOREM NeverMisdelivered == Spec => []NoMisdelivery
<1>1. MisdeliveryInv => NoMisdelivery
  BY DEF MisdeliveryInv
<1> QED
  BY <1>1, InitMisdeliveryInv, StepMisdeliveryInv, PTL DEF Spec
-----------------------------------------------------------------------------
(* Failures compensate.                                                    *)

\* Neither an attempt that has not begun nor one that was reported as a
\* failure before step 4 has anything in the catalog, but for what a call
\* that was lost has left there.
NothingLeft ==
    \A a \in Attempts :
        /\ pc[a] = "start" => a \notin minted /\ row[NamedTenant[a]] # a
        /\ pc[a] \in Failures \cup {"notEnrolled"} =>
              a \in adrift \/ (a \notin minted /\ row[NamedTenant[a]] # a)

CompensationInv == TypeOK /\ Typed /\ NothingLeft

LEMMA InitCompensationInv == Init => CompensationInv
  BY DEF Init, CompensationInv, TypeOK, Typed, NothingLeft, Failures, Ended

\* A step of the handler that leaves the catalog alone and does not end the
\* attempt in a failure keeps the invariant.
LEMMA CatalogUntouched ==
  ASSUME CompensationInv, Typed', UNCHANGED catalogVars,
         enrolled' \in [Tenants -> Attempts \cup {None}],
         NEW a \in Attempts,
         \E l \in {"redeem", "verify", "withdraw", "record", "success", "incomplete",
               "raised", "crashed"} : pc' = [pc EXCEPT ![a] = l]
  PROVE  CompensationInv'
<1>1. TypeOK'
  BY DEF CompensationInv, TypeOK, Typed, catalogVars
<1>2. NothingLeft'
  BY DEF CompensationInv, Typed, NothingLeft, catalogVars, Failures
<1> QED
  BY <1>1, <1>2 DEF CompensationInv

\* Withdrawing a tenant leaves nothing of the attempts that named it.
LEMMA WithdrawsAll ==
  ASSUME CompensationInv, NEW t \in Tenants, Withdraws(t)
  PROVE  /\ row' \in [Tenants -> Attempts \cup {None}]
         /\ gatewayKey' \in [Tenants -> Attempts \cup {None}]
         /\ minted' \subseteq minted /\ adrift' \subseteq Attempts
         /\ \A u \in Tenants : gatewayKey'[u] # None => row'[u] # None
         /\ \A b \in Attempts : NamedTenant[b] = t => b \notin minted' /\ row'[NamedTenant[b]] # b
         /\ \A b \in Attempts : NamedTenant[b] # t =>
               /\ row'[NamedTenant[b]] = row[NamedTenant[b]]
               /\ b \in minted => b \in minted'
               /\ b \in adrift => b \in adrift'
  BY DEF CompensationInv, TypeOK, Withdraws

LEMMA StepCompensationInv ==
  ASSUME MisdeliveryInv, MisdeliveryInv', CompensationInv, [Next]_vars
  PROVE  CompensationInv'
<1>0. TypeOK /\ Typed /\ Typed'
  BY DEF CompensationInv, MisdeliveryInv
<1>1. ASSUME NEW a \in Attempts, Enrol(a) PROVE CompensationInv'
  <2>1. UNCHANGED <<enrolled, failure>> /\ pc[a] = "start"
    BY <1>1 DEF Enrol
  <2>2. CASE Enrols(a)
    <3>1. \/ UNCHANGED adrift /\ \E l \in {"redeem", "raised"} : pc' = [pc EXCEPT ![a] = l]
          \/ adrift' = adrift \cup {a} /\ pc' = [pc EXCEPT ![a] = "notEnrolled"]
          \/ UNCHANGED catalogVars /\ pc' = [pc EXCEPT ![a] = "notEnrolled"]
      BY <1>1 DEF Enrol, Goto
    <3>2. CASE \/ UNCHANGED adrift /\ \E l \in {"redeem", "raised"} : pc' = [pc EXCEPT ![a] = l]
               \/ adrift' = adrift \cup {a} /\ pc' = [pc EXCEPT ![a] = "notEnrolled"]
      <4>1. adrift \subseteq adrift' /\ adrift' \subseteq Attempts
        BY <1>0, <3>2 DEF TypeOK
      <4>2. TypeOK'
        BY <1>0, <2>1, <2>2, <4>1 DEF Enrols, TypeOK, Typed
      <4>3. NothingLeft'
        BY <1>0, <2>2, <3>2, <4>1 DEF Enrols, CompensationInv, NothingLeft, Typed, Failures
      <4> QED
        BY <1>0, <4>2, <4>3 DEF CompensationInv
    <3>3. CASE UNCHANGED catalogVars /\ pc' = [pc EXCEPT ![a] = "notEnrolled"]
      <4>1. TypeOK'
        BY <1>0, <2>1, <3>3 DEF TypeOK, Typed, catalogVars
      <4>2. NothingLeft'
        BY <1>0, <2>1, <3>3 DEF CompensationInv, NothingLeft, Typed, catalogVars
      <4> QED
        BY <1>0, <4>1, <4>2 DEF CompensationInv
    <3> QED
      BY <3>1, <3>2, <3>3
  <2>3. CASE UNCHANGED catalogVars /\ pc' = [pc EXCEPT ![a] = "notEnrolled"]
    <3>1. TypeOK'
      BY <1>0, <2>1, <2>3 DEF TypeOK, Typed, catalogVars
    <3>2. NothingLeft'
      BY <1>0, <2>1, <2>3 DEF CompensationInv, NothingLeft, Typed, catalogVars
    <3> QED
      BY <1>0, <3>1, <3>2 DEF CompensationInv
  <2> QED
    BY <1>1, <2>2, <2>3 DEF Enrol, Goto
<1>2. ASSUME NEW a \in Attempts, Redeem(a) PROVE CompensationInv'
  <2>1. \E l \in {"verify", "withdraw", "raised"} : pc' = [pc EXCEPT ![a] = l]
    BY <1>2 DEF Redeem, Compensate, Goto
  <2>2. enrolled' \in [Tenants -> Attempts \cup {None}] /\ UNCHANGED catalogVars
    BY <1>0, <1>2 DEF Redeem, TypeOK
  <2> QED
    BY <1>0, <2>1, <2>2, CatalogUntouched
<1>3. ASSUME NEW a \in Attempts, Verify(a) PROVE CompensationInv'
  <2>1. \E l \in {"record", "withdraw"} : pc' = [pc EXCEPT ![a] = l]
    BY <1>3 DEF Verify, Compensate, Goto
  <2>2. enrolled' \in [Tenants -> Attempts \cup {None}] /\ UNCHANGED catalogVars
    BY <1>0, <1>3 DEF Verify, TypeOK
  <2> QED
    BY <1>0, <2>1, <2>2, CatalogUntouched
<1>4. ASSUME NEW a \in Attempts, Withdraw(a) PROVE CompensationInv'
  <2>1. pc' = [pc EXCEPT ![a] = failure[a]] /\ UNCHANGED <<enrolled, failure>>
    BY <1>4 DEF Withdraw, Goto
  <2>2. pc[a] = "withdraw" /\ NamedTenant[a] \in Tenants
    BY <1>4 DEF Withdraw
  <2>3. CASE Withdraws(NamedTenant[a])
    <3>1. TypeOK'
      BY <1>0, <2>1, <2>2, <2>3, WithdrawsAll DEF TypeOK, Typed
    <3>2. NothingLeft'
      BY <1>0, <2>1, <2>2, <2>3, WithdrawsAll DEF CompensationInv, NothingLeft, Typed
    <3> QED
      BY <1>0, <3>1, <3>2 DEF CompensationInv
  <2>4. CASE adrift' = adrift \cup {a} /\ UNCHANGED <<row, gatewayKey, minted>>
    <3>1. TypeOK'
      BY <1>0, <2>1, <2>4 DEF TypeOK, Typed
    <3>2. NothingLeft'
      BY <1>0, <2>1, <2>2, <2>4 DEF CompensationInv, NothingLeft, Typed, Failures
    <3> QED
      BY <1>0, <3>1, <3>2 DEF CompensationInv
  <2> QED
    BY <1>4, <2>3, <2>4 DEF Withdraw
<1>5. ASSUME NEW a \in Attempts, Record(a) PROVE CompensationInv'
  <2>1. \E l \in {"success", "incomplete"} : pc' = [pc EXCEPT ![a] = l]
    BY <1>5 DEF Record, Goto
  <2>2. UNCHANGED <<row, minted, adrift, enrolled, failure>>
    BY <1>5 DEF Record, LeaveIncomplete, catalogVars
  <2>3. \/ gatewayKey' = [gatewayKey EXCEPT ![NamedTenant[a]] = a] /\ row[NamedTenant[a]] # None
        \/ UNCHANGED gatewayKey
    BY <1>5 DEF Record, LeaveIncomplete, catalogVars
  <2>4. TypeOK'
    BY <1>0, <2>2, <2>3 DEF TypeOK, Typed
  <2>5. NothingLeft'
    BY <1>0, <2>1, <2>2 DEF CompensationInv, NothingLeft, Typed, Failures
  <2> QED
    BY <1>0, <2>4, <2>5 DEF CompensationInv
<1>6. ASSUME NEW a \in Attempts, Crash(a) PROVE CompensationInv'
  <2>1. pc' = [pc EXCEPT ![a] = "crashed"] /\ UNCHANGED <<catalogVars, enrolled>>
    BY <1>6 DEF Crash, Goto
  <2> QED
    BY <1>0, <2>1, CatalogUntouched DEF TypeOK
<1>7. CASE UNCHANGED vars
  BY <1>7 DEF vars, catalogVars, CompensationInv, TypeOK, Typed, NothingLeft
<1> QED
  BY <1>1, <1>2, <1>3, <1>4, <1>5, <1>6, <1>7 DEF Next

\* An attempt that was reported as a failure before step 4 has left neither a
\* registry entry nor a live credential, unless its withdrawal or the answer
\* of its enrolment was lost and its tenant has not been withdrawn since,
\* however many attempts overlap, raise, crash, and name one tenant.
THEOREM FailuresLeaveNothing == Spec => []FailuresCompensate
<1>1. CompensationInv => FailuresCompensate
  BY DEF CompensationInv, NothingLeft, FailuresCompensate
<1>2. MisdeliveryInv /\ MisdeliveryInv' /\ CompensationInv /\ [Next]_vars => CompensationInv'
  BY StepCompensationInv
<1> QED
  BY <1>1, <1>2, InitMisdeliveryInv, StepMisdeliveryInv, InitCompensationInv, PTL DEF Spec
-----------------------------------------------------------------------------
(* One redemption at a time is whole.                                      *)

\* At most one attempt runs, and what it has done so far is still there: the
\* entry and the credential it recorded, and the enrolment at the gateway.
Alone == \A a, b \in Attempts : Active(a) /\ Active(b) => a = b
Progress ==
    /\ \A a \in Attempts : pc[a] \in {"redeem", "verify", "record"} =>
          row[NamedTenant[a]] = a /\ a \in minted
    /\ \A a \in Attempts : pc[a] \in {"verify", "record"} => enrolled[GatewayOf[a]] = a
EnrolledTyped == enrolled \in [Tenants -> Attempts \cup {None}]

SerialInv == MisdeliveryInv /\ EnrolledTyped /\ Alone /\ Progress

LEMMA InitSerialInv == Init => SerialInv
<1> SUFFICES ASSUME Init PROVE SerialInv
  OBVIOUS
<1>1. \A a \in Attempts : pc[a] = "start"
  BY DEF Init
<1> QED
  BY <1>1, InitMisdeliveryInv DEF Init, SerialInv, EnrolledTyped, Alone, Progress, Active

\* An attempt begins only when none is running.
LEMMA BeginsAlone ==
  ASSUME IsFiniteSet(Attempts), MaxActive = 1, NEW a \in Attempts, Enrol(a)
  PROVE  \A b \in Attempts : ~Active(b)
<1> DEFINE Running == {b \in Attempts : Active(b)}
<1>1. IsFiniteSet(Running)
  BY FS_Subset
<1>2. Cardinality(Running) < 1 /\ Cardinality(Running) \in Nat
  BY <1>1, FS_CardinalityType DEF Enrol
<1>3. Cardinality(Running) = 0
  BY <1>2
<1>4. Running = {}
  BY <1>1, <1>3, FS_EmptySet
<1> QED
  BY <1>4

\* A step of an attempt that runs leaves it the only one, at most.
LEMMA StaysAlone ==
  ASSUME SerialInv, NEW a \in Attempts, Active(a), NEW l, pc' = [pc EXCEPT ![a] = l]
  PROVE  /\ Alone'
         /\ \A b \in Attempts \ {a} : pc'[b] \notin {"redeem", "verify", "record"}
<1>1. \A b \in Attempts \ {a} : pc'[b] = pc[b] /\ ~Active(b)
  BY DEF SerialInv, MisdeliveryInv, Typed, Alone
<1>2. \A b \in Attempts \ {a} : pc'[b] \in Ended \cup {"start"}
  BY <1>1 DEF Active
<1> QED
  BY <1>2 DEF Alone, Active, Ended, Failures

LEMMA StepSerialInv ==
  ASSUME IsFiniteSet(Attempts), MaxActive = 1, SerialInv, [Next]_vars
  PROVE  SerialInv'
<1>0. Typed /\ EnrolledTyped /\ MisdeliveryInv'
  BY StepMisdeliveryInv DEF SerialInv, MisdeliveryInv
<1>1. ASSUME NEW a \in Attempts, Enrol(a) PROVE SerialInv'
  <2>1. \A b \in Attempts : pc[b] \in Ended \cup {"start"}
    BY <1>1, BeginsAlone DEF Active
  <2>2. PICK l \in {"redeem", "notEnrolled", "raised"} :
            pc' = [pc EXCEPT ![a] = l] /\ (l = "redeem" => Enrols(a)) /\ UNCHANGED enrolled
    BY <1>1 DEF Enrol, Goto
  <2>3. \A b \in Attempts : pc'[b] = IF b = a THEN l ELSE pc[b]
    BY <1>0, <2>2 DEF Typed
  <2>4. Alone'
    BY <2>1, <2>3 DEF Alone, Active
  <2>5. Progress'
    BY <1>0, <2>1, <2>2, <2>3 DEF Progress, Enrols, Typed, Ended, Failures
  <2> QED
    BY <1>0, <2>2, <2>4, <2>5 DEF SerialInv, EnrolledTyped
<1>2. ASSUME NEW a \in Attempts, Redeem(a) PROVE SerialInv'
  <2>1. pc[a] = "redeem" /\ Active(a)
    BY <1>2 DEF Redeem, Active, Ended, Failures
  <2>2. PICK l \in {"verify", "withdraw", "raised"} :
            /\ pc' = [pc EXCEPT ![a] = l] /\ UNCHANGED catalogVars
            /\ l = "verify" => enrolled' = [enrolled EXCEPT ![GatewayOf[a]] = a]
    BY <1>2 DEF Redeem, Compensate, Goto
  <2>3. EnrolledTyped'
    BY <1>0, <1>2 DEF Redeem, EnrolledTyped
  <2>4. \A b \in Attempts : pc'[b] \in {"redeem", "verify", "record"} => b = a /\ l = "verify"
    BY <1>0, <2>1, <2>2, StaysAlone DEF Typed
  <2>5. row[NamedTenant[a]] = a /\ a \in minted /\ UNCHANGED <<row, minted>>
    BY <2>1, <2>2 DEF SerialInv, Progress, catalogVars
  <2>6. l = "verify" => enrolled'[GatewayOf[a]] = a
    BY <1>0, <2>2 DEF EnrolledTyped
  <2>7. Progress'
    BY <2>4, <2>5, <2>6 DEF Progress
  <2> QED
    BY <1>0, <2>1, <2>2, <2>3, <2>7, StaysAlone DEF SerialInv
<1>3. ASSUME NEW a \in Attempts, Verify(a) PROVE SerialInv'
  <2>1. pc[a] = "verify" /\ Active(a)
    BY <1>3 DEF Verify, Active, Ended, Failures
  <2>2. PICK l \in {"record", "withdraw"} :
            pc' = [pc EXCEPT ![a] = l] /\ UNCHANGED <<catalogVars, enrolled>>
    BY <1>3 DEF Verify, Compensate, Goto
  <2>4. Progress'
    BY <1>0, <2>1, <2>2, StaysAlone DEF SerialInv, Progress, Typed, catalogVars
  <2> QED
    BY <1>0, <2>1, <2>2, <2>4, StaysAlone DEF SerialInv, EnrolledTyped
<1>4. ASSUME NEW a \in Attempts, Withdraw(a) PROVE SerialInv'
  <2>1. pc[a] = "withdraw" /\ Active(a) /\ failure[a] \in Failures
    BY <1>0, <1>4 DEF Withdraw, Active, Ended, Failures, Typed
  <2>2. pc' = [pc EXCEPT ![a] = failure[a]] /\ UNCHANGED enrolled
    BY <1>4 DEF Withdraw, Goto
  <2>3. \A b \in Attempts : pc'[b] \notin {"redeem", "verify", "record"}
    BY <1>0, <2>1, <2>2, StaysAlone DEF Typed, Failures
  <2>4. Progress'
    BY <2>3 DEF Progress
  <2> QED
    BY <1>0, <2>1, <2>2, <2>4, StaysAlone DEF SerialInv, EnrolledTyped
<1>5. ASSUME NEW a \in Attempts, Record(a) PROVE SerialInv'
  <2>1. pc[a] = "record" /\ Active(a)
    BY <1>5 DEF Record, Active, Ended, Failures
  <2>2. PICK l \in {"success", "incomplete"} : pc' = [pc EXCEPT ![a] = l] /\ UNCHANGED enrolled
    BY <1>5 DEF Record, Goto
  <2>3. \A b \in Attempts : pc'[b] \notin {"redeem", "verify", "record"}
    BY <1>0, <2>1, <2>2, StaysAlone DEF Typed
  <2>4. Progress'
    BY <2>3 DEF Progress
  <2> QED
    BY <1>0, <2>1, <2>2, <2>4, StaysAlone DEF SerialInv, EnrolledTyped
<1>6. ASSUME NEW a \in Attempts, Crash(a) PROVE SerialInv'
  <2>1. Active(a) /\ pc' = [pc EXCEPT ![a] = "crashed"] /\ UNCHANGED enrolled
    BY <1>6 DEF Crash, Goto
  <2>2. \A b \in Attempts : pc'[b] \notin {"redeem", "verify", "record"}
    BY <1>0, <2>1, StaysAlone DEF Typed
  <2>3. Progress'
    BY <2>2 DEF Progress
  <2> QED
    BY <1>0, <2>1, <2>3, StaysAlone DEF SerialInv, EnrolledTyped
<1>7. CASE UNCHANGED vars
  BY <1>0, <1>7 DEF vars, catalogVars, SerialInv, EnrolledTyped, Alone, Active, Progress
<1> QED
  BY <1>1, <1>2, <1>3, <1>4, <1>5, <1>6, <1>7 DEF Next

\* Only recording ends an attempt in success or left incomplete.
LEMMA EndsByRecording ==
  ASSUME MisdeliveryInv, [Next]_vars, NEW a \in Attempts,
         pc'[a] # pc[a], pc'[a] \in {"success", "incomplete"}
  PROVE  Record(a)
<1>0. Typed
  BY DEF MisdeliveryInv
<1>1. pc' # pc
  OBVIOUS
<1>2. PICK b \in Attempts : \/ Enrol(b) \/ Redeem(b) \/ Verify(b)
                           \/ Withdraw(b) \/ Record(b) \/ Crash(b)
  BY <1>1 DEF Next, vars
<1>3. CASE Record(b)
  <2>1. \E l \in {"success", "incomplete"} : pc' = [pc EXCEPT ![b] = l]
    BY <1>3 DEF Record, Goto
  <2> QED
    BY <1>0, <1>3, <2>1 DEF Typed
<1>4. CASE Withdraw(b)
  <2>1. pc[b] = "withdraw" /\ failure[b] \in Failures /\ pc' = [pc EXCEPT ![b] = failure[b]]
    BY <1>0, <1>4 DEF Typed, Withdraw, Goto
  <2> QED
    BY <1>0, <2>1 DEF Typed, Failures
<1>5. CASE Enrol(b) \/ Redeem(b) \/ Verify(b) \/ Crash(b)
  <2>1. \E l \in {"redeem", "notEnrolled", "verify", "record", "withdraw", "raised", "crashed"} :
            pc' = [pc EXCEPT ![b] = l]
    BY <1>5 DEF Enrol, Redeem, Verify, Crash, Compensate, Goto
  <2> QED
    BY <1>0, <2>1 DEF Typed
<1> QED
  BY <1>2, <1>3, <1>4, <1>5

\* While redemptions run one at a time, a reported success is whole: the
\* tenant is listed with the credential its own gateway gave in this very
\* attempt, and the catalog credential handed to the gateway is valid.
THEOREM SuccessesAreWhole ==
  ASSUME IsFiniteSet(Attempts), MaxActive = 1
  PROVE  Spec => SuccessIsWhole
<1>1. SerialInv /\ [Next]_vars => SerialInv'
  BY StepSerialInv
<1>2. SerialInv /\ [Next]_vars =>
        [\A a \in Attempts : pc[a] # "success" /\ pc'[a] = "success" =>
          /\ row'[NamedTenant[a]] = a /\ gatewayKey'[NamedTenant[a]] = a
          /\ enrolled'[NamedTenant[a]] = a /\ a \in minted']_vars
  <2> SUFFICES ASSUME SerialInv, [Next]_vars, NEW a \in Attempts,
                      pc[a] # "success", pc'[a] = "success"
               PROVE  /\ row'[NamedTenant[a]] = a /\ gatewayKey'[NamedTenant[a]] = a
                      /\ enrolled'[NamedTenant[a]] = a /\ a \in minted'
    OBVIOUS
  <2>1. Record(a)
    BY EndsByRecording DEF SerialInv
  <2>2. /\ row[NamedTenant[a]] = a /\ a \in minted
        /\ enrolled[GatewayOf[a]] = a /\ GatewayOf[a] = NamedTenant[a]
        /\ NamedTenant[a] \in Tenants
    BY <2>1 DEF Record, SerialInv, Progress, MisdeliveryInv, RecordsVerified
  <2>3. /\ gatewayKey' = [gatewayKey EXCEPT ![NamedTenant[a]] = a]
        /\ UNCHANGED <<row, minted, enrolled>>
    BY <2>1 DEF Record, Goto, SerialInv, MisdeliveryInv, Typed
  <2> QED
    BY <2>2, <2>3 DEF SerialInv, MisdeliveryInv, Typed
<1> QED
  BY <1>1, <1>2, InitSerialInv, PTL DEF Spec, SuccessIsWhole

\* While redemptions run one at a time, an enrolment that could not be
\* recorded is alive when the attempt reports it: the tenant is listed, its
\* gateway holds this attempt's enrolment, and the credential is valid.
THEOREM IncompletesAreAlive ==
  ASSUME IsFiniteSet(Attempts), MaxActive = 1
  PROVE  Spec => IncompleteIsAlive
<1>1. SerialInv /\ [Next]_vars => SerialInv'
  BY StepSerialInv
<1>2. SerialInv /\ [Next]_vars =>
        [\A a \in Attempts : pc[a] = "record" /\ pc'[a] = "incomplete" =>
          a \in minted' /\ row'[NamedTenant[a]] = a /\ enrolled'[NamedTenant[a]] = a]_vars
  <2> SUFFICES ASSUME SerialInv, [Next]_vars, NEW a \in Attempts,
                      pc[a] = "record", pc'[a] = "incomplete"
               PROVE  a \in minted' /\ row'[NamedTenant[a]] = a /\ enrolled'[NamedTenant[a]] = a
    OBVIOUS
  <2>1. Record(a)
    BY EndsByRecording DEF SerialInv
  <2>2. /\ row[NamedTenant[a]] = a /\ a \in minted
        /\ enrolled[GatewayOf[a]] = a /\ GatewayOf[a] = NamedTenant[a]
    BY DEF SerialInv, Progress, MisdeliveryInv, RecordsVerified
  <2>3. UNCHANGED <<row, minted, enrolled>>
    BY <2>1 DEF Record, LeaveIncomplete, catalogVars
  <2> QED
    BY <2>2, <2>3
<1> QED
  BY <1>1, <1>2, InitSerialInv, PTL DEF Spec, IncompleteIsAlive
-----------------------------------------------------------------------------
(* The tenant console's side of an enrolment: the catalog client that      *)
(* learns the address and the credential from the gateway, for any callers *)
(* and any enrolments.                                                     *)

USE CallersAssumption, FlagsAssumption, EnrolmentsAssumption, UnconfiguredAssumption

\* Who asks the gateway holds the lock.
AsksUnderLock == \A c \in Callers : callerPc[c] \in Asking => lock = c

\* Whoever has sent a call was not cold, and the client is not since.
Warm == {"addressWait", "credentialWait", "addressAsk", "credentialAsk"} \cup Sending
WarmIsConfigured == \A c \in Callers : callerPc[c] \in Warm => held # Unconfigured

\* The cooldown covers the one cold call there was.
OneCallPerCooldown == coldCalls \in {0, 1} /\ (~cooling => coldCalls = 0)

ClientInv ==
    /\ ClientTypeOK /\ AsksUnderLock /\ WarmIsConfigured
    /\ OneCallPerCooldown /\ ColdCallWhenCold

LEMMA InitClientInv == ClientInit => ClientInv
<1> SUFFICES ASSUME ClientInit PROVE ClientInv
  OBVIOUS
<1> USE DEF ClientInit
<1>1. \A c \in Callers : callerPc[c] = "idle"
  OBVIOUS
<1>2. held \in Held /\ Unconfigured \in Held
  BY DEF Held, Pairs
<1>3. ClientTypeOK
  BY <1>1, <1>2 DEF ClientTypeOK, Pairs, Sending
<1> QED
  BY <1>1, <1>3 DEF ClientInv, AsksUnderLock, WarmIsConfigured, Warm, OneCallPerCooldown,
                    ColdCallWhenCold, Asking, Sending

\* One caller goes from a place to another; what has to be seen to.
LEMMA CallerMoves ==
  ASSUME ClientInv, NEW c \in Callers,
         NEW l \in {"idle"} \cup Waiting \cup Asking \cup Sending,
         callerPc' = [callerPc EXCEPT ![c] = l],
         UNCHANGED <<enrolment, valid>>, held' \in Held, lock' \in Callers \cup {Nobody},
         cooling' \in BOOLEAN, coldCalls' \in {0, 1}, ~cooling' => coldCalls' = 0,
         sent' \in [Callers -> Held], before' \in [Callers -> Held],
         result' \in [Callers -> {"none", "served", "refused", "unavailable"}],
         \A d \in Callers \ {c} : sent'[d] = sent[d],
         held # Unconfigured => held' # Unconfigured,
         l \in Asking => lock = Nobody /\ lock' = c,
         l = "coldAsk" => held' = Unconfigured,
         l \in Warm => held' # Unconfigured,
         l \in Sending => sent'[c] # Unconfigured,
         l \notin Asking /\ callerPc[c] \notin Asking => lock' = lock /\ held' = held,
         callerPc[c] \in Asking => l \notin Asking
  PROVE  ClientInv'
<1> USE DEF ClientInv
<1>1. \A d \in Callers : callerPc'[d] = IF d = c THEN l ELSE callerPc[d]
  BY DEF ClientTypeOK
<1>2. AsksUnderLock'
  BY <1>1 DEF AsksUnderLock
<1>3. WarmIsConfigured'
  BY <1>1 DEF WarmIsConfigured
<1>4. ColdCallWhenCold'
  <2> SUFFICES ASSUME NEW d \in Callers, callerPc'[d] = "coldAsk", d # c
               PROVE  held' = Unconfigured
    BY <1>1 DEF ColdCallWhenCold
  <2>1. lock = d /\ held = Unconfigured
    BY <1>1 DEF AsksUnderLock, ColdCallWhenCold, Asking
  <2>2. callerPc[c] \notin Asking /\ l \notin Asking
    BY <2>1 DEF AsksUnderLock
  <2> QED
    BY <2>1, <2>2
<1>5. \A d \in Callers : callerPc'[d] \in Sending => sent'[d] # Unconfigured /\ held' # Unconfigured
  BY <1>1 DEF ClientTypeOK, Warm
<1>6. ClientTypeOK'
  <2>1. callerPc' \in [Callers -> {"idle"} \cup Waiting \cup Asking \cup Sending]
    BY DEF ClientTypeOK
  <2>2. enrolment' \in Pairs /\ valid' \subseteq Pairs /\ coldCalls' \in Nat
    BY DEF ClientTypeOK
  <2> QED
    BY <1>5, <2>1, <2>2 DEF ClientTypeOK
<1> QED
  BY <1>2, <1>3, <1>4, <1>6 DEF OneCallPerCooldown

\* How a caller goes on after a resolution: it sends what is held, which is
\* a pair, or its request ends.
LEMMA AfterResolution ==
  ASSUME ClientInv, NEW c \in Callers, AfterResolve(c),
         callerPc[c] \in Waiting \cup Asking,
         held' \in Held, held # Unconfigured => held' # Unconfigured
  PROVE  \E l \in {"idle"} \cup Sending :
            /\ callerPc' = [callerPc EXCEPT ![c] = l]
            /\ l \in Sending => held' # Unconfigured /\ sent' = [sent EXCEPT ![c] = held']
            /\ l = "idle" => sent' = sent
            /\ UNCHANGED before
            /\ result' \in [Callers -> {"none", "served", "refused", "unavailable"}]
<1>1. result \in [Callers -> {"none", "served", "refused", "unavailable"}]
  BY DEF ClientInv, ClientTypeOK
<1>2. CASE Cold(c)
  BY <1>1, <1>2 DEF AfterResolve, AfterColdResolve, Send, End,
                    CallerGoto, Sending
<1>3. CASE ~Cold(c)
  <2>1. held' # Unconfigured
    BY <1>3 DEF ClientInv, WarmIsConfigured, Warm, Cold, Waiting, Asking
  <2> QED
    BY <1>1, <1>3, <2>1 DEF AfterResolve, AfterForcedResolve, Send,
                            End, CallerGoto, Sending
<1> QED
  BY <1>2, <1>3

LEMMA StepClientInv ==
  ASSUME ClientInv, [ClientNext]_clientVars
  PROVE  ClientInv'
<1> USE DEF sourceVars, heldVars
<1>0. /\ ClientTypeOK /\ OneCallPerCooldown /\ callerPc \in [Callers ->
            {"idle"} \cup Waiting \cup Asking \cup Sending]
      /\ held \in Held /\ lock \in Callers \cup {Nobody} /\ cooling \in BOOLEAN
      /\ sent \in [Callers -> Held] /\ before \in [Callers -> Held]
      /\ result \in [Callers -> {"none", "served", "refused", "unavailable"}]
      /\ coldCalls \in {0, 1} /\ (~cooling => coldCalls = 0)
  BY DEF ClientInv, ClientTypeOK, OneCallPerCooldown
<1>l. /\ Waiting \cap Asking = {} /\ Waiting \cap Sending = {}
      /\ Asking \cap Sending = {} /\ "coldAsk" \notin Warm
      /\ "idle" \notin Waiting \cup Asking \cup Sending
      /\ Warm \subseteq Waiting \cup Asking \cup Sending
      /\ "coldAsk" \in Asking
  BY DEF Waiting, Asking, Sending, Warm
<1>1. ASSUME NEW c \in Callers, Start(c) PROVE ClientInv'
  <2>1. CASE held = Unconfigured
    <3>1. "coldWait" \in Waiting /\ "coldWait" \notin Warm
      BY DEF Waiting, Warm, Sending
    <3> QED
      BY <1>0, <1>1, <1>l, <2>1, <3>1, CallerMoves DEF Start, CallerGoto
  <2>2. CASE held # Unconfigured
    <3>1. "sending" \in Sending
      BY DEF Sending
    <3> QED
      BY <1>0, <1>1, <1>l, <2>2, <3>1, CallerMoves DEF Start, CallerGoto
  <2> QED
    BY <2>1, <2>2
<1>2. ASSUME NEW c \in Callers, SkipResolve(c) PROVE ClientInv'
  <2>1. UNCHANGED <<enrolment, valid, held, lock, cooling, coldCalls>> /\ callerPc[c] \in Waiting
    BY <1>2 DEF SkipResolve
  <2>2. PICK l \in {"idle"} \cup Sending :
            /\ callerPc' = [callerPc EXCEPT ![c] = l]
            /\ l \in Sending => held' # Unconfigured /\ sent' = [sent EXCEPT ![c] = held']
            /\ l = "idle" => sent' = sent
            /\ UNCHANGED before
            /\ result' \in [Callers -> {"none", "served", "refused", "unavailable"}]
    BY <1>0, <1>2, <2>1, AfterResolution DEF SkipResolve
  <2>3. l \notin Asking /\ l # "coldAsk" /\ (l \in Warm => l \in Sending)
    BY <1>l, <2>2
  <2>4. sent' \in [Callers -> Held] /\ \A d \in Callers \ {c} : sent'[d] = sent[d]
    BY <1>0, <2>1, <2>2
  <2>5. l \in Sending => sent'[c] # Unconfigured
    BY <1>0, <2>2
  <2> QED
    BY <1>0, <1>l, <2>1, <2>2, <2>3, <2>4, <2>5, CallerMoves
<1>3. ASSUME NEW c \in Callers, AskGateway(c) PROVE ClientInv'
  <2>1. /\ callerPc[c] \in Waiting /\ lock = Nobody /\ lock' = c /\ cooling' = TRUE
        /\ UNCHANGED <<enrolment, valid, held, sent, before, result>>
    BY <1>3 DEF AskGateway
  <2>2. PICK l \in Asking : /\ callerPc' = [callerPc EXCEPT ![c] = l]
                            /\ l = "coldAsk" <=> Cold(c)
                            /\ l \in Warm <=> callerPc[c] \in Warm
    BY <1>3 DEF AskGateway, CallerGoto, Waiting, Asking, Cold,
                Warm, Sending
  <2>3. Cold(c) => held = Unconfigured /\ ~cooling
    BY <1>3 DEF AskGateway, NothingToAsk
  <2>4. coldCalls' \in {0, 1}
    BY <1>0, <1>3, <2>3 DEF AskGateway
  <2>5. l \in Warm => held # Unconfigured
    BY <2>2 DEF ClientInv, WarmIsConfigured
  <2> QED
    BY <1>0, <1>l, <2>1, <2>2, <2>3, <2>4, <2>5, CallerMoves
<1>4. ASSUME NEW c \in Callers, Learn(c) \/ LearnNothing(c) PROVE ClientInv'
  <2>1. /\ callerPc[c] \in Asking /\ lock' = Nobody
        /\ UNCHANGED <<enrolment, valid, cooling, coldCalls>> /\ AfterResolve(c)
    BY <1>4 DEF Learn, LearnNothing
  <2>2. held' \in Held /\ (held # Unconfigured => held' # Unconfigured)
    BY <1>0, <1>4 DEF Learn, LearnNothing, ClientTypeOK, Held,
                      Pairs
  <2>3. PICK l \in {"idle"} \cup Sending :
            /\ callerPc' = [callerPc EXCEPT ![c] = l]
            /\ l \in Sending => held' # Unconfigured /\ sent' = [sent EXCEPT ![c] = held']
            /\ l = "idle" => sent' = sent
            /\ UNCHANGED before
            /\ result' \in [Callers -> {"none", "served", "refused", "unavailable"}]
    BY <2>1, <2>2, AfterResolution
  <2>4. l \notin Asking /\ l # "coldAsk" /\ (l \in Warm => l \in Sending)
    BY <1>l, <2>3
  <2>5. sent' \in [Callers -> Held] /\ \A d \in Callers \ {c} : sent'[d] = sent[d]
    BY <1>0, <2>2, <2>3
  <2>6. l \in Sending => sent'[c] # Unconfigured
    BY <1>0, <2>3
  <2> QED
    BY <1>0, <1>l, <2>1, <2>2, <2>3, <2>4, <2>5, <2>6, CallerMoves
<1>5. ASSUME NEW c \in Callers, Fail(c) \/ Refuse(c) \/ Serve(c) PROVE ClientInv'
  <2>1. /\ callerPc[c] \in Sending /\ UNCHANGED <<enrolment, valid, held, lock, cooling, coldCalls>>
        /\ UNCHANGED sent
    BY <1>5 DEF Fail, Refuse, Serve, End
  <2>2. held # Unconfigured
    BY <2>1 DEF ClientInv, ClientTypeOK
  <2>3. PICK l \in {"idle", "addressWait", "credentialWait"} :
            callerPc' = [callerPc EXCEPT ![c] = l]
    BY <1>5 DEF Fail, Refuse, Serve, End, CallerGoto
  <2>4. before' \in [Callers -> Held]
    BY <1>0, <1>5 DEF Fail, Refuse, Serve, End
  <2>5. result' \in [Callers -> {"none", "served", "refused", "unavailable"}]
    BY <1>0, <1>5 DEF Fail, Refuse, Serve, End
  <2>6. {"addressWait", "credentialWait"} \subseteq Waiting
    BY DEF Waiting
  <2> QED
    BY <1>0, <1>l, <2>1, <2>2, <2>3, <2>4, <2>5, <2>6, CallerMoves
<1>6. CASE Reenrol \/ RevokeCredential
  <2>1. UNCHANGED <<held, lock, cooling, coldCalls, callerPc, sent, before, result>>
    BY <1>6 DEF Reenrol, RevokeCredential, callerVars
  <2>2. enrolment' \in Pairs /\ valid' \subseteq Pairs
    <3>1. enrolment \in 0 .. MaxEnrolments /\ valid \subseteq 0 .. MaxEnrolments
      BY <1>0 DEF ClientTypeOK, Pairs
    <3>2. CASE Reenrol
      <4>1. enrolment + 1 \in 0 .. MaxEnrolments
        BY <3>1, <3>2 DEF Reenrol
      <4> QED
        BY <3>1, <3>2, <4>1 DEF Reenrol, Pairs
    <3>3. CASE RevokeCredential
      BY <3>1, <3>3 DEF RevokeCredential, Pairs
    <3> QED
      BY <1>6, <3>2, <3>3
  <2> QED
    BY <1>0, <2>1, <2>2 DEF ClientInv, ClientTypeOK, AsksUnderLock, WarmIsConfigured,
                            OneCallPerCooldown, ColdCallWhenCold
<1>7. CASE CooldownEnds
  BY <1>0, <1>7 DEF CooldownEnds, callerVars, ClientInv, ClientTypeOK,
                    AsksUnderLock, WarmIsConfigured, OneCallPerCooldown, ColdCallWhenCold
<1>8. CASE UNCHANGED clientVars
  BY <1>8 DEF clientVars, sourceVars, heldVars, callerVars, ClientInv, ClientTypeOK,
              AsksUnderLock, WarmIsConfigured, OneCallPerCooldown, ColdCallWhenCold
<1> QED
  BY <1>1, <1>2, <1>3, <1>4, <1>5, <1>6, <1>7, <1>8 DEF ClientNext

LEMMA ClientInvAlways == ClientSpec => []ClientInv
<1>1. ClientInv /\ [ClientNext]_clientVars => ClientInv'
  BY StepClientInv
<1> QED
  BY <1>1, InitClientInv, PTL DEF ClientSpec

\* However many callers find the console cold, the gateway is asked once per
\* cooldown, and no call leaves a client that is not configured.
THEOREM AskedOncePerCooldown == ClientSpec => []OneColdCall
<1>1. ClientInv => OneColdCall
  BY DEF ClientInv, OneCallPerCooldown, OneColdCall
<1> QED
  BY <1>1, ClientInvAlways, PTL

\* What one caller has learned is not fetched again by the callers that
\* waited for it: a cold caller asks only while the client is cold.
THEOREM AskedWhileCold == ClientSpec => []ColdCallWhenCold
<1>1. ClientInv => ColdCallWhenCold
  BY DEF ClientInv
<1> QED
  BY <1>1, ClientInvAlways, PTL
=============================================================================
