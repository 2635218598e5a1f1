---------------------------- MODULE CatalogClient ----------------------------
(***************************************************************************)
(* The BFF's client of the device catalog (catalog_client.py): concurrent  *)
(* callers of request, which learn the catalog's address and credential    *)
(* from the tenant's enrolment when the environment named none, and again  *)
(* when the address fails or the credential is refused.                    *)
(*                                                                         *)
(* Enrolments are numbered in the order they are made; each brings a new   *)
(* credential, and an address that may be the previous one's.  Pair 0 is   *)
(* the address and credential of the environment.                          *)
(***************************************************************************)
EXTENDS Naturals

CONSTANTS
    Callers,        \* the requests that use the client
    Nobody,
    Unconfigured,
    FromEnv,        \* BOOLEAN: the environment names a catalog
    HasResolver,    \* BOOLEAN: a tenant console, which asks its gateway
    MaxEnrolments,
    Address,        \* the address of each pair
    Unreachable,    \* addresses at which nothing answers
    Foreign         \* addresses at which something else answers, somehow

Pairs == 0 .. MaxEnrolments

ASSUME CallersAssumption == Nobody \notin Callers
ASSUME FlagsAssumption == FromEnv \in BOOLEAN /\ HasResolver \in BOOLEAN
ASSUME EnrolmentsAssumption == MaxEnrolments \in Nat
ASSUME UnconfiguredAssumption == Unconfigured \notin Pairs
ASSUME AddressAssumption == DOMAIN Address = Pairs /\ Unreachable \cap Foreign = {}

VARIABLES
    enrolment,  \* what the gateway knows: the newest enrolment, 0 for none
    valid,      \* the pairs whose credential the catalog accepts
    held,       \* the pair the client is pointed at
    lock,       \* the caller in _resolve
    cooling,    \* the last attempt to resolve is younger than the cooldown
    coldCalls,  \* unforced calls to the gateway in this cooldown
    callerPc,   \* where each caller is
    sent,       \* the pair its last call carried
    before,     \* what it compares the resolved pair with
    result      \* how its request ended

sourceVars == <<enrolment, valid>>
heldVars == <<held, lock, cooling, coldCalls>>
callerVars == <<callerPc, sent, before, result>>
clientVars == <<sourceVars, heldVars, callerVars>>

Held == Pairs \cup {Unconfigured}

ClientInit ==
    /\ enrolment = 0
    /\ valid = {0}
    /\ held = IF FromEnv THEN 0 ELSE Unconfigured
    /\ lock = Nobody
    /\ cooling \in BOOLEAN   \* the clock may start below the cooldown
    /\ coldCalls = 0
    /\ callerPc = [c \in Callers |-> "idle"]
    /\ sent = [c \in Callers |-> Unconfigured]
    /\ before = [c \in Callers |-> Unconfigured]
    /\ result = [c \in Callers |-> "none"]

Cold(c) == callerPc[c] \in {"coldWait", "coldAsk"}
Waiting == {"coldWait", "addressWait", "credentialWait"}
Asking == {"coldAsk", "addressAsk", "credentialAsk"}
Sending == {"sending", "resentForAddress", "resentForCredential"}

CallerGoto(c, location) == callerPc' = [callerPc EXCEPT ![c] = location]

\* The call leaves at once with the address and the credential held now.
Send(c, location) ==
    /\ CallerGoto(c, location)
    /\ sent' = [sent EXCEPT ![c] = held']
    /\ UNCHANGED <<before, result>>

End(c, how) ==
    /\ CallerGoto(c, "idle")
    /\ result' = [result EXCEPT ![c] = how]
    /\ UNCHANGED <<sent, before>>

-----------------------------------------------------------------------------
Start(c) ==
    /\ callerPc[c] = "idle"
    /\ result' = [result EXCEPT ![c] = "none"]
    /\ IF held = Unconfigured
       THEN CallerGoto(c, "coldWait") /\ UNCHANGED sent
       ELSE CallerGoto(c, "sending") /\ sent' = [sent EXCEPT ![c] = held]
    /\ UNCHANGED <<sourceVars, heldVars, before>>

\* A cold caller goes on with whatever _resolve left.
AfterColdResolve(c) ==
    IF held' = Unconfigured THEN End(c, "unavailable") ELSE Send(c, "sending")

\* Only something new is worth a retry.
NewAddress(c) == Address[held'] # Address[before[c]]
NewCredential(c) == held' # before[c]

AfterForcedResolve(c) ==
    \/ /\ callerPc[c] \in {"addressWait", "addressAsk"}
       /\ IF NewAddress(c) THEN Send(c, "resentForAddress") ELSE End(c, "unavailable")
    \/ /\ callerPc[c] \in {"credentialWait", "credentialAsk"}
       /\ IF NewCredential(c) THEN Send(c, "resentForCredential") ELSE End(c, "refused")

AfterResolve(c) == IF Cold(c) THEN AfterColdResolve(c) ELSE AfterForcedResolve(c)

\* Under the lock, or without a resolver: nothing needs to be asked.
UncheckedMutant(c) == ~HasResolver
NothingToAsk(c) == HasResolver => Cold(c) /\ (held # Unconfigured \/ cooling)

SkipResolve(c) ==
    /\ callerPc[c] \in Waiting
    /\ HasResolver => lock = Nobody
    /\ NothingToAsk(c)
    /\ UNCHANGED <<sourceVars, heldVars>>
    /\ AfterResolve(c)

\* The lock is taken and the gateway asked.
AskGateway(c) ==
    /\ callerPc[c] \in Waiting
    /\ lock = Nobody
    /\ ~NothingToAsk(c)
    /\ lock' = c
    /\ cooling' = TRUE
    /\ coldCalls' = IF Cold(c) THEN coldCalls + 1 ELSE coldCalls
    /\ CallerGoto(c, CASE callerPc[c] = "coldWait" -> "coldAsk"
                       [] callerPc[c] = "addressWait" -> "addressAsk"
                       [] callerPc[c] = "credentialWait" -> "credentialAsk")
    /\ UNCHANGED <<sourceVars, held, sent, before, result>>

\* The gateway names the newest enrolment, which is adopted ...
Learn(c) ==
    /\ callerPc[c] \in Asking
    /\ enrolment # 0
    /\ held' = enrolment
    /\ lock' = Nobody
    /\ UNCHANGED <<sourceVars, cooling, coldCalls>>
    /\ AfterResolve(c)

\* ... or has none, answers with an error or half an answer, or raises.
LearnNothing(c) ==
    /\ callerPc[c] \in Asking
    /\ lock' = Nobody
    /\ UNCHANGED <<sourceVars, held, cooling, coldCalls>>
    /\ AfterResolve(c)

-----------------------------------------------------------------------------
(* request: the answers of the catalog.                                    *)

ResolvesAfterFailureMutant == FALSE
ResolvesAfterFailure == HasResolver

\* The transport fails: any call can be lost.
Fail(c) ==
    /\ callerPc[c] \in Sending
    /\ IF callerPc[c] = "sending" /\ ResolvesAfterFailure
       THEN /\ CallerGoto(c, "addressWait")
            /\ before' = [before EXCEPT ![c] = held]
            /\ UNCHANGED <<sent, result>>
       ELSE End(c, "unavailable")
    /\ UNCHANGED <<sourceVars, heldVars>>

\* 401.  The credential to compare with is read now, after the answer.
Refuse(c) ==
    /\ callerPc[c] \in Sending
    /\ Address[sent[c]] \notin Unreachable
    /\ sent[c] \notin valid \/ Address[sent[c]] \in Foreign
    /\ IF callerPc[c] # "resentForCredential" /\ HasResolver
       THEN /\ CallerGoto(c, "credentialWait")
            /\ before' = [before EXCEPT ![c] = held]
            /\ UNCHANGED <<sent, result>>
       ELSE End(c, "refused")
    /\ UNCHANGED <<sourceVars, heldVars>>

\* Any other answer, a misdelivery code (CatalogMisconfigured) and what an
\* address that is not the catalog's answers included.
Serve(c) ==
    /\ callerPc[c] \in Sending
    /\ Address[sent[c]] \notin Unreachable
    /\ sent[c] \in valid \/ Address[sent[c]] \in Foreign
    /\ End(c, "served")
    /\ UNCHANGED <<sourceVars, heldVars>>

-----------------------------------------------------------------------------
(* The environment: enrolments, revocations and the clock.                 *)

Reenrol ==
    /\ enrolment < MaxEnrolments
    /\ enrolment' = enrolment + 1
    /\ valid' = valid \cup {enrolment + 1}
    /\ UNCHANGED <<heldVars, callerVars>>

RevokeCredential ==
    /\ \E p \in valid : valid' = valid \ {p}
    /\ UNCHANGED <<enrolment, heldVars, callerVars>>

CooldownEnds ==
    /\ cooling
    /\ cooling' = FALSE
    /\ coldCalls' = 0
    /\ UNCHANGED <<sourceVars, held, lock, callerVars>>

ClientNext ==
    \/ \E c \in Callers : \/ Start(c) \/ SkipResolve(c) \/ AskGateway(c)
                          \/ Learn(c) \/ LearnNothing(c)
                          \/ Fail(c) \/ Refuse(c) \/ Serve(c)
    \/ Reenrol \/ RevokeCredential \/ CooldownEnds

ClientSpec == ClientInit /\ [][ClientNext]_clientVars

\* Callers keep coming and every await ends; a gateway that is asked again
\* and again answers at some time, and the cooldown passes.
Proceed(c) == \/ Start(c) \/ SkipResolve(c) \/ AskGateway(c)
              \/ Learn(c) \/ LearnNothing(c) \/ Fail(c) \/ Refuse(c) \/ Serve(c)
ClientFairSpec ==
    /\ ClientSpec
    /\ \A c \in Callers : /\ WF_clientVars(Proceed(c))
                         /\ SF_clientVars(Learn(c))
                         /\ SF_clientVars(AskGateway(c))
    /\ WF_clientVars(CooldownEnds)
-----------------------------------------------------------------------------
(* Properties.                                                             *)

ClientTypeOK ==
    /\ enrolment \in Pairs
    /\ valid \subseteq Pairs
    /\ held \in Held
    /\ lock \in Callers \cup {Nobody}
    /\ cooling \in BOOLEAN
    /\ coldCalls \in Nat
    /\ callerPc \in [Callers -> {"idle"} \cup Waiting \cup Asking \cup Sending]
    /\ sent \in [Callers -> Held]
    /\ before \in [Callers -> Held]
    /\ result \in [Callers -> {"none", "served", "refused", "unavailable"}]
    \* no call leaves an unconfigured client, and it never becomes one again
    /\ \A c \in Callers :
          callerPc[c] \in Sending => sent[c] # Unconfigured /\ held # Unconfigured

\* A burst of callers on a cold console asks the gateway once, and an
\* enrolment that is missing is asked for once per cooldown ("one gateway
\* call, not one per request"), and no call leaves a client that is still cold.
OneColdCall == ClientTypeOK /\ coldCalls <= 1

\* The gateway is only asked without a refusal while the client is cold:
\* what one caller learned is not fetched again by those who waited.
ColdCallWhenCold == \A c \in Callers : callerPc[c] = "coldAsk" => held = Unconfigured

IsForeign(p) == p # Unconfigured /\ Address[p] \in Foreign
Usable(p) ==
    p # Unconfigured /\ p \in valid /\ Address[p] \notin Unreachable \cup Foreign

\* A console recovers by itself: if the tenant's enrolment is good from some
\* time on, the client comes to hold a pair that is good and keeps it
\* (without "the pod was still holding the address it learned first"), unless
\* something that is not the catalog goes on answering at the address it has:
\* only a lost call and a 401 are taken for a sign.
Recovers ==
    <>[](enrolment # 0 /\ Usable(enrolment)) =>
        <>[]Usable(held) \/ <>[]IsForeign(held)

-----------------------------------------------------------------------------
(* What the texts promise and the code does not keep in general (README).  *)

\* A caller is told that the credential is refused only if the client has
\* nothing better than the credential that was refused ("retry only if we
\* actually learned something different").
RefusedWithTheHeldPair ==
    [][\A c \in Callers : result'[c] = "refused" /\ result[c] # "refused"
            => held' = sent'[c]]_clientVars

\* The same recovery whatever answers at a wrong address ("a console that once
\* adopted a wrong or stale `catalog_url` kept it for the life of the process").
RecoversFromAnyAddress ==
    <>[](enrolment # 0 /\ Usable(enrolment)) => <>[]Usable(held)

\* Configuration from the environment is never replaced ("explicit
\* configuration wins, so installing a resolver cannot change how an
\* already-working deployment behaves").
ExplicitConfigurationWins == FromEnv => held = 0
=============================================================================
