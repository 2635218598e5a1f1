-------------------------- MODULE DeviceOperations --------------------------
(***************************************************************************)
(* What the admins of a tenant do with its devices (routers/api.py):       *)
(* claiming one from the catalog, accepting an upgrade, registering and    *)
(* deleting one, and calling a tool.  Each request is a sequence of awaited *)
(* calls to the catalog and to the gateway, whose state the requests       *)
(* share; relay.py may repeat a call to the gateway once.                  *)
(*                                                                         *)
(* update, fingerprint approval, dead-letter replay and drain are handlers *)
(* of the same shape as delete.  The device type is one, and so is the     *)
(* tenant; of a device only the version it was registered with matters.    *)
(***************************************************************************)
EXTENDS Naturals, FiniteSets

CONSTANTS
    Requests,
    Hosts,
    MaxVersion    \* bound: the versions the curator publishes

ASSUME MaxVersionAssumption == MaxVersion \in Nat \ {0}

Kinds == {"claim", "accept", "register", "delete", "invoke"}
Versions == 1 .. MaxVersion
None == 0                     \* no pin
FreeForm == MaxVersion + 1    \* registered without the catalog
NoDevice == MaxVersion + 2

VARIABLES
    at,         \* where each request is
    kind,       \* the handler it runs
    host,       \* the hostname it is about
    current,    \* the version it has read, or was given
    status,     \* the upstream answer it goes on with
    again,      \* its call is the repetition after a refreshed token
    audited,    \* the actions in the audit chain, by request
    published,  \* the newest version in the catalog
    assigned,   \* the type is assigned to the tenant
    pin,        \* the catalog's claims: the pinned version of each hostname
    device,     \* the gateway's registry
    accepted,   \* the gateway accepts the session's access token
    mcp,        \* the requests whose MCP session the gateway holds
    ran,        \* history: how often a request's tool has run
    effect,     \* history: the requests whose change was made, without an answer
                \* that it was not
    owes,       \* history: the requests that were given a session and have not
                \* asked to end it
    parted,     \* history: hostnames whose pin and device went apart as they may
    pinAnswered \* history: claims whose pin the catalog answered, somehow

reqVars == <<at, kind, host, current, status, again, audited>>
catalogVars == <<published, assigned, pin>>
gatewayVars == <<device, accepted, mcp>>
historyVars == <<ran, effect, owes, parted, pinAnswered>>
vars == <<reqVars, catalogVars, gatewayVars, historyVars>>

Places == {"idle", "assignments", "detail", "register", "delete", "open",
           "call", "close", "audit", "pin", "trace", "repin",
           "done", "failed", "dead"}
AtGateway == {"register", "delete", "open", "call", "close"}

Init ==
    /\ at = [r \in Requests |-> "idle"]
    /\ kind \in [Requests -> Kinds]
    /\ host \in [Requests -> Hosts]
    /\ current = [r \in Requests |-> None]
    /\ status = [r \in Requests |-> "none"]
    /\ again = [r \in Requests |-> FALSE]
    /\ audited = [r \in Requests |-> {}]
    /\ published = 1
    /\ assigned \in BOOLEAN
    /\ pin = [h \in Hosts |-> None]
    /\ device = [h \in Hosts |-> NoDevice]
    /\ accepted = TRUE
    /\ mcp = {}
    /\ ran = [r \in Requests |-> 0]
    /\ effect = {}
    /\ owes = {}
    /\ parted = {}
    /\ pinAnswered = {}

Goto(r, place) == at' = [at EXCEPT ![r] = place]

-----------------------------------------------------------------------------
(* The catalog: assignments, versions and pins.                            *)

\* The first step: require_role has let the request in.
Start(r) ==
    /\ at[r] = "idle"
    /\ CASE kind[r] = "claim" -> Goto(r, "assignments") /\ UNCHANGED current
         [] kind[r] = "accept" -> /\ Goto(r, "repin")
                                  /\ \E v \in 1 .. published : current' = [current EXCEPT ![r] = v]
         [] kind[r] = "register" -> Goto(r, "register") /\ current' = [current EXCEPT ![r] = FreeForm]
         [] kind[r] = "delete" -> Goto(r, "delete") /\ UNCHANGED current
         [] OTHER -> Goto(r, "open") /\ UNCHANGED current
    /\ UNCHANGED <<kind, host, status, again, audited, catalogVars, gatewayVars, historyVars>>

\* CatalogUnavailable before anything was done: 503.
CatalogAway(r) ==
    /\ at[r] \in {"assignments", "detail", "repin"}
    /\ Goto(r, "failed")
    /\ UNCHANGED <<kind, host, current, status, again, audited, catalogVars, gatewayVars, historyVars>>

\* _assigned_types; 403 for what is not.
ReadAssignments(r) ==
    /\ at[r] = "assignments"
    /\ Goto(r, IF assigned THEN "detail" ELSE "failed")
    /\ UNCHANGED <<kind, host, current, status, again, audited, catalogVars, gatewayVars, historyVars>>

\* The newest version; a body that names an address for a type with its own,
\* or a type that has lost its address, ends here.
ReadVersions(r) ==
    /\ at[r] = "detail"
    /\ \/ /\ current' = [current EXCEPT ![r] = published]
          /\ Goto(r, "register")
       \/ /\ Goto(r, "failed")
          /\ UNCHANGED current
    /\ UNCHANGED <<kind, host, status, again, audited, catalogVars, gatewayVars, historyVars>>

\* The pin a claim records: the version it merged.
NewestMutant(r) == published
Pinned(r) == current[r]

\* Where a claim goes when the follow-up failed.
SilentMutant == "done"
AfterLostPin == "trace"

\* The follow-up of a claim.  An answer that is no success raises nothing and
\* is not looked at; CatalogUnavailable may come of a call that was served.
Pin(r) ==
    /\ at[r] = "pin"
    /\ \/ pin' = [pin EXCEPT ![host[r]] = Pinned(r)]
       \/ UNCHANGED pin
    /\ \/ Goto(r, "done") /\ pinAnswered' = pinAnswered \cup {r}
       \/ Goto(r, AfterLostPin) /\ UNCHANGED pinAnswered
    /\ UNCHANGED <<kind, host, current, status, again, audited, published, assigned,
                   gatewayVars, ran, effect, owes, parted>>

\* device.claim.pin_unrecorded.
Trace(r) ==
    /\ at[r] = "trace"
    /\ audited' = [audited EXCEPT ![r] = @ \cup {"pin_unrecorded"}]
    /\ Goto(r, "done")
    /\ UNCHANGED <<kind, host, current, status, again, catalogVars, gatewayVars, historyVars>>

\* accept_upgrade re-pins the hostname, whatever the gateway has under it.
Repin(r) ==
    /\ at[r] = "repin"
    /\ \/ /\ pin' = [pin EXCEPT ![host[r]] = current[r]]
          /\ parted' = parted \cup {host[r]}
          /\ effect' = effect \cup {r}
          /\ status' = [status EXCEPT ![r] = "ok"]
          /\ Goto(r, "audit")
       \/ \* an error status, which need not mean that nothing was pinned
          /\ status' = [status EXCEPT ![r] = "refused"]
          /\ Goto(r, "audit")
          /\ \/ UNCHANGED <<pin, parted>>
             \/ /\ pin' = [pin EXCEPT ![host[r]] = current[r]]
                /\ parted' = parted \cup {host[r]}
          /\ UNCHANGED effect
       \/ \* served, but the answer was lost
          /\ pin' = [pin EXCEPT ![host[r]] = current[r]]
          /\ parted' = parted \cup {host[r]}
          /\ effect' = effect \cup {r}
          /\ Goto(r, "failed")
          /\ UNCHANGED status
    /\ UNCHANGED <<kind, host, current, again, audited, published, assigned,
                   gatewayVars, ran, owes, pinAnswered>>

-----------------------------------------------------------------------------
(* The gateway, through relay_request.                                     *)

\* What the gateway does with a call it accepts.
Serve(r) ==
    LET h == host[r] IN
    CASE at[r] = "register" ->
             /\ device[h] = NoDevice
             /\ device' = [device EXCEPT ![h] = current[r]]
             /\ parted' = IF pin[h] # None \/ current[r] = FreeForm THEN parted \cup {h} ELSE parted
             /\ UNCHANGED <<mcp, ran>>
      [] at[r] = "delete" ->
             /\ device[h] # NoDevice
             /\ device' = [device EXCEPT ![h] = NoDevice]
             /\ parted' = parted \cup {h}
             /\ UNCHANGED <<mcp, ran>>
      [] at[r] = "open" ->
             /\ device[h] # NoDevice
             /\ mcp' = mcp \cup {r}
             /\ UNCHANGED <<device, parted, ran>>
      [] at[r] = "call" ->
             /\ r \in mcp
             /\ ran' = [ran EXCEPT ![r] = @ + 1]
             /\ UNCHANGED <<device, mcp, parted>>
      [] at[r] = "close" ->
             /\ mcp' = mcp \ {r}
             /\ UNCHANGED <<device, parted, ran>>

NotServed == UNCHANGED <<device, mcp, parted, ran>>

\* Where a handler goes with an answer: an opened session is called and then
\* closed, and what the close answers is not looked at.
AfterAudit(r, answer) == IF kind[r] = "claim" /\ answer = "ok" THEN "pin" ELSE "done"

RefusedUnrecordedMutant(r, answer) ==
    CASE at[r] = "open" -> IF answer = "ok" THEN "call" ELSE "done"
      [] at[r] = "call" -> "close"
      [] OTHER -> "audit"
AfterAnswer(r, answer) ==
    CASE at[r] = "open" /\ answer = "ok" -> "call"
      [] at[r] = "call" -> "close"
      [] OTHER -> "audit"

\* And with an exception: the session is closed nevertheless.
NoFinallyMutant(r) == "failed"
AfterException(r) ==
    CASE at[r] = "call" -> "close"
      [] at[r] = "close" -> IF status[r] = "raised" THEN "failed" ELSE "audit"
      [] OTHER -> "failed"

\* The answer of the tool is kept over the close.
Status(r, answer) == IF at[r] = "close" THEN status[r] ELSE answer

Continue(r, answer) ==
    /\ at' = [at EXCEPT ![r] = IF at[r] = "close" /\ status[r] = "raised" THEN "failed"
                               ELSE AfterAnswer(r, answer)]
    /\ status' = [status EXCEPT ![r] = Status(r, answer)]
    /\ again' = [again EXCEPT ![r] = FALSE]

Raise(r) ==
    /\ at' = [at EXCEPT ![r] = AfterException(r)]
    /\ status' = [status EXCEPT ![r] = Status(r, "raised")]
    /\ again' = [again EXCEPT ![r] = FALSE]

\* relay_request repeats a call that was answered 401, once, with the token a
\* refresh returned.  A call that broke is not repeated.
Repeat(r) == again' = [again EXCEPT ![r] = TRUE] /\ UNCHANGED <<at, status>>
RepeatLostMutant(r) == IF again[r] THEN Raise(r) ELSE Repeat(r)
AfterBreak(r) == Raise(r)

\* Bookkeeping of the history.
Made(r) ==
    effect' = IF at[r] \in {"register", "delete", "call"} THEN effect \cup {r} ELSE effect
Owes(r, answer) ==
    owes' = CASE at[r] = "open" /\ answer = "ok" -> owes \cup {r}
              [] at[r] = "close" -> owes \ {r}
              [] OTHER -> owes

\* The gateway answers: an error status may hide that it acted.
Answered(r) ==
    /\ at[r] \in AtGateway
    /\ accepted
    /\ \/ Serve(r) /\ Made(r) /\ Continue(r, "ok") /\ Owes(r, "ok")
       \/ /\ Serve(r) \/ NotServed
          /\ Continue(r, "refused")
          /\ Owes(r, "refused")
          /\ UNCHANGED effect
    /\ UNCHANGED <<kind, host, current, audited, catalogVars, accepted, pinAnswered>>

\* The handshake is answered without a session id: 502.
NoSessionId(r) ==
    /\ at[r] = "open"
    /\ accepted
    /\ Goto(r, "failed")
    /\ UNCHANGED <<kind, host, current, status, again, audited, catalogVars, gatewayVars, historyVars>>

Unauthorized(r) ==
    /\ at[r] \in AtGateway
    /\ ~accepted
    /\ \/ /\ ~again[r]
          /\ Repeat(r)
          /\ accepted' = TRUE
       \/ /\ Continue(r, "refused")
          /\ UNCHANGED accepted
    /\ Owes(r, "refused")
    /\ NotServed
    /\ UNCHANGED <<kind, host, current, audited, catalogVars, effect, pinAnswered>>

\* The connection breaks, before or after the gateway did what was asked.
Broken(r) ==
    /\ at[r] \in AtGateway
    /\ \/ accepted /\ Serve(r) /\ Made(r)
       \/ NotServed /\ UNCHANGED effect
    /\ AfterBreak(r)
    /\ Owes(r, "raised")
    /\ UNCHANGED <<kind, host, current, audited, catalogVars, accepted, pinAnswered>>

\* _audited.
Audit(r) ==
    /\ at[r] = "audit"
    /\ audited' = [audited EXCEPT ![r] = @ \cup {status[r]}]
    /\ Goto(r, AfterAudit(r, status[r]))
    /\ UNCHANGED <<kind, host, current, status, again, catalogVars, gatewayVars, historyVars>>

-----------------------------------------------------------------------------
(* The rest of the world.                                                  *)

\* The process is killed, or the request is cancelled.
Die(r) ==
    /\ at[r] \notin {"idle", "done", "failed", "dead"}
    /\ Goto(r, "dead")
    /\ UNCHANGED <<kind, host, current, status, again, audited, catalogVars, gatewayVars, historyVars>>

Publish ==
    /\ published < MaxVersion
    /\ published' = published + 1
    /\ UNCHANGED <<reqVars, assigned, pin, gatewayVars, historyVars>>

Reassign ==
    /\ assigned' = ~assigned
    /\ UNCHANGED <<reqVars, published, pin, gatewayVars, historyVars>>

TokenExpires ==
    /\ accepted
    /\ accepted' = FALSE
    /\ UNCHANGED <<reqVars, catalogVars, device, mcp, historyVars>>

Handler(r) ==
    \/ Start(r) \/ CatalogAway(r) \/ ReadAssignments(r) \/ ReadVersions(r)
    \/ Pin(r) \/ Trace(r) \/ Repin(r)
    \/ Answered(r) \/ NoSessionId(r) \/ Unauthorized(r) \/ Broken(r) \/ Audit(r)

Next ==
    \/ \E r \in Requests : Handler(r) \/ Die(r)
    \/ Publish \/ Reassign \/ TokenExpires

Spec == Init /\ [][Next]_vars
-----------------------------------------------------------------------------
(* Properties.                                                             *)

Answers == {"ok", "refused", "raised"}

TypeOK ==
    /\ at \in [Requests -> Places]
    /\ kind \in [Requests -> Kinds]
    /\ host \in [Requests -> Hosts]
    /\ current \in [Requests -> Versions \cup {None, FreeForm}]
    /\ status \in [Requests -> Answers \cup {"none"}]
    /\ again \in [Requests -> BOOLEAN]
    /\ audited \in [Requests -> SUBSET (Answers \cup {"pin_unrecorded"})]
    /\ published \in Versions
    /\ assigned \in BOOLEAN
    /\ pin \in [Hosts -> Versions \cup {None}]
    /\ device \in [Hosts -> Versions \cup {FreeForm, NoDevice}]
    /\ accepted \in BOOLEAN
    /\ mcp \subseteq Requests
    /\ ran \in [Requests -> Nat]
    /\ effect \subseteq Requests
    /\ owes \subseteq Requests
    /\ parted \subseteq Hosts
    /\ pinAnswered \subseteq Requests
    /\ \A r \in Requests : at[r] \in {"pin", "trace"} => kind[r] = "claim" /\ r \in effect

\* What the catalog takes a device to have been claimed at is what the gateway
\* has, though the curator publishes during the claim and another claim of the
\* hostname loses against it, unless an upgrade was accepted or the hostname
\* was deleted or registered anew (api.py, 304-312).
PinMatchesDevice ==
    \A h \in Hosts \ parted : pin[h] # None /\ device[h] # NoDevice => pin[h] = device[h]

\* A claim that is through and was told of its device had its pin answered by
\* the catalog or is in the chain as unrecorded (192-199).
ClaimLeavesTrace ==
    \A r \in Requests :
        at[r] = "done" /\ kind[r] = "claim" /\ r \in effect =>
            r \in pinAnswered \/ "pin_unrecorded" \in audited[r]

\* An invocation runs its tool once at most, whatever is lost or refused on
\* the way: the relay repeats only what the gateway turned away.
ToolRunsOnce == \A r \in Requests : ran[r] <= 1

\* An invocation that ends, well or badly, has asked the gateway to end the
\* session it was given (539-555).
SessionsAreTornDown == \A r \in Requests : at[r] \in {"done", "failed"} => r \notin owes

\* What the browser is told of a change is in the chain before, and a change
\* the gateway or the catalog made is in it as one unless the browser was told
\* nothing of it, or they answered that they had not made it (52-62).
AnswersAreRecorded ==
    \A r \in Requests :
        at[r] = "done" => status[r] \in audited[r] /\ (r \in effect => "ok" \in audited[r])

\* A claim that registered a device is pinned, or in the chain as unrecorded,
\* when it is through (api.py, 195-199).  An answer of the catalog that is no success leaves neither.
ClaimPinnedOrTraced ==
    \A r \in Requests :
        at[r] = "done" /\ kind[r] = "claim" /\ r \in effect =>
            pin[host[r]] # None \/ "pin_unrecorded" \in audited[r]

\* A change that was made, and not denied, is in the chain when its request has
\* ended (api.py, 53-62).  One whose answer was lost is not.
EffectsAreRecorded ==
    \A r \in Requests : at[r] \in {"done", "failed"} /\ r \in effect => "ok" \in audited[r]
=============================================================================
