----------------------- MODULE DeviceOperationsProofs -----------------------
(***************************************************************************)
(* Proofs about DeviceOperations, for any number of requests, hostnames    *)
(* and published versions.                                                 *)
(***************************************************************************)
EXTENDS DeviceOperations, TLAPS

USE MaxVersionAssumption

LEMMA Numbers ==
  /\ None \notin Versions /\ FreeForm \notin Versions /\ NoDevice \notin Versions
  /\ None # FreeForm /\ None # NoDevice /\ FreeForm # NoDevice
  /\ 1 \in Versions
  BY DEF None, Versions, FreeForm, NoDevice

Typed ==
    /\ at \in [Requests -> Places]
    /\ kind \in [Requests -> Kinds]
    /\ host \in [Requests -> Hosts]
    /\ current \in [Requests -> Versions \cup {None, FreeForm}]
    /\ status \in [Requests -> Answers \cup {"none"}]
    /\ again \in [Requests -> BOOLEAN]
    /\ audited \in [Requests -> SUBSET (Answers \cup {"pin_unrecorded"})]
    /\ published \in Versions
    /\ assigned \in BOOLEAN
    /\ pin \in [Hosts -> Versions \cup {None}]
    /\ device \in [Hosts -> Versions \cup {FreeForm, NoDevice}]
    /\ accepted \in BOOLEAN
    /\ mcp \subseteq Requests
    /\ ran \in [Requests -> Nat]
    /\ effect \subseteq Requests
    /\ owes \subseteq Requests
    /\ parted \subseteq Hosts
    /\ pinAnswered \subseteq Requests

\* Which handler a request is in follows from where it is.
Placed(r) ==
    /\ at[r] \in {"assignments", "detail", "pin", "trace"} => kind[r] = "claim"
    /\ at[r] = "register" => \/ kind[r] = "claim" /\ current[r] \in Versions
                             \/ kind[r] = "register" /\ current[r] = FreeForm
    /\ at[r] = "delete" => kind[r] = "delete"
    /\ at[r] \in {"open", "call", "close"} => kind[r] = "invoke"
    /\ at[r] = "repin" => kind[r] = "accept" /\ current[r] \in Versions
    /\ at[r] \in {"audit", "pin"} /\ kind[r] = "claim" => current[r] \in Versions

\* What a request has done and is owed by then.
Early == {"idle", "assignments", "detail", "register", "delete", "open", "repin", "call"}
Done(r) ==
    /\ ran[r] <= 1
    /\ at[r] \in Early => ran[r] = 0 /\ r \notin effect
    /\ r \in owes => at[r] \in {"call", "close", "dead"}

\* What is known of its answer, and what of it is recorded.
Recorded(r) ==
    /\ at[r] = "close" => \/ status[r] = "raised"
                          \/ status[r] \in {"ok", "refused"} /\ (r \in effect <=> status[r] = "ok")
    /\ at[r] = "audit" => status[r] \in {"ok", "refused"} /\ (r \in effect <=> status[r] = "ok")
    /\ at[r] \in {"pin", "trace"} => r \in effect
    /\ at[r] \in {"pin", "trace", "done"} =>
          status[r] \in audited[r] /\ (r \in effect => "ok" \in audited[r])
    /\ at[r] = "done" /\ kind[r] = "claim" /\ r \in effect =>
          r \in pinAnswered \/ "pin_unrecorded" \in audited[r]

\* A device whose claim is not pinned yet has the version that will be.
PinPending ==
    \A r \in Requests :
        at[r] \in {"audit", "pin"} /\ kind[r] = "claim" /\ r \in effect /\ host[r] \notin parted
            => device[host[r]] = current[r]

DeviceInv ==
    /\ Typed
    /\ \A r \in Requests : Placed(r) /\ Done(r) /\ Recorded(r)
    /\ PinPending
    /\ PinMatchesDevice

LEMMA InitDeviceInv == Init => DeviceInv
<1> SUFFICES ASSUME Init PROVE DeviceInv
  OBVIOUS
<1>1. Typed
  BY Numbers DEF Init, Typed, Places, Answers
<1>2. ASSUME NEW r \in Requests PROVE Placed(r) /\ Done(r) /\ Recorded(r)
  BY DEF Init, Placed, Done, Recorded, Early
<1>3. PinPending /\ PinMatchesDevice
  BY DEF Init, PinPending, PinMatchesDevice
<1> QED
  BY <1>1, <1>2, <1>3 DEF DeviceInv

-----------------------------------------------------------------------------
(* The steps of a request.                                                 *)

\* A step of a request leaves the others where they are.
Alone(r) ==
    \A s \in Requests \ {r} :
        /\ at'[s] = at[s] /\ kind'[s] = kind[s] /\ current'[s] = current[s]
        /\ status'[s] = status[s] /\ audited'[s] = audited[s] /\ ran'[s] = ran[s]
        /\ s \in effect' <=> s \in effect
        /\ s \in owes' <=> s \in owes
        /\ s \in pinAnswered => s \in pinAnswered'

LEMMA OthersStay ==
  ASSUME DeviceInv, NEW r \in Requests, Alone(r),
         Placed(r)', Done(r)', Recorded(r)'
  PROVE  \A s \in Requests : Placed(s)' /\ Done(s)' /\ Recorded(s)'
<1> SUFFICES ASSUME NEW s \in Requests \ {r} PROVE Placed(s)' /\ Done(s)' /\ Recorded(s)'
  OBVIOUS
<1>1. Placed(s) /\ Done(s) /\ Recorded(s)
  BY DEF DeviceInv
<1> QED
  BY <1>1 DEF Alone, Placed, Done, Recorded

\* Pins and devices that nobody touches stay as they match.
LEMMA PinsStay ==
  ASSUME DeviceInv, NEW r \in Requests, Alone(r), Typed',
         UNCHANGED <<kind, host, pin, device, parted>>,
         at'[r] \in {"audit", "pin"} /\ kind[r] = "claim" /\ r \in effect' =>
             at[r] \in {"audit", "pin"} /\ r \in effect /\ current'[r] = current[r]
  PROVE  PinPending' /\ PinMatchesDevice'
<1>1. PinPending /\ PinMatchesDevice
  BY DEF DeviceInv
<1>2. PinMatchesDevice'
  BY <1>1 DEF PinMatchesDevice
<1>3. PinPending'
  BY <1>1 DEF PinPending, Alone
<1> QED
  BY <1>2, <1>3

\* The steps that touch neither the catalog's nor the gateway's state.
LEMMA QuietStepKeeps ==
  ASSUME DeviceInv, NEW r \in Requests,
         Start(r) \/ CatalogAway(r) \/ ReadAssignments(r) \/ ReadVersions(r)
           \/ Trace(r) \/ NoSessionId(r) \/ Audit(r) \/ Die(r)
  PROVE  DeviceInv'
<1>0. Typed /\ Placed(r) /\ Done(r) /\ Recorded(r)
  BY DEF DeviceInv
<1>1. UNCHANGED <<kind, host, again, catalogVars, gatewayVars, historyVars>>
  BY DEF Start, CatalogAway, ReadAssignments, ReadVersions, Trace, NoSessionId, Audit, Die
<1>2. PICK p \in Places : at' = [at EXCEPT ![r] = p]
  BY DEF Start, CatalogAway, ReadAssignments, ReadVersions, Trace, NoSessionId, Audit, Die,
         Goto, Places, AfterAudit
<1>3. PICK v \in Versions \cup {None, FreeForm} : current' = [current EXCEPT ![r] = v]
  <2>1. CASE UNCHANGED current
    BY <1>0, <2>1 DEF Typed
  <2>2. CASE Start(r) /\ ~UNCHANGED current
    BY <1>0, <2>2 DEF Start, Typed, Versions
  <2>3. CASE ReadVersions(r) /\ ~UNCHANGED current
    BY <1>0, <2>3 DEF ReadVersions, Typed
  <2> QED
    BY <2>1, <2>2, <2>3 DEF CatalogAway, ReadAssignments, Trace, NoSessionId, Audit, Die
<1>4. status' = status
  BY DEF Start, CatalogAway, ReadAssignments, ReadVersions, Trace, NoSessionId, Audit, Die
<1>5. PICK A \in SUBSET (Answers \cup {"pin_unrecorded"}) : audited' = [audited EXCEPT ![r] = A]
  <2>1. CASE UNCHANGED audited
    BY <1>0, <2>1 DEF Typed
  <2>2. CASE Trace(r)
    BY <1>0, <2>2 DEF Trace, Typed
  <2>3. CASE Audit(r)
    <3>1. status[r] \in Answers
      BY <1>0, <2>3 DEF Audit, Recorded, Answers
    <3> QED
      BY <1>0, <2>3, <3>1 DEF Audit, Typed
  <2> QED
    BY <2>1, <2>2, <2>3 DEF Start, CatalogAway, ReadAssignments, ReadVersions, NoSessionId, Die
<1>6. /\ ran' = ran /\ effect' = effect /\ owes' = owes /\ parted' = parted
      /\ pinAnswered' = pinAnswered /\ device' = device /\ accepted' = accepted /\ mcp' = mcp
      /\ published' = published /\ assigned' = assigned /\ pin' = pin
      /\ kind' = kind /\ host' = host /\ again' = again
  BY <1>1 DEF catalogVars, gatewayVars, historyVars
<1>7. Typed'
  BY <1>0, <1>2, <1>3, <1>4, <1>5, <1>6 DEF Typed
<1>8. Alone(r)
  BY <1>0, <1>2, <1>3, <1>4, <1>5, <1>6 DEF Typed, Alone
<1>9. at'[r] = p /\ current'[r] = v /\ audited'[r] = A
  BY <1>0, <1>2, <1>3, <1>5 DEF Typed
<1>10. Placed(r)' /\ Done(r)' /\ Recorded(r)'
  <2>1. CASE Start(r)
    <3>1. kind[r] \in Kinds /\ at[r] = "idle" /\ r \notin owes
      BY <1>0, <2>1 DEF Typed, Start, Done
    <3>2. \/ kind[r] = "claim" /\ p = "assignments"
          \/ kind[r] = "accept" /\ p = "repin" /\ v \in Versions
          \/ kind[r] = "register" /\ p = "register" /\ v = FreeForm
          \/ kind[r] = "delete" /\ p = "delete"
          \/ kind[r] = "invoke" /\ p = "open"
      <4>1. \A w \in 1 .. published : w \in Versions
        BY <1>0 DEF Typed, Versions
      <4>2. at'[r] = p /\ current'[r] = v
        BY <1>9
      <4> QED
        BY <1>0, <2>1, <3>1, <4>1, <4>2 DEF Start, Goto, Kinds, Typed
    <3> QED
      BY <1>0, <1>4, <1>6, <1>9, <3>1, <3>2 DEF Placed, Done, Recorded, Early
  <2>2. CASE CatalogAway(r) \/ NoSessionId(r) \/ Die(r)
    <3>1. p \in {"failed", "dead"}
      BY <1>0, <1>9, <2>2 DEF CatalogAway, NoSessionId, Die, Goto, Typed
    <3>2. p = "failed" => r \notin owes
      BY <1>0, <1>9, <2>2 DEF CatalogAway, NoSessionId, Die, Goto, Typed, Done
    <3> QED
      BY <1>0, <1>4, <1>6, <1>9, <3>1, <3>2 DEF Placed, Done, Recorded, Early
  <2>3. CASE ReadAssignments(r)
    <3>1. p \in {"detail", "failed"} /\ at[r] = "assignments"
      BY <1>0, <1>9, <2>3 DEF ReadAssignments, Goto, Typed
    <3> QED
      BY <1>0, <1>4, <1>6, <1>9, <3>1 DEF Placed, Done, Recorded, Early
  <2>4. CASE ReadVersions(r)
    <3>1. /\ (p = "register" /\ v \in Versions) \/ p = "failed"
          /\ at[r] = "detail"
      BY <1>0, <1>9, <2>4 DEF ReadVersions, Goto, Typed
    <3> QED
      BY <1>0, <1>4, <1>6, <1>9, <3>1 DEF Placed, Done, Recorded, Early
  <2>5. CASE Trace(r)
    <3>1. p = "done" /\ at[r] = "trace" /\ A = audited[r] \cup {"pin_unrecorded"}
      BY <1>0, <1>9, <2>5 DEF Trace, Goto, Typed
    <3> QED
      BY <1>0, <1>4, <1>6, <1>9, <3>1 DEF Placed, Done, Recorded, Early
  <2>6. CASE Audit(r)
    <3>1. at[r] = "audit" /\ A = audited[r] \cup {status[r]} /\ p = AfterAudit(r, status[r])
      BY <1>0, <1>9, <2>6 DEF Audit, Goto, Typed
    <3>2. \/ kind[r] = "claim" /\ status[r] = "ok" /\ p = "pin"
          \/ ~(kind[r] = "claim" /\ status[r] = "ok") /\ p = "done"
      BY <3>1 DEF AfterAudit
    <3> QED
      BY <1>0, <1>3, <1>4, <1>6, <1>9, <2>6, <3>1, <3>2 DEF Placed, Done, Recorded, Early, Audit
  <2> QED
    BY <2>1, <2>2, <2>3, <2>4, <2>5, <2>6
<1>11. at'[r] \in {"audit", "pin"} /\ kind[r] = "claim" /\ r \in effect' =>
             at[r] \in {"audit", "pin"} /\ r \in effect /\ current'[r] = current[r]
  <2>1. CASE Audit(r)
    BY <1>6, <2>1 DEF Audit
  <2>2. CASE ~Audit(r)
    BY <1>0, <1>2, <2>2 DEF Start, CatalogAway, ReadAssignments, ReadVersions, Trace,
          NoSessionId, Die, Goto, Typed
  <2> QED
    BY <2>1, <2>2
<1>12. PinPending' /\ PinMatchesDevice'
  BY <1>6, <1>7, <1>8, <1>11, PinsStay
<1> QED
  BY <1>7, <1>8, <1>10, <1>12, OthersStay DEF DeviceInv

\* The claim records the version it registered.
LEMMA PinKeeps ==
  ASSUME DeviceInv, NEW r \in Requests, Pin(r)
  PROVE  DeviceInv'
<1>0. /\ Typed /\ Placed(r) /\ Done(r) /\ Recorded(r) /\ PinPending /\ PinMatchesDevice
      /\ at[r] = "pin"
  BY DEF DeviceInv, Pin
<1>1. /\ kind' = kind /\ host' = host /\ current' = current /\ status' = status
      /\ again' = again /\ audited' = audited /\ published' = published
      /\ assigned' = assigned /\ device' = device /\ accepted' = accepted /\ mcp' = mcp
      /\ ran' = ran /\ effect' = effect /\ owes' = owes /\ parted' = parted
  BY DEF Pin, gatewayVars
<1>2. PICK p \in {"done", "trace"} :
          /\ at' = [at EXCEPT ![r] = p]
          /\ pinAnswered' \in {pinAnswered, pinAnswered \cup {r}}
          /\ p = "done" => r \in pinAnswered'
  BY DEF Pin, Goto, AfterLostPin
<1>3. /\ r \in effect /\ kind[r] = "claim" /\ current[r] \in Versions /\ host[r] \in Hosts
  BY <1>0 DEF Placed, Recorded, Typed
<1>4. pin' \in {pin, [pin EXCEPT ![host[r]] = current[r]]}
  BY DEF Pin, Pinned
<1>5. Typed'
  <2>1. pin' \in [Hosts -> Versions \cup {None}]
    BY <1>0, <1>3, <1>4 DEF Typed
  <2>2. at' \in [Requests -> Places] /\ pinAnswered' \subseteq Requests
    BY <1>0, <1>2 DEF Typed, Places
  <2> QED
    BY <1>0, <1>1, <2>1, <2>2 DEF Typed
<1>6. Alone(r) /\ at'[r] = p
  BY <1>0, <1>1, <1>2 DEF Typed, Alone
<1>7. Placed(r)' /\ Done(r)' /\ Recorded(r)'
  BY <1>0, <1>1, <1>2, <1>6 DEF Placed, Done, Recorded, Early
<1>8. PinPending'
  BY <1>0, <1>1, <1>6 DEF PinPending, Alone
<1>9. ASSUME NEW h \in Hosts \ parted', pin'[h] # None, device'[h] # NoDevice
      PROVE  pin'[h] = device'[h]
  <2>1. CASE h = host[r] /\ pin' # pin
    <3>1. pin'[h] = current[r]
      BY <1>0, <1>4, <2>1 DEF Typed
    <3>2. device[h] = current[r]
      BY <1>0, <1>1, <1>3, <1>9, <2>1 DEF PinPending
    <3> QED
      BY <1>1, <3>1, <3>2
  <2>2. CASE h # host[r] \/ pin' = pin
    <3>1. pin'[h] = pin[h]
      BY <1>0, <1>4, <2>2 DEF Typed
    <3> QED
      BY <1>0, <1>1, <1>9, <3>1 DEF PinMatchesDevice
  <2> QED
    BY <2>1, <2>2
<1>10. PinMatchesDevice'
  BY <1>9 DEF PinMatchesDevice
<1> QED
  BY <1>5, <1>6, <1>7, <1>8, <1>10, OthersStay DEF DeviceInv

\* An accepted upgrade may part pin and device, which is noted.
LEMMA RepinKeeps ==
  ASSUME DeviceInv, NEW r \in Requests, Repin(r)
  PROVE  DeviceInv'
<1>0. /\ Typed /\ Placed(r) /\ Done(r) /\ Recorded(r) /\ PinPending /\ PinMatchesDevice
      /\ at[r] = "repin" /\ kind[r] = "accept" /\ current[r] \in Versions /\ host[r] \in Hosts
  BY DEF DeviceInv, Repin, Typed, Placed
<1>1. /\ kind' = kind /\ host' = host /\ current' = current
      /\ again' = again /\ audited' = audited /\ published' = published
      /\ assigned' = assigned /\ device' = device /\ accepted' = accepted /\ mcp' = mcp
      /\ ran' = ran /\ owes' = owes /\ pinAnswered' = pinAnswered
  BY DEF Repin, gatewayVars
<1>2. PICK p \in {"audit", "failed"}, t \in Answers \cup {"none"} :
          /\ at' = [at EXCEPT ![r] = p]
          /\ status' = [status EXCEPT ![r] = t]
          /\ \/ /\ pin' = [pin EXCEPT ![host[r]] = current[r]]
                /\ parted' = parted \cup {host[r]}
             \/ pin' = pin /\ parted' = parted
          /\ \/ effect' = effect \cup {r} /\ (p = "audit" => t = "ok")
             \/ effect' = effect /\ p = "audit" /\ t = "refused"
  <2>1. status[r] \in Answers \cup {"none"} /\ status = [status EXCEPT ![r] = status[r]]
    BY <1>0 DEF Typed
  <2> QED
    BY <2>1 DEF Repin, Goto, Answers
<1>3. Typed'
  <2>1. pin' \in [Hosts -> Versions \cup {None}]
    BY <1>0, <1>2 DEF Typed
  <2>2. /\ at' \in [Requests -> Places] /\ status' \in [Requests -> Answers \cup {"none"}]
        /\ effect' \subseteq Requests /\ parted' \subseteq Hosts
    BY <1>0, <1>2 DEF Typed, Places
  <2> QED
    BY <1>0, <1>1, <2>1, <2>2 DEF Typed
<1>4. Alone(r) /\ at'[r] = p /\ status'[r] = t
  BY <1>0, <1>1, <1>2 DEF Typed, Alone
<1>5. Placed(r)' /\ Done(r)' /\ Recorded(r)'
  BY <1>0, <1>1, <1>2, <1>4 DEF Placed, Done, Recorded, Early
<1>6. PinPending'
  BY <1>0, <1>1, <1>2, <1>4 DEF PinPending, Alone
<1>7. PinMatchesDevice'
  <2>1. \A h \in Hosts \ parted' : pin'[h] = pin[h] /\ h \notin parted
    BY <1>0, <1>2 DEF Typed
  <2> QED
    BY <1>0, <1>1, <2>1 DEF PinMatchesDevice
<1> QED
  BY <1>3, <1>4, <1>5, <1>6, <1>7, OthersStay DEF DeviceInv

-----------------------------------------------------------------------------
(* The calls to the gateway.                                               *)

\* What a call to the gateway does, served or not, to the hostname and to the
\* request; the rest is the handler's.  It is told of as made only if it was.
Touches(r, served, told) ==
    LET h == host[r] IN
    /\ device' \in [Hosts -> Versions \cup {FreeForm, NoDevice}]
    /\ mcp' \subseteq Requests
    /\ parted \subseteq parted' /\ parted' \subseteq Hosts
    /\ told => served
    /\ effect' = IF told /\ at[r] \in {"register", "delete", "call"} THEN effect \cup {r} ELSE effect
    /\ ran' = IF served /\ at[r] = "call" THEN [ran EXCEPT ![r] = @ + 1] ELSE ran
    /\ \A g \in Hosts \ {h} : device'[g] = device[g]
    /\ \/ device'[h] = device[h]
       \/ h \in parted'
       \/ /\ at[r] = "register" /\ kind[r] = "claim" /\ device[h] = NoDevice
          /\ device'[h] = current[r] /\ pin[h] = None
    /\ served /\ at[r] = "register" => h \in parted' \/ device'[h] = current[r]

LEMMA ServeTouches ==
  ASSUME DeviceInv, NEW r \in Requests, at[r] \in AtGateway, Serve(r),
         NEW told \in BOOLEAN, IF told THEN Made(r) ELSE UNCHANGED effect
  PROVE  Touches(r, TRUE, told)
<1>0. /\ Typed /\ Placed(r) /\ host[r] \in Hosts
      /\ effect' = IF told /\ at[r] \in {"register", "delete", "call"} THEN effect \cup {r} ELSE effect
  BY DEF DeviceInv, Typed, Made
<1>1. CASE at[r] = "register"
  <2>1. /\ device[host[r]] = NoDevice
        /\ device' = [device EXCEPT ![host[r]] = current[r]]
        /\ mcp' = mcp /\ ran' = ran
        /\ parted' = IF pin[host[r]] # None \/ current[r] = FreeForm
                     THEN parted \cup {host[r]} ELSE parted
    BY <1>1 DEF Serve
  <2>2. current[r] \in Versions \cup {FreeForm}
    BY <1>0, <1>1 DEF Placed
  <2>3. current[r] # FreeForm => kind[r] = "claim"
    BY <1>0, <1>1 DEF Placed
  <2> QED
    BY <1>0, <1>1, <2>1, <2>2, <2>3 DEF Touches, Typed
<1>2. CASE at[r] = "delete"
  <2>1. /\ device' = [device EXCEPT ![host[r]] = NoDevice]
        /\ mcp' = mcp /\ ran' = ran
        /\ parted' = parted \cup {host[r]}
    BY <1>2 DEF Serve
  <2> QED
    BY <1>0, <1>2, <2>1 DEF Touches, Typed
<1>3. CASE at[r] = "open"
  <2>1. mcp' = mcp \cup {r} /\ UNCHANGED <<device, parted, ran>>
    BY <1>3 DEF Serve
  <2> QED
    BY <1>0, <1>3, <2>1 DEF Touches, Typed
<1>4. CASE at[r] = "call"
  <2>1. /\ ran' = [ran EXCEPT ![r] = @ + 1]
        /\ UNCHANGED <<device, mcp, parted>>
    BY <1>4 DEF Serve
  <2> QED
    BY <1>0, <1>4, <2>1 DEF Touches, Typed
<1>5. CASE at[r] = "close"
  <2>1. mcp' = mcp \ {r} /\ UNCHANGED <<device, parted, ran>>
    BY <1>5 DEF Serve
  <2> QED
    BY <1>0, <1>5, <2>1 DEF Touches, Typed
<1> QED
  BY <1>1, <1>2, <1>3, <1>4, <1>5 DEF AtGateway

LEMMA NotServedTouches ==
  ASSUME DeviceInv, NEW r \in Requests, NotServed, UNCHANGED effect
  PROVE  Touches(r, FALSE, FALSE)
  BY DEF DeviceInv, Typed, NotServed, Touches

\* Where a call takes its handler: again to the call, on, or out.
Moves(r, served, told, p, t) ==
    \/ p = at[r] /\ t = status[r] /\ ~served
    \/ at[r] = "open" /\ p = "call" /\ t = "ok"
    \/ at[r] = "open" /\ p = "audit" /\ t = "refused"
    \/ at[r] = "call" /\ p = "close" /\ t \in Answers /\ (t = "raised" \/ (told <=> t = "ok"))
    \/ at[r] = "close" /\ t = status[r] /\ p = IF t = "raised" THEN "failed" ELSE "audit"
    \/ at[r] \in {"register", "delete"} /\ p = "audit" /\ t \in {"ok", "refused"} /\ (told <=> t = "ok")
    \/ at[r] \in {"register", "delete", "open"} /\ p = "failed"

LEMMA CallKeeps ==
  ASSUME DeviceInv, NEW r \in Requests, at[r] \in AtGateway, NEW served \in BOOLEAN,
         NEW told \in BOOLEAN, NEW p \in Places, NEW t \in Answers \cup {"none"}, NEW g \in BOOLEAN,
         Touches(r, served, told), Moves(r, served, told, p, t),
         at' = [at EXCEPT ![r] = p],
         status' = [status EXCEPT ![r] = t],
         again' = [again EXCEPT ![r] = g],
         owes' = IF at[r] = "open" /\ p = "call" THEN owes \cup {r}
                 ELSE IF at[r] = "close" THEN owes \ {r} ELSE owes,
         accepted' \in BOOLEAN,
         UNCHANGED <<kind, host, current, audited, catalogVars, pinAnswered>>
  PROVE  DeviceInv'
<1>0. /\ Typed /\ Placed(r) /\ Done(r) /\ Recorded(r) /\ PinPending /\ PinMatchesDevice
      /\ host[r] \in Hosts
      /\ kind' = kind /\ host' = host /\ current' = current /\ audited' = audited
      /\ published' = published /\ assigned' = assigned /\ pin' = pin
      /\ pinAnswered' = pinAnswered
  BY DEF DeviceInv, Typed, catalogVars
<1>1. /\ told => served
      /\ effect' = IF told /\ at[r] \in {"register", "delete", "call"} THEN effect \cup {r} ELSE effect
      /\ ran' = IF served /\ at[r] = "call" THEN [ran EXCEPT ![r] = @ + 1] ELSE ran
  BY DEF Touches
<1>2. Typed'
  <2>1. /\ device' \in [Hosts -> Versions \cup {FreeForm, NoDevice}]
        /\ mcp' \subseteq Requests /\ parted' \subseteq Hosts
    BY DEF Touches
  <2>2. effect' \subseteq Requests /\ owes' \subseteq Requests
    BY <1>0, <1>1 DEF Typed
  <2>3. ran' \in [Requests -> Nat]
    BY <1>0, <1>1 DEF Typed
  <2>4. /\ at' \in [Requests -> Places] /\ status' \in [Requests -> Answers \cup {"none"}]
        /\ again' \in [Requests -> BOOLEAN]
    BY <1>0 DEF Typed
  <2> QED
    BY <1>0, <2>1, <2>2, <2>3, <2>4 DEF Typed
<1>3. at'[r] = p /\ status'[r] = t
  BY <1>0 DEF Typed
<1>4. Alone(r)
  BY <1>0, <1>1 DEF Typed, Alone
<1>5. ran'[r] = (IF served /\ at[r] = "call" THEN ran[r] + 1 ELSE ran[r]) /\ ran[r] \in Nat
  BY <1>0, <1>1 DEF Typed
<1>6. Placed(r)'
  BY <1>0, <1>3 DEF Placed, Moves, AtGateway
<1>7. Done(r)'
  BY <1>0, <1>1, <1>3, <1>5 DEF Done, Moves, AtGateway, Early
<1>8. Recorded(r)'
  BY <1>0, <1>1, <1>3 DEF Done, Recorded, Moves, AtGateway, Early, Answers
<1>9. PinPending'
  <2> SUFFICES ASSUME NEW s \in Requests, at'[s] \in {"audit", "pin"}, kind[s] = "claim",
                      s \in effect', host[s] \notin parted'
               PROVE  device'[host[s]] = current[s]
    BY <1>0 DEF PinPending
  <2>0. host[s] \in Hosts /\ host[s] \notin parted
    BY <1>0 DEF Typed, Touches
  <2>1. CASE s = r
    <3>1. at[r] = "register" /\ told
      <4>1. p \in {"audit", "pin"} /\ kind[r] = "claim" /\ r \in effect'
        BY <1>3, <2>1
      <4>2. at[r] = "register"
        BY <1>0, <4>1 DEF Moves, Placed, AtGateway
      <4> QED
        BY <1>0, <1>1, <4>1, <4>2 DEF Done, Early
    <3> QED
      BY <2>0, <2>1, <3>1 DEF Touches
  <2>2. CASE s # r
    <3>1. at[s] \in {"audit", "pin"} /\ s \in effect
      BY <1>4, <2>2 DEF Alone
    <3>2. device[host[s]] = current[s] /\ current[s] \in Versions
      BY <1>0, <2>0, <3>1 DEF PinPending, DeviceInv, Placed
    <3> QED
      BY <2>0, <3>2, Numbers DEF Touches
  <2> QED
    BY <2>1, <2>2
<1>10. PinMatchesDevice'
  <2> SUFFICES ASSUME NEW h \in Hosts \ parted', pin[h] # None, device'[h] # NoDevice
               PROVE  pin[h] = device'[h]
    BY <1>0 DEF PinMatchesDevice
  <2>1. h \notin parted /\ device'[h] = device[h]
    BY DEF Touches
  <2> QED
    BY <1>0, <2>1 DEF PinMatchesDevice
<1> QED
  BY <1>2, <1>4, <1>6, <1>7, <1>8, <1>9, <1>10, OthersStay DEF DeviceInv

LEMMA AnsweredKeeps ==
  ASSUME DeviceInv, NEW r \in Requests, Answered(r)
  PROVE  DeviceInv'
<1>0. /\ Typed /\ Placed(r) /\ Recorded(r) /\ at[r] \in AtGateway /\ accepted' = accepted
      /\ status[r] \in Answers \cup {"none"}
      /\ UNCHANGED <<kind, host, current, audited, catalogVars, pinAnswered>>
  BY DEF DeviceInv, Answered, Typed
<1>1. ASSUME NEW served \in BOOLEAN, NEW told \in BOOLEAN, NEW answer \in {"ok", "refused"},
             answer = IF told THEN "ok" ELSE "refused",
             Touches(r, served, told), Continue(r, answer), Owes(r, answer)
      PROVE  DeviceInv'
  <2> DEFINE p == IF at[r] = "close" /\ status[r] = "raised" THEN "failed" ELSE AfterAnswer(r, answer)
             t == Status(r, answer)
  <2>1. /\ at' = [at EXCEPT ![r] = p]
        /\ status' = [status EXCEPT ![r] = t]
        /\ again' = [again EXCEPT ![r] = FALSE]
    BY <1>1 DEF Continue
  <2>2. p \in Places /\ t \in Answers \cup {"none"}
    BY <1>0 DEF AfterAnswer, Status, Places, Answers
  <2>3. Moves(r, served, told, p, t)
    BY <1>0, <1>1 DEF Moves, Touches, AfterAnswer, Status, AtGateway, Answers, Recorded
  <2>4. owes' = IF at[r] = "open" /\ p = "call" THEN owes \cup {r}
                ELSE IF at[r] = "close" THEN owes \ {r} ELSE owes
    BY <1>0, <1>1 DEF Owes, AfterAnswer, AtGateway
  <2>5. accepted' \in BOOLEAN
    BY <1>0 DEF Typed
  <2> HIDE DEF p, t
  <2> QED
    BY <1>0, <1>1, <2>1, <2>2, <2>3, <2>4, <2>5, CallKeeps
<1>2. CASE Serve(r) /\ Made(r) /\ Continue(r, "ok") /\ Owes(r, "ok")
  <2>1. Touches(r, TRUE, TRUE)
    BY <1>0, <1>2, ServeTouches
  <2> QED
    BY <1>1, <1>2, <2>1
<1>3. CASE Serve(r) /\ UNCHANGED effect /\ Continue(r, "refused") /\ Owes(r, "refused")
  <2>1. Touches(r, TRUE, FALSE)
    BY <1>0, <1>3, ServeTouches
  <2> QED
    BY <1>1, <1>3, <2>1
<1>4. CASE NotServed /\ UNCHANGED effect /\ Continue(r, "refused") /\ Owes(r, "refused")
  <2>1. Touches(r, FALSE, FALSE)
    BY <1>4, NotServedTouches
  <2> QED
    BY <1>1, <1>4, <2>1
<1> QED
  BY <1>2, <1>3, <1>4 DEF Answered

LEMMA UnauthorizedKeeps ==
  ASSUME DeviceInv, NEW r \in Requests, Unauthorized(r)
  PROVE  DeviceInv'
<1>0. /\ Typed /\ Placed(r) /\ Recorded(r) /\ at[r] \in AtGateway
      /\ status[r] \in Answers \cup {"none"} /\ at[r] \in Places
      /\ UNCHANGED <<kind, host, current, audited, catalogVars, pinAnswered>>
      /\ Touches(r, FALSE, FALSE) /\ Owes(r, "refused")
      /\ accepted' \in BOOLEAN
  BY NotServedTouches DEF DeviceInv, Unauthorized, Typed
<1>1. CASE Repeat(r)
  <2>1. /\ at' = [at EXCEPT ![r] = at[r]]
        /\ status' = [status EXCEPT ![r] = status[r]]
        /\ again' = [again EXCEPT ![r] = TRUE]
    BY <1>0, <1>1 DEF Repeat, Typed
  <2>2. Moves(r, FALSE, FALSE, at[r], status[r])
    BY DEF Moves
  <2>3. owes' = IF at[r] = "open" /\ at[r] = "call" THEN owes \cup {r}
                ELSE IF at[r] = "close" THEN owes \ {r} ELSE owes
    BY <1>0 DEF Owes
  <2> QED
    BY <1>0, <2>1, <2>2, <2>3, CallKeeps
<1>2. CASE Continue(r, "refused")
  <2> DEFINE p == IF at[r] = "close" /\ status[r] = "raised" THEN "failed" ELSE AfterAnswer(r, "refused")
             t == Status(r, "refused")
  <2>1. /\ at' = [at EXCEPT ![r] = p]
        /\ status' = [status EXCEPT ![r] = t]
        /\ again' = [again EXCEPT ![r] = FALSE]
    BY <1>2 DEF Continue
  <2>2. p \in Places /\ t \in Answers \cup {"none"}
    BY <1>0 DEF AfterAnswer, Status, Places, Answers
  <2>3. Moves(r, FALSE, FALSE, p, t)
    BY <1>0 DEF Moves, AfterAnswer, Status, AtGateway, Answers, Recorded
  <2>4. owes' = IF at[r] = "open" /\ p = "call" THEN owes \cup {r}
                ELSE IF at[r] = "close" THEN owes \ {r} ELSE owes
    BY <1>0 DEF Owes, AfterAnswer, AtGateway
  <2> HIDE DEF p, t
  <2> QED
    BY <1>0, <2>1, <2>2, <2>3, <2>4, CallKeeps
<1> QED
  BY <1>1, <1>2 DEF Unauthorized

LEMMA BrokenKeeps ==
  ASSUME DeviceInv, NEW r \in Requests, Broken(r)
  PROVE  DeviceInv'
<1>0. /\ Typed /\ Placed(r) /\ Recorded(r) /\ at[r] \in AtGateway
      /\ status[r] \in Answers \cup {"none"}
      /\ UNCHANGED <<kind, host, current, audited, catalogVars, pinAnswered>>
      /\ Raise(r) /\ Owes(r, "raised")
      /\ accepted' \in BOOLEAN
  BY DEF DeviceInv, Broken, AfterBreak, Typed
<1>1. PICK served \in BOOLEAN : Touches(r, served, served)
  <2>1. CASE Serve(r) /\ Made(r)
    <3>1. Touches(r, TRUE, TRUE)
      BY <1>0, <2>1, ServeTouches
    <3> QED
      BY <3>1
  <2>2. CASE NotServed /\ UNCHANGED effect
    <3>1. Touches(r, FALSE, FALSE)
      BY <2>2, NotServedTouches
    <3> QED
      BY <3>1
  <2> QED
    BY <2>1, <2>2 DEF Broken
<1> DEFINE p == AfterException(r)
           t == Status(r, "raised")
<1>2. /\ at' = [at EXCEPT ![r] = p]
      /\ status' = [status EXCEPT ![r] = t]
      /\ again' = [again EXCEPT ![r] = FALSE]
  BY <1>0 DEF Raise
<1>3. p \in Places /\ t \in Answers \cup {"none"}
  BY <1>0 DEF AfterException, Status, Places, Answers
<1>4. Moves(r, served, served, p, t)
  BY <1>0 DEF Moves, AfterException, Status, AtGateway, Answers, Recorded
<1>5. owes' = IF at[r] = "open" /\ p = "call" THEN owes \cup {r}
              ELSE IF at[r] = "close" THEN owes \ {r} ELSE owes
  BY <1>0 DEF Owes, AfterException, AtGateway
<1> HIDE DEF p, t
<1> QED
  BY <1>0, <1>1, <1>2, <1>3, <1>4, <1>5, CallKeeps

-----------------------------------------------------------------------------
(* The world's steps, and the whole.                                       *)

LEMMA StepDeviceInv == DeviceInv /\ [Next]_vars => DeviceInv'
<1> SUFFICES ASSUME DeviceInv, [Next]_vars PROVE DeviceInv'
  OBVIOUS
<1>0. Typed
  BY DEF DeviceInv
<1>1. ASSUME NEW r \in Requests, Handler(r) \/ Die(r) PROVE DeviceInv'
  BY <1>1, QuietStepKeeps, PinKeeps, RepinKeeps, AnsweredKeeps, UnauthorizedKeeps, BrokenKeeps
     DEF Handler
<1>2. ASSUME UNCHANGED <<reqVars, pin, device, mcp, historyVars>>,
             published' \in Versions, assigned' \in BOOLEAN, accepted' \in BOOLEAN
      PROVE  DeviceInv'
  <2>1. /\ at' = at /\ kind' = kind /\ host' = host /\ current' = current /\ status' = status
        /\ again' = again /\ audited' = audited /\ pin' = pin /\ device' = device /\ mcp' = mcp
        /\ ran' = ran /\ effect' = effect /\ owes' = owes /\ parted' = parted
        /\ pinAnswered' = pinAnswered
    BY <1>2 DEF reqVars, historyVars
  <2>2. Typed'
    BY <1>0, <1>2, <2>1 DEF Typed
  <2>3. \A r \in Requests : Placed(r)' /\ Done(r)' /\ Recorded(r)'
    BY <2>1 DEF DeviceInv, Placed, Done, Recorded
  <2>4. PinPending' /\ PinMatchesDevice'
    BY <2>1 DEF DeviceInv, PinPending, PinMatchesDevice
  <2> QED
    BY <2>2, <2>3, <2>4 DEF DeviceInv
<1>3. CASE Publish
  <2>1. published' \in Versions
    BY <1>0, <1>3 DEF Publish, Typed, Versions
  <2> QED
    BY <1>0, <1>2, <1>3, <2>1 DEF Publish, gatewayVars, Typed
<1>4. CASE Reassign
  BY <1>0, <1>2, <1>4 DEF Reassign, gatewayVars, Typed
<1>5. CASE TokenExpires
  BY <1>0, <1>2, <1>5 DEF TokenExpires, catalogVars, Typed
<1>6. CASE UNCHANGED vars
  BY <1>0, <1>2, <1>6 DEF vars, catalogVars, gatewayVars, Typed
<1> QED
  BY <1>1, <1>3, <1>4, <1>5, <1>6 DEF Next

LEMMA AlwaysDeviceInv == Spec => []DeviceInv
  BY InitDeviceInv, StepDeviceInv, PTL DEF Spec

-----------------------------------------------------------------------------
(* The theorems.                                                           *)

\* The state has its types, and only a claim whose device is registered goes
\* on to pin it.
THEOREM TypeCorrect == Spec => []TypeOK
<1>1. DeviceInv => TypeOK
  <2> SUFFICES ASSUME DeviceInv PROVE TypeOK
    OBVIOUS
  <2>1. Typed
    BY DEF DeviceInv
  <2>2. \A r \in Requests : at[r] \in {"pin", "trace"} => kind[r] = "claim" /\ r \in effect
    BY DEF DeviceInv, Placed, Recorded
  <2> QED
    BY <2>1, <2>2 DEF Typed, TypeOK
<1> QED
  BY <1>1, AlwaysDeviceInv, PTL

\* The catalog's pin is the version the gateway has, unless it may not be.
THEOREM PinsMatch == Spec => []PinMatchesDevice
<1>1. DeviceInv => PinMatchesDevice
  BY DEF DeviceInv
<1> QED
  BY <1>1, AlwaysDeviceInv, PTL

\* A claim that is through had its pin answered or left a record.
THEOREM ClaimsLeaveTrace == Spec => []ClaimLeavesTrace
<1>1. DeviceInv => ClaimLeavesTrace
  BY DEF DeviceInv, Recorded, ClaimLeavesTrace
<1> QED
  BY <1>1, AlwaysDeviceInv, PTL

\* No invocation runs its tool twice.
THEOREM ToolsRunOnce == Spec => []ToolRunsOnce
<1>1. DeviceInv => ToolRunsOnce
  BY DEF DeviceInv, Done, ToolRunsOnce
<1> QED
  BY <1>1, AlwaysDeviceInv, PTL

\* No invocation that ends leaves a session it was given unasked for.
THEOREM SessionsEnd == Spec => []SessionsAreTornDown
<1>1. DeviceInv => SessionsAreTornDown
  BY DEF DeviceInv, Done, SessionsAreTornDown
<1> QED
  BY <1>1, AlwaysDeviceInv, PTL

\* What was answered is in the chain, and what was changed is in it as such.
THEOREM AnswersRecorded == Spec => []AnswersAreRecorded
<1>1. DeviceInv => AnswersAreRecorded
  BY DEF DeviceInv, Recorded, AnswersAreRecorded
<1> QED
  BY <1>1, AlwaysDeviceInv, PTL
=============================================================================
