-------------------------- MODULE LoginFlowProofs --------------------------
(***************************************************************************)
(* Proofs about LoginFlow, for any browsers, any number of requests under  *)
(* way, of logins and of sessions.                                         *)
(***************************************************************************)
EXTENDS LoginFlow, FiniteSetTheorems, TLAPS

USE BrowsersAssumption, BoundsAssumption

Reqs == [at: Places, by: Browsers \cup {Nobody}, kind: {"begin", "poll", "other"},
         cookie: Cookies, tx: 0 .. Password, code: Logins \cup {None}]

\* A transaction in a cookie or in a handler belongs to the browser it is in.
OwnTransactions ==
    /\ \A b \in Browsers : jar[b].tx # None => jar[b].tx <= logins /\ begun[jar[b].tx] = b
    /\ \A r \in Requests :
          /\ req[r].at # "idle" => req[r].by \in Browsers
          /\ req[r].cookie.tx # None =>
                req[r].cookie.tx <= logins /\ begun[req[r].cookie.tx] = req[r].by
          /\ req[r].tx \in Logins => req[r].tx <= logins /\ begun[req[r].tx] = req[r].by
    /\ \A s \in 1 .. minted :
          made[s].login \in Logins =>
              made[s].login <= logins /\ begun[made[s].login] = made[s].by

\* Who is about to be redirected has a transaction, and who is about to be
\* answered a poll sent one.
Beginning ==
    \A r \in Requests : /\ req[r].at = "discover" => req[r].cookie.tx # None
                        /\ req[r].at = "poll" => req[r].kind = "poll"

\* The live sessions a browser got.
Owned(b) == {s \in live : made[s].by = b}

\* Where the one request of a calm browser is, against what the browser holds.
Placed(q, own, cookie) ==
    /\ q.at \notin {"mint", "answered"} => q.cookie.sid = cookie.sid /\ own \subseteq {cookie.sid}
    /\ q.at = "mint" => own = {}
    /\ q.at = "answered" => own \subseteq {q.cookie.sid}
    /\ q.kind = "poll" => q.cookie = cookie

CalmBrowser(b) ==
    /\ \A r, s \in UnderWay(b) : r = s
    /\ waiting[b] # None => jar[b].tx = waiting[b]
    /\ UnderWay(b) = {} => Owned(b) \subseteq {jar[b].sid}
    /\ \A r \in UnderWay(b) : Placed(req[r], Owned(b), jar[b])

FlowInv ==
    /\ TypeOK
    /\ OwnTransactions
    /\ Beginning
    /\ \A b \in calm : CalmBrowser(b)

LEMMA InitFlowInv == Init => FlowInv
<1> SUFFICES ASSUME Init PROVE FlowInv
  OBVIOUS
<1>1. TypeOK
  BY DEF Init, TypeOK, Idle, NoCookie, Cookies, Places, Password, None, Logins, Sids
<1>2. OwnTransactions
  BY DEF Init, OwnTransactions, Idle, NoCookie, None, Logins
<1>3. Beginning
  BY DEF Init, Beginning, Idle
<1>4. ASSUME NEW b \in calm PROVE CalmBrowser(b)
  BY DEF Init, CalmBrowser, UnderWay, Owned, Idle, None
<1> QED
  BY <1>1, <1>2, <1>3, <1>4 DEF FlowInv

-----------------------------------------------------------------------------
(* The two shapes of a step of a request.                                  *)

\* A browser sends a request that carries its own session id and at most a
\* transaction of its own.
LEMMA SendKeeps ==
  ASSUME FlowInv, NEW r \in Requests, NEW b \in Browsers,
         NEW kind \in {"begin", "poll", "other"}, NEW at \in Places \ {"idle", "mint"},
         NEW cookie \in Cookies, NEW tx \in 0 .. Password, NEW c \in Logins \cup {None},
         Send(r, b, kind, at, cookie, tx, c),
         cookie.sid = jar[b].sid,
         kind = "poll" => cookie = jar[b],
         kind = "begin" => cookie.tx # None,
         at = "discover" => kind = "begin",
         at = "poll" => kind = "poll",
         logins' \in logins .. MaxLogins,
         begun' \in [Logins -> Browsers \cup {Nobody}],
         \A n \in 1 .. logins : begun'[n] = begun[n],
         code' = code,
         cookie.tx # None => cookie.tx <= logins' /\ begun'[cookie.tx] = b,
         tx \in Logins => tx <= logins' /\ begun'[tx] = b
  PROVE  FlowInv'
<1> DEFINE q == [at |-> at, by |-> b, kind |-> kind, cookie |-> cookie, tx |-> tx, code |-> c]
<1>0. /\ TypeOK /\ OwnTransactions /\ Beginning
      /\ \A d \in calm : CalmBrowser(d)
  BY DEF FlowInv
<1>1. /\ req[r].at = "idle"
      /\ req' = [req EXCEPT ![r] = q]
      /\ IF UnderWay(b) = {} THEN UNCHANGED <<calm, waiting>> ELSE Disturbed({b})
      /\ jar' = jar /\ minted' = minted /\ made' = made /\ live' = live
  BY DEF Send, storeVars, historyVars
<1>2. q \in Reqs
  BY DEF Reqs
<1>3. req \in [Requests -> Reqs]
  BY <1>0 DEF TypeOK, Reqs
<1>4. req' \in [Requests -> Reqs]
  BY <1>1, <1>2, <1>3
<1>5. /\ req'[r] = q
      /\ \A s \in Requests \ {r} : req'[s] = req[s]
  BY <1>1, <1>3
<1>6. /\ calm' \subseteq calm
      /\ \A d \in calm' : waiting'[d] = waiting[d]
      /\ waiting' \in [Browsers -> Logins \cup {None}]
      /\ UnderWay(b) # {} => b \notin calm'
  BY <1>0, <1>1 DEF Disturbed, TypeOK
<1>7. TypeOK'
  <2>1. \A s \in Requests : req'[s].kind = "begin" => req'[s].cookie.tx # None
    BY <1>0, <1>5 DEF TypeOK
  <2>2. logins' \in 0 .. MaxLogins
    BY <1>0 DEF TypeOK
  <2>3. calm' \subseteq Browsers
    BY <1>0, <1>6 DEF TypeOK
  <2> HIDE DEF q
  <2> QED
    BY <1>0, <1>1, <1>4, <1>6, <2>1, <2>2, <2>3 DEF TypeOK, Reqs
<1>8. OwnTransactions'
  <2>1. \A n \in 1 .. logins : n <= logins' /\ begun'[n] = begun[n]
    BY <1>0 DEF TypeOK
  <2>2. ASSUME NEW d \in Browsers, jar'[d].tx # None
        PROVE  jar'[d].tx <= logins' /\ begun'[jar'[d].tx] = d
    <3>1. jar[d].tx \in 1 .. logins /\ begun[jar[d].tx] = d
      BY <1>0, <1>1, <2>2 DEF OwnTransactions, TypeOK, Cookies, Logins, None
    <3> QED
      BY <1>1, <2>1, <3>1
  <2>3. ASSUME NEW s \in Requests \ {r}
        PROVE  /\ req'[s].at # "idle" => req'[s].by \in Browsers
               /\ req'[s].cookie.tx # None =>
                     req'[s].cookie.tx <= logins' /\ begun'[req'[s].cookie.tx] = req'[s].by
               /\ req'[s].tx \in Logins => req'[s].tx <= logins' /\ begun'[req'[s].tx] = req'[s].by
    <3>1. req'[s] = req[s] /\ req[s] \in Reqs
      BY <1>3, <1>5
    <3>2. req[s].cookie.tx # None => req[s].cookie.tx \in 1 .. logins
      <4>1. req[s].cookie \in Cookies
        BY <3>1 DEF Reqs
      <4>2. req[s].cookie.tx \in Logins \cup {None}
        BY <4>1 DEF Cookies
      <4> QED
        BY <1>0, <4>2 DEF OwnTransactions, Logins, None
    <3>3. req[s].tx \in Logins => req[s].tx \in 1 .. logins
      BY <1>0, <3>1 DEF OwnTransactions, Logins, TypeOK
    <3> QED
      BY <1>0, <2>1, <3>1, <3>2, <3>3 DEF OwnTransactions
  <2>4. ASSUME NEW s \in 1 .. minted', made'[s].login \in Logins
        PROVE  made'[s].login <= logins' /\ begun'[made'[s].login] = made'[s].by
    <3>1. made[s].login \in 1 .. logins /\ begun[made[s].login] = made[s].by
      BY <1>0, <1>1, <2>4 DEF OwnTransactions, Logins, TypeOK
    <3> QED
      BY <1>1, <2>1, <3>1
  <2> QED
    BY <1>5, <2>2, <2>3, <2>4 DEF OwnTransactions
<1>9. Beginning'
  BY <1>0, <1>1, <1>5 DEF Beginning
<1>10. ASSUME NEW d \in calm' PROVE CalmBrowser(d)'
  <2>0. CalmBrowser(d) /\ Owned(d)' = Owned(d) /\ waiting'[d] = waiting[d]
    BY <1>0, <1>1, <1>6 DEF Owned
  <2>1. CASE d # b
    <3>1. UnderWay(d)' = UnderWay(d) /\ r \notin UnderWay(d)
      BY <1>1, <1>5, <2>1 DEF UnderWay
    <3>2. \A s \in UnderWay(d) : req'[s] = req[s]
      BY <1>5, <3>1 DEF UnderWay
    <3> QED
      BY <1>1, <2>0, <3>1, <3>2 DEF CalmBrowser
  <2>2. CASE d = b
    <3>1. UnderWay(b) = {}
      BY <1>6, <2>2
    <3>2. UnderWay(b)' = {r}
      BY <1>1, <1>5, <3>1 DEF UnderWay
    <3>3. Placed(q, Owned(b), jar[b])
      BY <2>0, <2>2, <3>1 DEF Placed, CalmBrowser
    <3> HIDE DEF q
    <3> QED
      BY <1>1, <1>5, <2>0, <2>2, <3>1, <3>2, <3>3 DEF CalmBrowser
  <2> QED
    BY <2>1, <2>2
<1> QED
  BY <1>7, <1>8, <1>9, <1>10 DEF FlowInv

\* A handler goes on, or answers: the session id it holds and what it has
\* stored move together.
LEMMA HandlerKeeps ==
  ASSUME FlowInv, NEW r \in Requests, NEW q \in Reqs, NEW b, b = req[r].by,
         req[r].at # "idle", q.at \notin {"idle", "discover", "poll"}, q.by = b,
         req' = [req EXCEPT ![r] = q],
         q.cookie.tx \in {None, req[r].cookie.tx},
         q.tx \in {None, req[r].tx},
         q.kind = "begin" => q.cookie.tx # None,
         UNCHANGED <<jar, logins, begun, historyVars>>,
         code' \in [Logins -> {"none", "issued", "spent"}],
         minted' \in minted .. MaxSessions,
         live' \subseteq 1 .. minted',
         made' \in [Sids -> [login: 0 .. Password, by: Browsers \cup {Nobody}]],
         \A s \in 1 .. minted : made'[s] = made[s],
         \A s \in (1 .. minted') \ (1 .. minted) :
             made'[s] = [login |-> req[r].tx, by |-> b],
         \A d \in Browsers \ {b} : Owned(d)' \subseteq Owned(d),
         Placed(req[r], Owned(b), jar[b]) => Placed(q, Owned(b)', jar[b])
  PROVE  FlowInv'
<1>0. /\ TypeOK /\ OwnTransactions /\ Beginning
      /\ \A d \in calm : CalmBrowser(d)
      /\ jar' = jar /\ logins' = logins /\ begun' = begun
      /\ calm' = calm /\ waiting' = waiting
  BY DEF FlowInv, historyVars
<1>1. req \in [Requests -> Reqs]
  BY <1>0 DEF TypeOK, Reqs
<1>2. /\ req' \in [Requests -> Reqs]
      /\ req'[r] = q
      /\ \A s \in Requests \ {r} : req'[s] = req[s]
  BY <1>1
<1>3. TypeOK'
  <2>1. \A s \in Requests : req'[s].kind = "begin" => req'[s].cookie.tx # None
    BY <1>0, <1>2 DEF TypeOK
  <2>2. minted' \in 0 .. MaxSessions
    BY <1>0 DEF TypeOK
  <2> QED
    BY <1>0, <1>2, <2>1, <2>2 DEF TypeOK, Reqs
<1>4. OwnTransactions'
  <2>1. \A d \in Browsers : jar'[d].tx # None => jar'[d].tx <= logins' /\ begun'[jar'[d].tx] = d
    BY <1>0 DEF OwnTransactions
  <2>2. ASSUME NEW s \in Requests
        PROVE  /\ req'[s].at # "idle" => req'[s].by \in Browsers
               /\ req'[s].cookie.tx # None =>
                     req'[s].cookie.tx <= logins' /\ begun'[req'[s].cookie.tx] = req'[s].by
               /\ req'[s].tx \in Logins => req'[s].tx <= logins' /\ begun'[req'[s].tx] = req'[s].by
    <3>1. CASE s # r
      BY <1>0, <1>2, <3>1 DEF OwnTransactions
    <3>2. CASE s = r
      BY <1>0, <1>2, <3>2 DEF OwnTransactions, None, Logins
    <3> QED
      BY <3>1, <3>2
  <2>3. ASSUME NEW s \in 1 .. minted', made'[s].login \in Logins
        PROVE  made'[s].login <= logins' /\ begun'[made'[s].login] = made'[s].by
    <3>1. CASE s \in 1 .. minted
      BY <1>0, <2>3, <3>1 DEF OwnTransactions
    <3>2. CASE s \notin 1 .. minted
      BY <1>0, <2>3, <3>2 DEF OwnTransactions
    <3> QED
      BY <3>1, <3>2
  <2> QED
    BY <2>1, <2>2, <2>3 DEF OwnTransactions
<1>5. Beginning'
  BY <1>0, <1>2 DEF Beginning
<1>6. ASSUME NEW d \in calm' PROVE CalmBrowser(d)'
  <2>0. CalmBrowser(d) /\ d \in Browsers
    BY <1>0 DEF TypeOK
  <2>1. UnderWay(d)' = UnderWay(d)
    BY <1>2 DEF UnderWay
  <2>2. CASE d # b
    <3>1. \A s \in UnderWay(d) : req'[s] = req[s]
      BY <1>2, <2>2 DEF UnderWay
    <3>2. Owned(d)' \subseteq Owned(d)
      BY <2>0, <2>2
    <3> QED
      BY <1>0, <2>0, <2>1, <3>1, <3>2 DEF CalmBrowser, Placed
  <2>3. CASE d = b
    <3>1. UnderWay(d) = {r}
      BY <2>0, <2>3 DEF UnderWay, CalmBrowser
    <3>2. Placed(q, Owned(d)', jar[d])
      BY <2>0, <2>3, <3>1 DEF CalmBrowser
    <3> QED
      BY <1>0, <1>2, <2>0, <2>1, <3>1, <3>2 DEF CalmBrowser
  <2> QED
    BY <2>2, <2>3
<1> QED
  BY <1>3, <1>4, <1>5, <1>6 DEF FlowInv

\* The same for a step that leaves the store alone.
LEMMA QuietHandlerKeeps ==
  ASSUME FlowInv, NEW r \in Requests, NEW q \in Reqs, NEW b, b = req[r].by,
         req[r].at # "idle", q.at \notin {"idle", "discover", "poll"}, q.by = b,
         req' = [req EXCEPT ![r] = q],
         q.cookie.tx \in {None, req[r].cookie.tx},
         q.tx \in {None, req[r].tx},
         q.kind = "begin" => q.cookie.tx # None,
         UNCHANGED <<jar, logins, begun, storeVars, historyVars>>,
         code' \in [Logins -> {"none", "issued", "spent"}],
         Placed(req[r], Owned(b), jar[b]) => Placed(q, Owned(b), jar[b])
  PROVE  FlowInv'
<1>1. minted' = minted /\ live' = live /\ made' = made
  BY DEF storeVars
<1>2. /\ minted \in 0 .. MaxSessions /\ live \subseteq 1 .. minted
      /\ made \in [Sids -> [login: 0 .. Password, by: Browsers \cup {Nobody}]]
  BY DEF FlowInv, TypeOK
<1>3. Owned(b)' = Owned(b) /\ \A d \in Browsers \ {b} : Owned(d)' \subseteq Owned(d)
  BY <1>1 DEF Owned
<1>4. /\ minted' \in minted .. MaxSessions /\ live' \subseteq 1 .. minted'
      /\ made' \in [Sids -> [login: 0 .. Password, by: Browsers \cup {Nobody}]]
      /\ \A s \in 1 .. minted : made'[s] = made[s]
      /\ (1 .. minted') \ (1 .. minted) = {}
  BY <1>1, <1>2
<1>5. Placed(req[r], Owned(b), jar[b]) => Placed(q, Owned(b)', jar[b])
  BY <1>3
<1>6. UNCHANGED <<jar, logins, begun, historyVars>>
  OBVIOUS
<1> QED
  BY <1>3, <1>4, <1>5, <1>6, HandlerKeeps

\* Requests that come to nothing disturb their browsers, and sessions that
\* end disturb nobody.
LEMMA EndingKeeps ==
  ASSUME FlowInv, NEW R \in SUBSET Requests,
         req' = [r \in Requests |-> IF r \in R THEN Idle ELSE req[r]],
         Disturbed({req[r].by : r \in R}),
         UNCHANGED <<jar, idpVars, minted, made>>,
         live' \subseteq live
  PROVE  FlowInv'
<1>0. /\ TypeOK /\ OwnTransactions /\ Beginning
      /\ \A d \in calm : CalmBrowser(d)
      /\ jar' = jar /\ logins' = logins /\ begun' = begun /\ code' = code
      /\ minted' = minted /\ made' = made
  BY DEF FlowInv, idpVars
<1>1. req \in [Requests -> Reqs] /\ Idle \in Reqs
  BY <1>0 DEF TypeOK, Reqs, Idle, NoCookie, Cookies, Places, None, Password
<1>2. /\ req' \in [Requests -> Reqs]
      /\ \A r \in R : req'[r] = Idle
      /\ \A r \in Requests \ R : req'[r] = req[r]
  BY <1>1
<1>3. /\ calm' \subseteq calm /\ waiting' \in [Browsers -> Logins \cup {None}]
      /\ \A d \in calm' : /\ waiting'[d] = waiting[d]
                          /\ \A r \in R : req[r].by # d
  BY <1>0 DEF Disturbed, TypeOK
<1>4. Idle.at = "idle" /\ Idle.kind = "poll" /\ Idle.cookie.tx = None /\ Idle.tx = None
  BY DEF Idle, NoCookie
<1>5. TypeOK'
  <2>1. \A r \in Requests : req'[r].kind = "begin" => req'[r].cookie.tx # None
    BY <1>0, <1>2, <1>4 DEF TypeOK
  <2>2. live' \subseteq 1 .. minted' /\ calm' \subseteq Browsers
    BY <1>0, <1>3 DEF TypeOK
  <2> QED
    BY <1>0, <1>2, <1>3, <2>1, <2>2 DEF TypeOK, Reqs
<1>6. OwnTransactions'
  BY <1>0, <1>2, <1>4 DEF OwnTransactions, None, Logins
<1>7. Beginning'
  BY <1>0, <1>2, <1>4 DEF Beginning
<1>8. ASSUME NEW d \in calm' PROVE CalmBrowser(d)'
  <2>1. CalmBrowser(d)
    BY <1>0, <1>3
  <2>2. UnderWay(d)' = UnderWay(d) /\ \A r \in UnderWay(d) : req'[r] = req[r]
    BY <1>2, <1>3, <1>4 DEF UnderWay
  <2>3. Owned(d)' \subseteq Owned(d)
    BY <1>0 DEF Owned
  <2> QED
    BY <1>0, <1>3, <2>1, <2>2, <2>3 DEF CalmBrowser, Placed
<1> QED
  BY <1>5, <1>6, <1>7, <1>8 DEF FlowInv

-----------------------------------------------------------------------------
(* The steps.                                                              *)

\* What the types say of a browser and of a request.
LEMMA Parts ==
  ASSUME FlowInv
  PROVE  /\ TypeOK /\ OwnTransactions
         /\ logins \in Nat /\ minted \in Nat
         /\ \A b \in Browsers : /\ jar[b] \in Cookies
                                /\ jar[b].sid \in Sids \cup {None}
                                /\ jar[b].tx \in Logins \cup {None}
         /\ \A r \in Requests : /\ req[r] \in Reqs
                                /\ req[r].cookie \in Cookies
                                /\ req[r].cookie.sid \in Sids \cup {None}
                                /\ req[r].cookie.tx \in Logins \cup {None}
                                /\ req[r].by \in Browsers \cup {Nobody}
                                /\ req[r].kind \in {"begin", "poll", "other"}
                                /\ req[r].tx \in 0 .. Password
                                /\ req[r].code \in Logins \cup {None}
<1>1. TypeOK /\ OwnTransactions
  BY DEF FlowInv
<1>2. logins \in Nat /\ minted \in Nat
  BY <1>1 DEF TypeOK
<1>3. \A b \in Browsers : jar[b] \in Cookies
  BY <1>1 DEF TypeOK
<1>4. \A r \in Requests : req[r] \in Reqs
  BY <1>1 DEF TypeOK, Reqs
<1>5. \A r \in Requests : req[r].cookie \in Cookies
  BY <1>4 DEF Reqs
<1> QED
  BY <1>1, <1>2, <1>3, <1>4, <1>5 DEF Reqs, Cookies

LEMMA SendingKeeps ==
  ASSUME FlowInv, NEW r \in Requests, NEW b \in Browsers, FromBrowser(r, b)
  PROVE  FlowInv'
<1>0. TypeOK /\ OwnTransactions /\ logins \in Nat /\ jar[b] \in Cookies
      /\ jar[b].sid \in Sids \cup {None} /\ jar[b].tx \in Logins \cup {None}
  BY Parts
<1>1. CASE BeginLogin(r, b)
  <2> DEFINE cookie == WithTransaction(jar[b], logins')
  <2>1. /\ logins' = logins + 1 /\ logins < MaxLogins
        /\ begun' = [begun EXCEPT ![logins'] = b]
        /\ Send(r, b, "begin", "discover", cookie, None, None)
        /\ code' = code
    BY <1>1 DEF BeginLogin
  <2>2. cookie = [sid |-> jar[b].sid, tx |-> logins'] /\ logins' \in Logins
    BY <1>0, <2>1 DEF WithTransaction, Cookies, Logins
  <2>3. cookie \in Cookies /\ cookie.tx = logins' /\ cookie.sid = jar[b].sid
    BY <1>0, <2>2 DEF Cookies
  <2>4. /\ begun' \in [Logins -> Browsers \cup {Nobody}]
        /\ begun'[logins'] = b
        /\ \A n \in 1 .. logins : begun'[n] = begun[n]
    BY <1>0, <2>1, <2>2 DEF TypeOK, Logins
  <2>5. logins' \in logins .. MaxLogins /\ logins' # None
    BY <1>0, <2>1 DEF None
  <2>6. None \in 0 .. Password /\ None \notin Logins /\ "discover" \in Places \ {"idle", "mint"}
    BY DEF None, Password, Logins, Places
  <2> HIDE DEF cookie
  <2> QED
    BY <2>1, <2>3, <2>4, <2>5, <2>6, SendKeeps
<1>2. ASSUME NEW state \in 0 .. logins, NEW c \in {None} \cup Logins, Callback(r, b, state, c)
      PROVE  FlowInv'
  <2> DEFINE tx == IF c = None THEN None ELSE Transaction(jar[b], state)
             at == IF tx = None THEN "answered" ELSE "exchange"
             cookie == [jar[b] EXCEPT !.tx = None]
             d == IF tx = None THEN None ELSE c
  <2>1. Send(r, b, "other", at, cookie, tx, d) /\ UNCHANGED idpVars
    BY <1>2 DEF Callback
  <2>2. cookie = [sid |-> jar[b].sid, tx |-> None]
    BY <1>0 DEF Cookies
  <2>3. cookie \in Cookies /\ cookie.tx = None /\ cookie.sid = jar[b].sid
    BY <1>0, <2>2 DEF Cookies
  <2>4. /\ tx \in {None, jar[b].tx} /\ d \in Logins \cup {None} /\ at \in Places \ {"idle", "mint"}
      /\ at \notin {"discover", "poll"}
    BY DEF Transaction, Places
  <2>5. tx \in Logins => tx <= logins' /\ begun'[tx] = b
    BY <1>0, <2>1, <2>4 DEF OwnTransactions, idpVars, Logins, None
  <2>6. tx \in 0 .. Password
    BY <1>0, <2>4 DEF Password, Logins, None
  <2>7. /\ logins' \in logins .. MaxLogins
        /\ begun' \in [Logins -> Browsers \cup {Nobody}] /\ begun' = begun /\ code' = code
    BY <1>0, <2>1 DEF TypeOK, idpVars
  <2> HIDE DEF tx, at, cookie, d
  <2> QED
    BY <2>1, <2>3, <2>4, <2>5, <2>6, <2>7, SendKeeps
<1>3. ASSUME NEW kind \in {"poll", "other"}, NEW at \in {"drop", "poll", "destroy"},
             NEW tx \in {None, Password},
             at = "poll" => kind = "poll",
             Send(r, b, kind, at, jar[b], tx, None), UNCHANGED idpVars
      PROVE  FlowInv'
  <2>1. jar[b].tx # None => jar[b].tx <= logins' /\ begun'[jar[b].tx] = b
    BY <1>0, <1>3 DEF OwnTransactions, idpVars
  <2>2. /\ tx \in 0 .. Password /\ tx \notin Logins /\ at \in Places \ {"idle", "mint"}
      /\ at # "discover"
    BY DEF None, Password, Logins, Places
  <2>3. /\ logins' \in logins .. MaxLogins
        /\ begun' \in [Logins -> Browsers \cup {Nobody}] /\ begun' = begun /\ code' = code
    BY <1>0, <1>3 DEF TypeOK, idpVars
  <2> QED
    BY <1>0, <1>3, <2>1, <2>2, <2>3, SendKeeps
<1>4. CASE PasswordLogin(r, b)
  BY <1>3, <1>4 DEF PasswordLogin
<1>5. CASE Poll(r, b)
  BY <1>3, <1>5 DEF Poll
<1>6. CASE Logout(r, b)
  BY <1>3, <1>6 DEF Logout
<1> QED
  BY <1>1, <1>2, <1>4, <1>5, <1>6 DEF FromBrowser

\* The handlers.
LEMMA HandlingKeeps ==
  ASSUME FlowInv, NEW r \in Requests, Handler(r)
  PROVE  FlowInv'
<1> SUFFICES ASSUME NEW b, b = req[r].by
             PROVE  FlowInv'
  OBVIOUS
<1> DEFINE Q(at, kind, cookie, tx, c) ==
             [at |-> at, by |-> b, kind |-> kind, cookie |-> cookie, tx |-> tx, code |-> c]
<1>0. /\ TypeOK /\ OwnTransactions
      /\ logins \in Nat /\ minted \in Nat /\ minted <= MaxSessions
      /\ req \in [Requests -> Reqs] /\ req[r] \in Reqs
      /\ req[r].cookie \in Cookies /\ b \in Browsers \cup {Nobody}
      /\ req[r].cookie.sid \in Sids \cup {None} /\ req[r].cookie.tx \in Logins \cup {None}
      /\ req[r].kind \in {"begin", "poll", "other"}
      /\ req[r].tx \in 0 .. Password /\ req[r].code \in Logins \cup {None}
      /\ live \subseteq 1 .. minted
      /\ made \in [Sids -> [login: 0 .. Password, by: Browsers \cup {Nobody}]]
      /\ code \in [Logins -> {"none", "issued", "spent"}]
  BY Parts DEF TypeOK, Reqs
<1>1. ASSUME NEW at \in Places, NEW kind \in {"begin", "poll", "other"}, NEW cookie \in Cookies,
             NEW tx \in 0 .. Password, NEW c \in Logins \cup {None}
      PROVE  Q(at, kind, cookie, tx, c) \in Reqs
  BY <1>0 DEF Reqs
<1>2. NoCookie \in Cookies /\ NoCookie.tx = None /\ NoCookie.sid = None /\ None \in 0 .. Password
      /\ {"answered", "drop", "mint", "destroy", "discover", "exchange", "poll"} \subseteq Places
  BY DEF NoCookie, Cookies, None, Password, Places
<1>3. CASE Redirect(r)
  <2>0. req[r].at = "discover" /\ UNCHANGED <<jar, logins, begun, code, minted, made, live>>
    BY <1>3 DEF Redirect, idpVars, storeVars
  <2>1. CASE Answer(r, req[r].cookie, "begin") /\ UNCHANGED historyVars
    <3> DEFINE q == Q("answered", "begin", req[r].cookie, None, None)
    <3>1. req' = [req EXCEPT ![r] = q]
      BY <2>1 DEF Answer
    <3>3. q \in Reqs
      BY <1>0, <1>1, <1>2
    <3>4. req[r].cookie.tx # None
      BY <2>0 DEF FlowInv, Beginning
    <3>5. Placed(req[r], Owned(b), jar[b]) => Placed(q, Owned(b), jar[b])
      BY <2>0 DEF Placed
    <3>6. /\ q.at = "answered" /\ q.by = b /\ q.cookie = req[r].cookie /\ q.tx = None
          /\ UNCHANGED <<jar, logins, begun, storeVars, historyVars>>
          /\ code' \in [Logins -> {"none", "issued", "spent"}]
      BY <1>0, <2>0, <2>1 DEF storeVars
    <3> HIDE DEF q
    <3> QED
      BY <2>0, <3>1, <3>3, <3>4, <3>5, <3>6, QuietHandlerKeeps
  <2>2. CASE NotDiscovered(r)
    <3> DEFINE R == {r}
    <3>2. req' = [s \in Requests |-> IF s \in R THEN Idle ELSE req[s]]
      BY <1>0, <2>2 DEF NotDiscovered
    <3>3. R \in SUBSET Requests /\ {req[s].by : s \in R} = {req[r].by}
      OBVIOUS
    <3>4. Disturbed({req[s].by : s \in R})
      BY <2>2, <3>3 DEF NotDiscovered
    <3>5. UNCHANGED <<jar, idpVars, minted, made>> /\ live' \subseteq live
      BY <2>0 DEF idpVars
    <3> HIDE DEF R, Q
    <3> QED
      BY <3>2, <3>3, <3>4, <3>5, EndingKeeps
  <2> QED
    BY <1>3, <2>1, <2>2 DEF Redirect
<1>4. CASE Exchange(r)
  <2>0. req[r].at = "exchange" /\ UNCHANGED <<jar, logins, begun, storeVars, historyVars>>
    BY <1>4 DEF Exchange
  <2>1. /\ code' \in [Logins -> {"none", "issued", "spent"}]
       
    BY <1>0, <1>4 DEF Exchange, Tokens, NoTokens
  <2>2. PICK at \in {"drop", "answered"}, kind \in {req[r].kind, "other"}, tx \in {None, req[r].tx} :
            req' = [req EXCEPT ![r] = Q(at, kind, req[r].cookie, tx, None)]
    BY <1>0, <1>4 DEF Exchange, ValidateIdToken, Answer, Reqs
  <2> DEFINE q == Q(at, kind, req[r].cookie, tx, None)
  <2>3. /\ q.at = at /\ q.by = b /\ q.kind = kind /\ q.cookie = req[r].cookie /\ q.tx = tx
        /\ q \in Reqs
    BY <1>0, <1>1, <1>2
  <2>4. q.kind = "begin" => q.cookie.tx # None
    BY <1>0, <2>3 DEF TypeOK
  <2>5. Placed(req[r], Owned(b), jar[b]) => Placed(q, Owned(b), jar[b])
    BY <2>0, <2>3 DEF Placed
  <2> HIDE DEF q
  <2> QED
    BY <2>0, <2>1, <2>2, <2>3, <2>4, <2>5, QuietHandlerKeeps DEF q
<1>5. CASE Drop(r)
  <2> DEFINE q == Q("mint", req[r].kind, req[r].cookie, req[r].tx, req[r].code)
  <2>0. /\ req[r].at = "drop" /\ live' = live \ {req[r].cookie.sid}
        /\ UNCHANGED <<jar, logins, begun, historyVars>>
        /\ code' = code /\ minted' = minted /\ made' = made
    BY <1>5 DEF Drop, Dropped, idpVars
  <2>1. req' = [req EXCEPT ![r] = q]
    <3>1. req' = [req EXCEPT ![r] = [req[r] EXCEPT !.at = "mint"]]
      BY <1>5 DEF Drop, Goto
    <3>2. [req[r] EXCEPT !.at = "mint"] = q
      BY <1>0 DEF Reqs
    <3> QED
      BY <3>1, <3>2
  <2>2. /\ q.at = "mint" /\ q.by = b /\ q.kind = req[r].kind
        /\ q.cookie = req[r].cookie /\ q.tx = req[r].tx /\ q \in Reqs
    BY <1>0, <1>1, <1>2
  <2>3. q.kind = "begin" => q.cookie.tx # None
    BY <1>0, <2>2 DEF TypeOK
  <2>4. \A d : Owned(d)' = Owned(d) \ {req[r].cookie.sid}
    BY <2>0 DEF Owned
  <2>5. Placed(req[r], Owned(b), jar[b]) => Placed(q, Owned(b)', jar[b])
    BY <2>0, <2>2, <2>4 DEF Placed
  <2>6. /\ minted' \in minted .. MaxSessions /\ live' \subseteq 1 .. minted'
        /\ made' \in [Sids -> [login: 0 .. Password, by: Browsers \cup {Nobody}]]
        /\ \A s \in 1 .. minted : made'[s] = made[s]
        /\ (1 .. minted') \ (1 .. minted) = {}
        /\ code' \in [Logins -> {"none", "issued", "spent"}]
    <3>1. minted' \in minted .. MaxSessions /\ (1 .. minted') \ (1 .. minted) = {}
      BY <1>0, <2>0
    <3>2. live' \subseteq 1 .. minted'
      BY <1>0, <2>0
    <3>3. /\ made' \in [Sids -> [login: 0 .. Password, by: Browsers \cup {Nobody}]]
          /\ \A s \in 1 .. minted : made'[s] = made[s]
          /\ code' \in [Logins -> {"none", "issued", "spent"}]
      BY <1>0, <2>0
    <3> QED
      BY <3>1, <3>2, <3>3
  <2>7. \A d \in Browsers \ {b} : Owned(d)' \subseteq Owned(d)
    BY <2>4
  <2> HIDE DEF q
  <2> QED
    BY <2>0, <2>1, <2>2, <2>3, <2>5, <2>6, <2>7, HandlerKeeps
<1>6. CASE Mint(r)
  <2> DEFINE cookie == [sid |-> minted', tx |-> None]
             q == Q("answered", "other", cookie, None, None)
  <2>0. /\ req[r].at = "mint" /\ minted < MaxSessions /\ minted' = minted + 1
        /\ made' = [made EXCEPT ![minted'] = [login |-> req[r].tx, by |-> b]]
        /\ live' = live \cup {minted'}
        /\ UNCHANGED <<jar, logins, begun, historyVars>>
        /\ code' = code
        /\ req' = [req EXCEPT ![r] = q]
    BY <1>6 DEF Mint, idpVars, Answer
  <2>1. minted' \in Sids /\ minted' \notin 1 .. minted /\ minted' # None
    BY <1>0, <2>0 DEF Sids, None
  <2>2. cookie \in Cookies /\ cookie.tx = None /\ cookie.sid = minted'
    BY <2>1 DEF Cookies
  <2>3. /\ q.at = "answered" /\ q.by = b /\ q.kind = "other"
        /\ q.cookie = cookie /\ q.tx = None /\ q \in Reqs
    BY <1>0, <1>1, <1>2, <2>2
  <2>4. /\ made' \in [Sids -> [login: 0 .. Password, by: Browsers \cup {Nobody}]]
        /\ made'[minted'] = [login |-> req[r].tx, by |-> b]
        /\ \A s \in Sids \ {minted'} : made'[s] = made[s]
    BY <1>0, <2>0, <2>1
  <2>5. /\ \A s \in 1 .. minted : s \in Sids /\ s # minted'
        /\ (1 .. minted') \ (1 .. minted) = {minted'}
        /\ minted' \in minted .. MaxSessions
    BY <1>0, <2>0 DEF Sids
  <2>6. /\ \A s \in 1 .. minted : made'[s] = made[s]
        /\ \A s \in (1 .. minted') \ (1 .. minted) : made'[s] = [login |-> req[r].tx, by |-> b]
    BY <2>4, <2>5
  <2>7. live' \subseteq 1 .. minted'
    BY <1>0, <2>0
  <2>8. \A s \in live : made'[s] = made[s]
    BY <1>0, <2>6
  <2>9. \A d \in Browsers \ {b} : Owned(d)' \subseteq Owned(d)
    BY <2>0, <2>4, <2>8 DEF Owned
  <2>10. Owned(b)' \subseteq Owned(b) \cup {minted'}
    BY <2>0, <2>8 DEF Owned
  <2>11. Placed(req[r], Owned(b), jar[b]) => Placed(q, Owned(b)', jar[b])
    BY <2>0, <2>2, <2>3, <2>10 DEF Placed
  <2>12. code' \in [Logins -> {"none", "issued", "spent"}]
    BY <1>0, <2>0
  <2> HIDE DEF q, cookie
  <2> QED
    BY <2>0, <2>2, <2>3, <2>4, <2>5, <2>6, <2>7, <2>9, <2>11, <2>12, HandlerKeeps
<1>7. CASE Polled(r)
  <2>0. /\ req[r].at = "poll" /\ UNCHANGED <<jar, logins, begun, storeVars, historyVars>>
        /\ code' = code
    BY <1>7 DEF Polled, idpVars
  <2>1. PICK at \in {"answered", "destroy"}, kind \in {"poll", "other"}, tx \in {None, req[r].tx},
             c \in {None, req[r].code} :
            /\ req' = [req EXCEPT ![r] = Q(at, kind, req[r].cookie, tx, c)]
    <3>1. CASE Answer(r, AfterPoll(req[r].cookie), "poll")
      BY <3>1 DEF Answer, AfterPoll
    <3>2. CASE req' = [req EXCEPT ![r].at = "destroy", ![r].kind = "other"]
      <4> DEFINE p == [req[r] EXCEPT !.at = "destroy"]
      <4>1. p = Q("destroy", req[r].kind, req[r].cookie, req[r].tx, req[r].code)
        BY <1>0 DEF Reqs
      <4> HIDE DEF p
      <4>2. [p EXCEPT !.kind = "other"]
              = Q("destroy", "other", req[r].cookie, req[r].tx, req[r].code)
        BY <4>1
      <4>3. req' = [req EXCEPT ![r] = [p EXCEPT !.kind = "other"]]
        BY <1>0, <3>2 DEF p
      <4> QED
        BY <4>2, <4>3
    <3> QED
      BY <1>7, <3>1, <3>2 DEF Polled
  <2> DEFINE q == Q(at, kind, req[r].cookie, tx, c)
  <2>2. /\ q.at = at /\ q.by = b /\ q.kind = kind /\ q.cookie = req[r].cookie /\ q.tx = tx
        /\ q \in Reqs
    BY <1>0, <1>1, <1>2
  <2>3. req[r].kind = "poll"
    BY <2>0 DEF FlowInv, Beginning
  <2>4. Placed(req[r], Owned(b), jar[b]) => Placed(q, Owned(b), jar[b])
    BY <2>0, <2>2, <2>3 DEF Placed
  <2>5. code' \in [Logins -> {"none", "issued", "spent"}]
    BY <1>0, <2>0
  <2> HIDE DEF q
  <2> QED
    BY <2>0, <2>1, <2>2, <2>4, <2>5, QuietHandlerKeeps DEF q
<1>8. CASE Destroy(r)
  <2> DEFINE q == Q("answered", "other", NoCookie, None, None)
  <2>0. /\ req[r].at = "destroy" /\ live' = live \ {req[r].cookie.sid}
        /\ UNCHANGED <<jar, logins, begun, historyVars>>
        /\ code' = code /\ minted' = minted /\ made' = made
        /\ req' = [req EXCEPT ![r] = q]
    BY <1>8 DEF Destroy, Ended, idpVars, Answer
  <2>1. /\ q.at = "answered" /\ q.by = b /\ q.kind = "other"
        /\ q.cookie.tx = None /\ q.tx = None /\ q \in Reqs
    BY <1>0, <1>1, <1>2
  <2>2. \A d : Owned(d)' = Owned(d) \ {req[r].cookie.sid}
    BY <2>0 DEF Owned
  <2>3. Placed(req[r], Owned(b), jar[b]) => Placed(q, Owned(b)', jar[b])
    BY <2>0, <2>1, <2>2 DEF Placed
  <2>4. minted' \in minted .. MaxSessions /\ (1 .. minted') \ (1 .. minted) = {}
    BY <1>0, <2>0
  <2>5. live' \subseteq 1 .. minted'
    BY <1>0, <2>0
  <2>6. /\ made' \in [Sids -> [login: 0 .. Password, by: Browsers \cup {Nobody}]]
        /\ \A s \in 1 .. minted : made'[s] = made[s]
        /\ code' \in [Logins -> {"none", "issued", "spent"}]
    BY <1>0, <2>0
  <2>7. \A d \in Browsers \ {b} : Owned(d)' \subseteq Owned(d)
    BY <2>2
  <2> HIDE DEF q
  <2> QED
    BY <2>0, <2>1, <2>3, <2>4, <2>5, <2>6, <2>7, HandlerKeeps
<1> QED
  BY <1>3, <1>4, <1>5, <1>6, <1>7, <1>8 DEF Handler

\* The answer arrives.
LEMMA DeliverKeeps ==
  ASSUME FlowInv, NEW r \in Requests, Deliver(r)
  PROVE  FlowInv'
<1> SUFFICES ASSUME NEW b, b = req[r].by
             PROVE  FlowInv'
  OBVIOUS
<1>0. /\ TypeOK /\ OwnTransactions /\ Beginning
      /\ \A d \in calm : CalmBrowser(d)
      /\ req[r].at = "answered" /\ b \in Browsers
      /\ logins' = logins /\ begun' = begun /\ minted' = minted /\ made' = made
      /\ live' = live /\ calm' = calm
      /\ req' = [req EXCEPT ![r] = Idle]
  BY DEF FlowInv, Deliver, OwnTransactions, storeVars
<1>1. /\ req \in [Requests -> Reqs] /\ Idle \in Reqs /\ req[r].cookie \in Cookies
      /\ jar \in [Browsers -> Cookies]
      /\ req[r].cookie.tx \in Logins \cup {None}
  <2>1. req \in [Requests -> Reqs] /\ jar \in [Browsers -> Cookies]
    BY <1>0 DEF TypeOK, Reqs
  <2>2. Idle \in Reqs
    BY DEF Reqs, Idle, NoCookie, Cookies, Places, None, Password
  <2> QED
    BY <2>1, <2>2, Parts
<1>2. Idle.at = "idle" /\ Idle.kind = "poll" /\ Idle.cookie.tx = None /\ Idle.tx = None
  BY DEF Idle, NoCookie
<1>3. /\ req' \in [Requests -> Reqs]
      /\ req'[r] = Idle
      /\ \A s \in Requests \ {r} : req'[s] = req[s]
  BY <1>0, <1>1
<1>4. /\ \/ jar' = [jar EXCEPT ![b] = req[r].cookie]
         \/ req[r].kind = "poll" /\ jar' = jar
      /\ waiting' = CASE b \notin calm \/ req[r].kind = "poll" -> waiting
                      [] b \in calm /\ req[r].kind = "begin" -> [waiting EXCEPT ![b] = req[r].cookie.tx]
                      [] OTHER -> [waiting EXCEPT ![b] = None]
      /\ SignIn(IF req[r].kind = "begin" THEN {req[r].cookie.tx} ELSE {})
  BY DEF Deliver
<1>5. /\ jar' \in [Browsers -> Cookies]
      /\ \A d \in Browsers \ {b} : jar'[d] = jar[d]
      /\ jar'[b] \in {req[r].cookie, jar[b]}
      /\ req[r].kind # "poll" => jar'[b] = req[r].cookie
  BY <1>0, <1>1, <1>4
<1>6. waiting \in [Browsers -> Logins \cup {None}]
  BY <1>0 DEF TypeOK
<1>7. /\ waiting' \in [Browsers -> Logins \cup {None}]
      /\ \A d \in Browsers \ {b} : waiting'[d] = waiting[d]
      /\ b \in calm => waiting'[b] = IF req[r].kind = "poll" THEN waiting[b]
                                    ELSE IF req[r].kind = "begin" THEN req[r].cookie.tx
                                    ELSE None
  <2>1. CASE b \notin calm \/ req[r].kind = "poll"
    BY <1>4, <1>6, <2>1
  <2>2. CASE b \in calm /\ req[r].kind = "begin"
    BY <1>0, <1>1, <1>4, <1>6, <2>2
  <2>3. CASE b \in calm /\ req[r].kind \notin {"begin", "poll"}
    BY <1>0, <1>1, <1>4, <1>6, <2>3
  <2> QED
    BY <2>1, <2>2, <2>3
<1>8. TypeOK'
  <2>1. \A s \in Requests : req'[s].kind = "begin" => req'[s].cookie.tx # None
    BY <1>0, <1>2, <1>3 DEF TypeOK
  <2>2. code' \in [Logins -> {"none", "issued", "spent"}]
    BY <1>0, <1>4 DEF SignIn, TypeOK
  <2> QED
    BY <1>0, <1>3, <1>5, <1>7, <2>1, <2>2 DEF TypeOK, Reqs
<1>9. OwnTransactions'
  <2>1. \A d \in Browsers : jar'[d].tx # None => jar'[d].tx <= logins' /\ begun'[jar'[d].tx] = d
    BY <1>0, <1>5 DEF OwnTransactions
  <2>2. \A s \in Requests :
           /\ req'[s].at # "idle" => req'[s].by \in Browsers
           /\ req'[s].cookie.tx # None =>
                 req'[s].cookie.tx <= logins' /\ begun'[req'[s].cookie.tx] = req'[s].by
           /\ req'[s].tx \in Logins => req'[s].tx <= logins' /\ begun'[req'[s].tx] = req'[s].by
    BY <1>0, <1>2, <1>3 DEF OwnTransactions, None, Logins
  <2> QED
    BY <1>0, <2>1, <2>2 DEF OwnTransactions
<1>10. Beginning'
  BY <1>0, <1>2, <1>3 DEF Beginning
<1>11. ASSUME NEW d \in calm' PROVE CalmBrowser(d)'
  <2>0. CalmBrowser(d) /\ d \in Browsers /\ d \in calm /\ Owned(d)' = Owned(d)
    BY <1>0 DEF TypeOK, Owned
  <2>1. CASE d # b
    <3>1. UnderWay(d)' = UnderWay(d) /\ \A s \in UnderWay(d) : req'[s] = req[s]
      BY <1>0, <1>2, <1>3, <2>1 DEF UnderWay
    <3> QED
      BY <1>5, <1>7, <2>0, <2>1, <3>1 DEF CalmBrowser
  <2>2. CASE d = b
    <3>1. UnderWay(b) = {r}
      BY <1>0, <2>0, <2>2 DEF UnderWay, CalmBrowser
    <3>2. UnderWay(b)' = {}
      BY <1>2, <1>3, <3>1 DEF UnderWay
    <3>3. /\ Owned(b) \subseteq {req[r].cookie.sid}
          /\ req[r].kind = "poll" => req[r].cookie = jar[b]
      BY <1>0, <2>0, <2>2, <3>1 DEF CalmBrowser, Placed
    <3>4. jar'[b] = req[r].cookie
      BY <1>5, <3>3
    <3>5. waiting'[b] # None => jar'[b].tx = waiting'[b]
      BY <1>7, <2>0, <2>2, <3>3, <3>4 DEF CalmBrowser
    <3> QED
      BY <2>0, <2>2, <3>2, <3>3, <3>4, <3>5 DEF CalmBrowser
  <2> QED
    BY <2>1, <2>2
<1> QED
  BY <1>8, <1>9, <1>10, <1>11 DEF FlowInv

LEMMA StepFlowInv == FlowInv /\ [Next]_vars => FlowInv'
<1> SUFFICES ASSUME FlowInv, [Next]_vars PROVE FlowInv'
  OBVIOUS
<1>0. TypeOK /\ req \in [Requests -> Reqs]
  BY DEF FlowInv, TypeOK, Reqs
<1>1. ASSUME NEW r \in Requests, NEW b \in Browsers, FromBrowser(r, b) PROVE FlowInv'
  BY <1>1, SendingKeeps
<1>2. ASSUME NEW r \in Requests, Handler(r) PROVE FlowInv'
  BY <1>2, HandlingKeeps
<1>3. ASSUME NEW r \in Requests, Deliver(r) PROVE FlowInv'
  BY <1>3, DeliverKeeps
<1>4. ASSUME NEW r \in Requests, Lose(r) PROVE FlowInv'
  <2>1. req' = [s \in Requests |-> IF s \in {r} THEN Idle ELSE req[s]]
    BY <1>0, <1>4 DEF Lose
  <2>2. {req[s].by : s \in {r}} = {req[r].by} /\ {r} \in SUBSET Requests
    OBVIOUS
  <2>3. /\ Disturbed({req[r].by}) /\ UNCHANGED <<jar, idpVars, minted, made>>
        /\ live' \subseteq live
    BY <1>0, <1>4 DEF Lose, storeVars
  <2> QED
    BY <2>1, <2>2, <2>3, EndingKeeps
<1>5. ASSUME NEW s \in Sids, Expire(s) PROVE FlowInv'
  <2>1. req' = [r \in Requests |-> IF r \in {} THEN Idle ELSE req[r]]
    BY <1>0, <1>5 DEF Expire
  <2>2. Disturbed({req[r].by : r \in {}})
    BY <1>0, <1>5 DEF Expire, Disturbed, historyVars, TypeOK
  <2>3. /\ UNCHANGED <<jar, idpVars, minted, made>>
        /\ live' \subseteq live
    BY <1>0, <1>5 DEF Expire
  <2> QED
    BY <2>1, <2>2, <2>3, EndingKeeps
<1>6. CASE Restart
  <2>1. req' = [r \in Requests |-> IF r \in Requests THEN Idle ELSE req[r]]
    BY <1>6 DEF Restart
  <2>2. /\ Disturbed({req[r].by : r \in Requests}) /\ UNCHANGED <<jar, idpVars, minted, made>>
        /\ live' \subseteq live
    BY <1>6 DEF Restart
  <2> QED
    BY <2>1, <2>2, EndingKeeps
<1>7. CASE UNCHANGED vars
  <2>1. req' = [r \in Requests |-> IF r \in {} THEN Idle ELSE req[r]]
    BY <1>0, <1>7 DEF vars
  <2>2. Disturbed({req[r].by : r \in {}})
    BY <1>0, <1>7 DEF vars, Disturbed, TypeOK
  <2>3. /\ UNCHANGED <<jar, idpVars, minted, made>>
        /\ live' \subseteq live
    BY <1>0, <1>7 DEF vars, idpVars
  <2> QED
    BY <2>1, <2>2, <2>3, EndingKeeps
<1> QED
  BY <1>1, <1>2, <1>3, <1>4, <1>5, <1>6, <1>7 DEF Next

LEMMA AlwaysFlowInv == Spec => []FlowInv
  BY InitFlowInv, StepFlowInv, PTL DEF Spec

-----------------------------------------------------------------------------
(* The theorems.                                                           *)

\* Whatever is sent and answered in whatever order, the state has its types:
\* who is redirected has a transaction, and what is live was established.
THEOREM TypeCorrect == Spec => []TypeOK
<1>1. FlowInv => TypeOK
  BY DEF FlowInv
<1> QED
  BY <1>1, AlwaysFlowInv, PTL

\* A session belongs to a login that was begun in the browser that got it.
THEOREM NoLoginForgery == Spec => []SessionIsOwnLogin
<1>1. FlowInv => SessionIsOwnLogin
  BY DEF FlowInv, OwnTransactions, SessionIsOwnLogin
<1> QED
  BY <1>1, AlwaysFlowInv, PTL

\* A browser that does one thing at a time has one session at most.
THEOREM OneSession == Spec => []OneSessionPerBrowser
<1>1. ASSUME FlowInv, NEW b \in calm
      PROVE  Cardinality(Owned(b)) <= 1
  <2>1. \E x : Owned(b) \subseteq {x}
    BY <1>1 DEF FlowInv, CalmBrowser, Placed
  <2>2. PICK x : Owned(b) \subseteq {x}
    BY <2>1
  <2>3. IsFiniteSet({x}) /\ Cardinality({x}) = 1
    BY FS_Singleton
  <2>4. Cardinality(Owned(b)) <= Cardinality({x})
    BY <2>2, <2>3, FS_Subset
  <2> QED
    BY <2>3, <2>4
<1>2. FlowInv => OneSessionPerBrowser
  BY <1>1 DEF OneSessionPerBrowser, Owned
<1> QED
  BY <1>2, AlwaysFlowInv, PTL

\* And no session of it is alive that its cookie does not name.
THEOREM NoSessionIsLeft == Spec => []SessionIsInCookie
<1>1. FlowInv => SessionIsInCookie
  BY DEF FlowInv, CalmBrowser, Owned, SessionIsInCookie
<1> QED
  BY <1>1, AlwaysFlowInv, PTL

\* And finds the transaction of the login it was sent off to.
THEOREM TransactionIsKept == Spec => []TransactionKept
<1>1. FlowInv => TransactionKept
  BY DEF FlowInv, CalmBrowser, TransactionKept
<1> QED
  BY <1>1, AlwaysFlowInv, PTL
=============================================================================
