----------------------------- MODULE LoginFlow -----------------------------
(***************************************************************************)
(* Signing in and out: the authorization code flow of routers/auth.py with *)
(* the client of oidc.py, the password login's session, and establish and  *)
(* destroy of sessions.py, for several browsers and several tabs of each.  *)
(* The tenant's and the provider's flow are the same handlers under other  *)
(* names, and no process serves both.                                      *)
(*                                                                         *)
(* The session of a request is what the cookie held when it was sent; what *)
(* the handler leaves in it replaces the browser's cookie when the answer  *)
(* arrives.  An exception that no handler catches, a killed process and a  *)
(* lost answer replace nothing.  Every await of a handler is a step        *)
(* boundary; a request's way to its first await is one step with sending.  *)
(*                                                                         *)
(* State, nonce and verifier of a login are drawn together and stand for   *)
(* one number, its code at the identity provider has the same.             *)
(***************************************************************************)
EXTENDS Naturals, FiniteSets

CONSTANTS
    Browsers,
    Nobody,        \* no browser
    Requests,      \* bound: the requests that can be under way at once
    MaxLogins,     \* bound: the logins begun at the identity provider
    MaxSessions    \* bound: the sessions established

ASSUME BrowsersAssumption == Nobody \notin Browsers
ASSUME BoundsAssumption == MaxLogins \in Nat /\ MaxSessions \in Nat

VARIABLES
    jar,       \* the cookie of each browser: a session id, a transaction
    req,       \* the requests: where each is and what it holds
    logins,    \* how many logins have been begun
    begun,     \* the browser each was begun in
    code,      \* what the identity provider knows of each
    minted,    \* how many sessions have been established
    made,      \* what each is: the login it came from, the browser that got it
    live,      \* the sessions in the store
    calm,      \* history: browsers whose requests never overlapped or failed
    waiting    \* history: the login a calm browser was sent off to last

vars == <<jar, req, logins, begun, code, minted, made, live, calm, waiting>>

None == 0
Logins == 1 .. MaxLogins
Sids == 1 .. MaxSessions
Cookies == [sid: Sids \cup {None}, tx: Logins \cup {None}]
NoCookie == [sid |-> None, tx |-> None]
Password == MaxLogins + 1      \* the login of a password session

Idle == [at |-> "idle", by |-> Nobody, kind |-> "poll",
         cookie |-> NoCookie, tx |-> None, code |-> None]

Init ==
    /\ jar = [b \in Browsers |-> NoCookie]
    /\ req = [r \in Requests |-> Idle]
    /\ logins = 0
    /\ begun = [n \in Logins |-> Nobody]
    /\ code = [n \in Logins |-> "none"]
    /\ minted = 0
    /\ made = [s \in Sids |-> [login |-> None, by |-> Nobody]]
    /\ live = {}
    /\ calm = Browsers
    /\ waiting = [b \in Browsers |-> None]

idpVars == <<logins, begun, code>>
storeVars == <<minted, made, live>>
historyVars == <<calm, waiting>>

-----------------------------------------------------------------------------
(* Requests.                                                               *)

UnderWay(b) == {r \in Requests : req[r].at # "idle" /\ req[r].by = b}

Disturbed(browsers) ==
    /\ calm' = calm \ browsers
    /\ waiting' = [b \in Browsers |-> IF b \in browsers THEN None ELSE waiting[b]]

\* A browser sends a request with the cookie it has.
Send(r, b, kind, at, cookie, tx, c) ==
    /\ req[r].at = "idle"
    /\ req' = [req EXCEPT ![r] = [at |-> at, by |-> b, kind |-> kind, cookie |-> cookie,
                                  tx |-> tx, code |-> c]]
    /\ IF UnderWay(b) = {} THEN UNCHANGED historyVars ELSE Disturbed({b})
    /\ UNCHANGED <<jar, storeVars>>

\* The handler is through: its answer carries what is in the session now.
Answer(r, cookie, kind) ==
    req' = [req EXCEPT ![r] = [at |-> "answered", by |-> req[r].by, kind |-> kind,
                               cookie |-> cookie, tx |-> None, code |-> None]]

Goto(r, at) == req' = [req EXCEPT ![r].at = at]

\* Where a login begins, the person at the browser signs in at the provider and
\* is sent back with a code, whenever that is.
SignIn(asked) == code' = [n \in Logins |-> IF n \in asked THEN "issued" ELSE code[n]]

\* The answer arrives.  A session that is empty and was empty sets nothing,
\* one that is not may or may not be written back when it is as it was
\* received, depending on the version of the middleware.
Deliver(r) ==
    LET b == req[r].by IN
    /\ req[r].at = "answered"
    /\ \/ jar' = [jar EXCEPT ![b] = req[r].cookie]
       \/ req[r].kind = "poll" /\ UNCHANGED jar
    /\ waiting' = CASE b \notin calm \/ req[r].kind = "poll" -> waiting
                    [] b \in calm /\ req[r].kind = "begin" -> [waiting EXCEPT ![b] = req[r].cookie.tx]
                    [] OTHER -> [waiting EXCEPT ![b] = None]
    /\ SignIn(IF req[r].kind = "begin" THEN {req[r].cookie.tx} ELSE {})
    /\ req' = [req EXCEPT ![r] = Idle]
    /\ UNCHANGED <<logins, begun, storeVars, calm>>

\* The handler raises what nothing catches, or the answer is lost.
Lose(r) ==
    /\ req[r].at # "idle"
    /\ req' = [req EXCEPT ![r] = Idle]
    /\ Disturbed({req[r].by})
    /\ UNCHANGED <<jar, idpVars, storeVars>>

-----------------------------------------------------------------------------
(* The handlers.                                                           *)

WithTransaction(cookie, n) == [cookie EXCEPT !.tx = n]

\* oidc_login, provider_login: the transaction goes into the session, next to
\* the session id if there is one.
BeginLogin(r, b) ==
    /\ logins < MaxLogins
    /\ logins' = logins + 1
    /\ begun' = [begun EXCEPT ![logins'] = b]
    /\ Send(r, b, "begin", "discover", WithTransaction(jar[b], logins'), None, None)
    /\ UNCHANGED code

\* _discover, where the document cannot be had or names another issuer: an
\* exception that oidc_login does not catch.
NotDiscovered(r) ==
    /\ req' = [req EXCEPT ![r] = Idle]
    /\ Disturbed({req[r].by})

\* authorization_url, once discovery has the endpoints, now or earlier.
Redirect(r) ==
    /\ req[r].at = "discover"
    /\ \/ Answer(r, req[r].cookie, "begin") /\ UNCHANGED historyVars
       \/ NotDiscovered(r)
    /\ UNCHANGED <<jar, idpVars, storeVars>>

\* The transaction a callback with this state goes on with: what the cookie
\* held, if it is that of the state.
ByStateMutant(cookie, state) == state
Transaction(cookie, state) == IF state = cookie.tx THEN cookie.tx ELSE None

\* oidc_callback, provider_callback: the transaction is popped.  An error of
\* the provider, a missing code and a state of another login are answered 400.
Callback(r, b, state, c) ==
    LET tx == IF c = None THEN None ELSE Transaction(jar[b], state) IN
    /\ Send(r, b, "other", IF tx = None THEN "answered" ELSE "exchange",
            [jar[b] EXCEPT !.tx = None], tx, IF tx = None THEN None ELSE c)
    /\ UNCHANGED idpVars

\* exchange_code: the provider honours a code once, with the verifier of the
\* login it was issued for.
Honoured(r) == code[req[r].code] = "issued" /\ req[r].tx = req[r].code
Tokens(r) ==
    /\ Honoured(r)
    /\ code' = [code EXCEPT ![req[r].code] = "spent"]

\* Discovery fails, or the provider answers anything else: an OIDCError.
NoTokens == UNCHANGED code

\* validate_id_token: the token of a code has the nonce of its login, but the
\* keys that signed it may not be had, another OIDCError.
ValidateIdToken(r) ==
    \/ req' = [req EXCEPT ![r].at = "drop", ![r].code = None]
    \/ Answer(r, req[r].cookie, "other")

\* The rest of the callback, up to establish; 401 for an OIDCError.
Exchange(r) ==
    /\ req[r].at = "exchange"
    /\ \/ Tokens(r) /\ ValidateIdToken(r)
       \/ NoTokens /\ Answer(r, req[r].cookie, "other")
    /\ UNCHANGED <<jar, logins, begun, storeVars, historyVars>>

\* login, with a password that is right.
PasswordLogin(r, b) ==
    /\ Send(r, b, "other", "drop", jar[b], Password, None)
    /\ UNCHANGED idpVars

\* establish: the session the request came with is deleted,
NoDropMutant(sid) == {}
Dropped(sid) == {sid}
Drop(r) ==
    /\ req[r].at = "drop"
    /\ live' = live \ Dropped(req[r].cookie.sid)
    /\ Goto(r, "mint")
    /\ UNCHANGED <<jar, idpVars, minted, made, historyVars>>

\* another is stored, and all the cookie holds is its id.
Mint(r) ==
    /\ req[r].at = "mint"
    /\ minted < MaxSessions
    /\ minted' = minted + 1
    /\ made' = [made EXCEPT ![minted'] = [login |-> req[r].tx, by |-> req[r].by]]
    /\ live' = live \cup {minted'}
    /\ Answer(r, [sid |-> minted', tx |-> None], "other")
    /\ UNCHANGED <<jar, idpVars, historyVars>>

\* Any other request.  Without a session it is answered 401, and the cookie
\* stays as it is.
ClearStaleMutant(cookie) == IF cookie.sid \in live THEN cookie ELSE NoCookie
AfterPoll(cookie) == cookie
Poll(r, b) ==
    /\ jar[b] # NoCookie
    /\ Send(r, b, "poll", "poll", jar[b], None, None)
    /\ UNCHANGED idpVars

Polled(r) ==
    /\ req[r].at = "poll"
    /\ \/ Answer(r, AfterPoll(req[r].cookie), "poll")
       \/ \* me, whose token the gateway refused
          /\ req[r].cookie.sid \in live
          /\ req' = [req EXCEPT ![r].at = "destroy", ![r].kind = "other"]
    /\ UNCHANGED <<jar, idpVars, storeVars, historyVars>>

Logout(r, b) ==
    /\ jar[b] # NoCookie
    /\ Send(r, b, "other", "destroy", jar[b], None, None)
    /\ UNCHANGED idpVars

\* destroy: the session is deleted, and the whole cookie is cleared, a
\* transaction included.
NotDeletedMutant(sid) == {}
Ended(sid) == {sid}
Destroy(r) ==
    /\ req[r].at = "destroy"
    /\ live' = live \ Ended(req[r].cookie.sid)
    /\ Answer(r, NoCookie, "other")
    /\ UNCHANGED <<jar, idpVars, minted, made, historyVars>>

-----------------------------------------------------------------------------
(* The store and the process.                                              *)

Expire(s) ==
    /\ s \in live
    /\ live' = live \ {s}
    /\ UNCHANGED <<jar, req, idpVars, minted, made, historyVars>>

\* What was under way dies, and so do the sessions of the memory backend.
Restart ==
    /\ req' = [r \in Requests |-> Idle]
    /\ Disturbed({req[r].by : r \in Requests})
    /\ live' \in {live, {}}
    /\ UNCHANGED <<jar, idpVars, minted, made>>

FromBrowser(r, b) ==
    \/ BeginLogin(r, b)
    \/ \E state \in 0 .. logins, c \in {None} \cup {n \in Logins : code[n] # "none"} :
           Callback(r, b, state, c)
    \/ PasswordLogin(r, b) \/ Poll(r, b) \/ Logout(r, b)

Handler(r) ==
    \/ Redirect(r) \/ Exchange(r) \/ Drop(r) \/ Mint(r)
    \/ Polled(r) \/ Destroy(r)

Next ==
    \/ \E r \in Requests, b \in Browsers : FromBrowser(r, b)
    \/ \E r \in Requests : Handler(r) \/ Deliver(r) \/ Lose(r)
    \/ \E s \in Sids : Expire(s)
    \/ Restart

Spec == Init /\ [][Next]_vars

-----------------------------------------------------------------------------
(* Properties.                                                             *)

Places == {"idle", "discover", "exchange", "drop", "mint",
           "poll", "destroy", "answered"}

TypeOK ==
    /\ jar \in [Browsers -> Cookies]
    /\ req \in [Requests -> [at: Places, by: Browsers \cup {Nobody},
                             kind: {"begin", "poll", "other"},
                             cookie: Cookies, tx: 0 .. Password,
                             code: Logins \cup {None}]]
    /\ logins \in 0 .. MaxLogins
    /\ begun \in [Logins -> Browsers \cup {Nobody}]
    /\ code \in [Logins -> {"none", "issued", "spent"}]
    /\ minted \in 0 .. MaxSessions
    /\ made \in [Sids -> [login: 0 .. Password, by: Browsers \cup {Nobody}]]
    /\ live \subseteq 1 .. minted
    /\ calm \subseteq Browsers
    /\ waiting \in [Browsers -> Logins \cup {None}]
    /\ \A r \in Requests : req[r].kind = "begin" => req[r].cookie.tx # None

\* A session belongs to a login that was begun in the browser that got it,
\* wherever and however often a callback address is opened and whatever state
\* and code it joins (auth.py, 235-236: defeats login-CSRF).
SessionIsOwnLogin ==
    \A s \in 1 .. minted : made[s].login \in Logins => begun[made[s].login] = made[s].by

\* A browser that has done one thing at a time holds one session at most: a
\* login ends the session it is made from (sessions.py, 188-189).
OneSessionPerBrowser ==
    \A b \in calm : Cardinality({s \in live : made[s].by = b}) <= 1

\* Whenever such a browser has no request under way, its cookie names every
\* session that is alive for it: none outlives the logout, the refused token,
\* or the login that took its id out of the cookie (sessions.py, 202: "delete
\* the stored state and clear the cookie").
SessionIsInCookie ==
    \A b \in calm : UnderWay(b) = {} =>
        \A s \in live : made[s].by = b => jar[b].sid = s

\* A browser that was sent off to sign in and has done nothing but ask since,
\* one request at a time, finds its transaction when it comes back, whether
\* its earlier session is alive, expired or gone with a restart.
TransactionKept ==
    \A b \in calm : waiting[b] # None /\ UnderWay(b) = {} => jar[b].tx = waiting[b]

\* Two callbacks never go on with the same transaction ("single-use: the
\* callback pops them", auth.py, 235-236).  They do when both were sent before
\* the answer to either replaced the cookie.
TransactionUsedOnce ==
    \A r, s \in Requests :
        r # s /\ req[r].at = "exchange" /\ req[s].at = "exchange" => req[r].tx # req[s].tx
=============================================================================
