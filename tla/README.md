# SyncGate-UI: a verification project

TLA+ models of the SyncGate console - a FastAPI backend-for-frontend (BFF,
`src/bff/app`) and a React single-page app (`src/web/src`) that stand between
operators' browsers and device gateways, a device catalog and identity providers -
with the TLC configurations that check them and TLAPS proofs of their main
theorems.  `PROJECT.json` maps every definition to the lines of code it stands for.

## 1. Inventory

One BFF process is a single asyncio event loop: everything between two `await`s is
atomic, everything across an `await` interleaves.  `deploy/kubernetes` runs two such
processes (replicas) behind one address; they share the Redis session store and the
audit volume, nothing else.  A BFF serves one *plane*: a tenant's console, or the
provider's.

| Part | Code | State | Operations | Talks to |
|---|---|---|---|---|
| Session store | `sessions.py` | one JSON record and one lock per session id (memory or Redis), a cached copy per request | establish, load, set, delete, lock, destroy | every handler |
| Relay | `relay.py`, `security.py` | the tokens inside the session | relay_get, relay_request, refresh_oidc_access_token, upstream_bearer, drop of a dead grant | gateway, identity provider, session store |
| Support grants | `routers/provider.py` | the grant held by a provider session | raise, poll, release, list tenants | a tenant's gateway, session store, audit |
| Tenant registry, directory, pool | `tenant_registry.py`, `tenant_directory.py`, `gateway_pool.py` | per replica: enrolled tenants, staleness, one client per tenant | refresh, get, invalidate, aclose | catalog |
| Enrolment | `routers/enrolment.py` | none of its own; a saga over two services | redeem | catalog, a tenant's gateway, pool, directory |
| Catalog client | `catalog_client.py`, `catalog_enrolment.py` | address and credential, a resolve lock, a cooldown | request, _resolve, _adopt | catalog, own gateway |
| Audit | `audit.py` | a hash chain per instance, a shared file | record, seed from the tail, verify_chain | disk |
| Login | `routers/auth.py`, `oidc.py` | the session id and the login transaction in the browser's cookie; the memoised discovery document | login, logout, me, begin and callback of two OIDC flows | identity providers, session store |
| Throttle | `throttle.py` | per process: recent failures by client address, in the order they happened | client_ip, retry_after, record_failure, record_success | the password login |
| Tenant API | `routers/api.py`, `support.py`, `catalog.py` | the prepared backup in the session; pins at the catalog, devices and MCP sessions at the gateway | some forty relays, claim, accept, register, delete, tool calls, restore, export/download | gateway, catalog, Prometheus, Loki |
| Start-up | `bootstrap.py`, `config.py`, `main.py`, `correlation.py` | generated secrets in a file | bootstrap, create_app | disk |
| Web app | `web/src` | view state, poll timer, previews, confirmations | - | the BFF |

What is hard in it, part by part, and what makes each part correct:

* **Session and relay.** Several requests of one browser, on several replicas, run
  into the same token expiry.  Refresh tokens may rotate: presenting one twice can
  cost the user the session.  *Correct if* critical sections exclude each other, no
  rotated-out token is presented, one expiry costs one refresh, stored tokens only
  advance, an ended session stays ended, an archive that was served is gone, and
  every request is answered although a holder of the lock may die.
* **Memory lock.** The lock object is dropped from a map while waiters may be queued
  on it.  *Correct if* it excludes and every waiter gets its turn.
* **Support grants.** A credential of one tenant lives in a session that talks to many;
  raise, poll, relay and release overlap, tenants decide and revoke meanwhile, and
  every call may be lost before or after it is processed.  *Correct if* a credential
  goes to its own tenant only, "released" means revoked, a live grant is not lost, and
  what was asked of a tenant is in the audit chain.
* **Directory and pool.** Per-process caches over a catalog that changes.  *Correct if*
  a client never pairs an old credential with a new address (the pool makes no such pair,
  the catalog can), follows an enrolment, and an estate that is not called stale is not
  older than its last refresh.
* **Enrolment.** Four steps over two services without a transaction, compensated by
  hand, and exceptions nobody catches.  *Correct if* no credential is recorded for the wrong
  tenant, failures leave nothing behind, an unrecorded enrolment stays alive, and a success is whole.
* **Catalog client.** Concurrent callers learn an address and a credential lazily and
  again after failures.  *Correct if* a burst costs one question and a console that
  learned something wrong recovers without a restart.
* **Audit.** Several writers in one file; writes fail or are cut short; restarts.
  *Correct if* an honest file verifies and a damaged one does not.
* **Login.** The whole login state of a browser is one cookie that every answer may replace:
  tabs overlap, answers come late, the process restarts, somebody else's callback address
  is opened.  *Correct if* a session belongs to a login begun in the same browser, a login or
  logout ends the session it is made from, no session is left that its browser's cookie does
  not name, and a browser that does one thing at a time finds its transaction again.
* **Throttle.** A full table forgets, times are rounded, and the address that counts is dug
  out of a header the caller writes.  *Correct if* no caller gets more wrong passwords
  tested in a window than the limit, locks last as long as announced, and only as many
  other failing addresses as the table holds displace one.
* **Device operations.** Several calls over two services per request, the second of which
  may fail after the first is done; a relay that repeats; a session at the gateway that
  must be closed; a curator who publishes meanwhile.  *Correct if* pins follow
  registrations, a tool runs once, sessions are closed, what is answered is recorded, and
  a device without a recorded pin leaves a trace.
* **Bootstrap.** The file with the secrets is cut and then written, and every start may take
  others from the environment.  *Correct if* a console never serves with a secret it cannot
  find again, and serves again with those it once served with.
* **Web app.** Timers that outlive what they poll for, answers that arrive after the view
  has changed, previews that must be the ones confirmed.  Not modelled (section 8).

## 2. Plan

| # | Module | Composes / refines | State |
|---|---|---|---|
| 1 | `SessionRelay` | refines `SessionLock` | modelled, checked (with liveness), proved |
| 2 | `SessionLock`, `MemorySessionLock` | abstract lock; memory backend | modelled, checked (with liveness), proved |
| 3 | `SupportGrant` | session writes of provider.py and relay.py | modelled, checked, proved |
| 4 | `CatalogClient` | with the enrolment resolver | modelled, checked (with liveness), proved |
| 5 | `TenantPool` | directory + pool + the end of redeem | modelled, checked, proved |
| 6 | `EnrolmentSaga` | hands over to `TenantPool` | modelled, checked, proved |
| 7 | `AuditChain` | - | modelled, checked, proved |
| 8 | `LoginThrottle`, `FirstRun`, `PasswordLogin` | `PasswordLogin` composes the two | modelled, checked, proved |
| 9 | `LoginFlow` | establishes what `SessionRelay` starts from | modelled, checked, proved |
| 10 | `DeviceOperations` | relays of `SessionRelay`, the catalog's claims | modelled, checked, proved |
| 11 | web: the support panel's poll loop over `SupportGrant` | - | open |

"Proved": every invariant and action property of the component's runs is a theorem; liveness
is not (section 6).

Open: the poll loop of the web app; as theorems, the promises of section 7 that hold in a
narrower case (`RefusedWithTheHeldPair` with one caller, `PoolFollowsRedeem` with one request at a
time); abstract specifications of the refresh (a register with
one current token) and of the audit (an append-only log).

Modules are written to be proved about: no RECURSIVE operators, constants with named
assumptions, one action per step, invariants as conjunctions of named parts.

## 3. The modules

In all of them an `await` is a step boundary and what lies between two awaits is one
action.  Requests whose answers change nothing (plain relays) are one kind of request.

### SessionRelay

One tenant session on the Redis backend.  `store` is the record under the session's key,
`lock` the request whose token the lock key holds, `cached` each request's copy
(`request.state._bff_session`), `current` what the refresh re-read under the lock.  The
provider is `idpRefresh`, `issued`, `exchanged`; tokens are numbered as they are issued,
`validFrom` is the boundary of those that have expired.

A request is `Load`, then by its kind: a *relay* or *me* calls the gateway (`Called`), on a
401 takes the lock (`Acquire`), re-reads (`ReadCurrent`), exchanges (`Exchanged`,
`AccessMissing`, `ExchangeRaises`: the answer may be lost after the provider rotated),
stores (`StoreRefreshed`), releases in two commands (`CompareToken`, `DeleteLock`) and
retries (`Retried`); an *export* stages an archive and a *download* claims it, each
persisting its whole copy under the lock (`PersistSet`); *logout*, and *me* after a refusal,
`Destroy` without the lock.  `AccessExpires`, `SessionExpires`, `Crash` and `LockLapses` are
time and failures.  `LockLapse` chooses what the TTL may do: never run out, run out under a
dead holder, or at any time.

### SessionLock, MemorySessionLock

`SessionLock` is what `SessionStore.lock` promises.  `MemorySessionLock` is the
memory backend: the map entry, `asyncio.Lock` with its queue and the moment between a
release and the woken waiter, and `Delete`/`_prune`, which drop an unlocked entry.

### SupportGrant

One provider session and its requests in flight (slots, used again).  `held` is
`support_grant` in the stored session, `cached` the request's copy, `gateway` the client the
request resolved; `ask` is what the tenants' gateways know.  `Start` is the scope check and
the load, `Resolve` the pool, then `Raise`/`Audit`, `Poll`, `Release`, `Relay`; `Persist`
writes the copy back (the lock around it holds one write, so it is one step).  Tenants
`Decide`, `Revoke`, and are withdrawn (`Withdraw`).

### CatalogClient

Callers of `request`: `Start` sends or goes to a cold `_resolve`; `Fail` and `Refuse` go to a
forced one; under the asyncio lock (`lock`) the gateway is asked (`AskGateway`) and answers
(`Learn`, `LearnNothing`), or need not be (`SkipResolve`).  Enrolments are numbered pairs of
address and credential; `valid` is what the catalog accepts.  At an address nothing may
answer (`Unreachable`), or something that is not the catalog may, with a 401 or anything else
(`Foreign`).  The cooldown is a flag that `CooldownEnds` clears.

### TenantPool

One tenant on several replicas.  `row` is the catalog's listing (an epoch per change, the
address by the number of the POST that named it) and `key` the credential recorded with it;
`listed`/`stale` are a replica's directory, `client` its pool.  `Get` - `AnswerCredential` -
`Build`; `List` - `AnswerList` - `Refreshed`, `RefreshFails` or, for an answer that raises outside
the `try`, `RefreshRaises`.  A redemption is `Redeem` (the POST), `Record` (the PUT, some awaits
later; or `Abandon`), `Invalidate` and a refresh, so that redemptions cross.  `Withdraw`,
`Restart`.  `beside`, `asOf` and `recorded` are history: the address each credential was
recorded beside, when the last finished refresh was sent, what was last redeemed at the
replica.

### EnrolmentSaga

Attempts run `Enrol`, `Redeem`, `Verify`, `Record`; a failure goes to `Withdraw`; an exception
the handler does not catch ends one as `raised` - a 201 of the catalog without a credential
(`enrolment.py:94`), a gateway address that is no URL (179), an answer that is no JSON object
(199) - and `Crash` stops one anywhere.  An attempt's credentials carry its name.  `NamedTenant` is the id the
operator typed and `GatewayOf` the tenant whose gateway the URL reaches, so a typo is a
difference of the two.  Calls to the gateway may always be lost, before or after they are
processed; which of the catalog's may is `Lossy`.  `adrift` is history: the attempts whose
enrolment's answer or whose withdrawal was lost, until their tenant is withdrawn.

### AuditChain

`log` is what a reader finds in the file, `tail` how the file ends, `chain` each running
writer's next number and digest, `missing` (history) the accepted records nobody can read.
`Record` advances the chain and writes, is refused, or is cut short; `CrashWriting`, `Stop`,
`Start` (which seeds from the tail).  A digest is what it was computed from: the hash is
taken to be injective.  `Verifies` is `verify_chain`.

### LoginThrottle, FirstRun, PasswordLogin

`LoginThrottle` is `throttle.py` and the login handler around it, which does not await
between asking and recording, so a login is one step.  `fails` and `order` are the table;
`ClientIp` is the walk along the header, and `CountedUnder(caller)` every address it can
come to for a caller that writes what it likes into the header and comes over any proxies
of ours.  The proxies append to one header line: of several, `headers.get` would read the
first (`throttle.py:146`).  The clock ticks `Second` times a second, so that the rounding of `Retry-After`
matters.  `guesses` is history: the last wrong passwords a caller had tested since its
address was last cleared or displaced.

`FirstRun` is `bootstrap.py` up to the start of `create_app`: `Boot` (load, resolve, generate),
`Truncate`, `Write`, `Announce`, `Start`; `BootWithoutState` and `SaveFails` are its
`OSError`s, `Stop` a kill between any two.  A secret is a number, new ones are counted up.
What the environment gives is chosen anew at each start.  With `ShortWrites`, `os.write` may
write a part and raise nothing, which nobody looks at (`bootstrap.py:143`).  `seen` is history: what was served
with since the file was last cut, deleted or could not be read.

`PasswordLogin` composes them: logins happen while the process is up, against the password
its start settled on, and `Die` takes the table along.

### LoginFlow

Browsers with several requests under way (slots, used again).  `jar` is a browser's cookie -
the session id and the transaction, whose state, nonce and verifier are drawn together and
stand for one number.  A request carries the cookie it was sent with; what its handler
leaves there replaces the browser's when the answer is delivered (`Deliver`).  `BeginLogin` -
`Redirect`, `Callback` - `Exchange` - `Drop` - `Mint`, `PasswordLogin`, `Poll` - `Polled`, `Logout` -
`Destroy` are the handlers, split at their awaits; `Lose` is an exception nobody catches, a
killed handler or a lost answer, `Restart` and `Expire` the store's.  A callback may carry any
state begun so far and any code issued so far, in any browser.  Discovery is a call that may
fail (`NotDiscovered`, `NoTokens`); its memo is left out: a document that has passed the check
of its issuer is the same whoever fetched it.  `calm` and `waiting` are history:
the browsers that never had two requests under way and lost no answer, and the login such a
browser was last sent off to.

### DeviceOperations

Requests that claim, accept an upgrade, register, delete or call a tool, call by call:
`ReadAssignments`, `ReadVersions`, `Pin`, `Trace`, `Repin` at the catalog; at the gateway a call
is `Answered`, `Unauthorized` (which the relay repeats once) or `Broken`, served or not: an
error status may hide that the gateway acted, except a 401, which the relay takes for its word
that it did not; what comes next is `AfterAnswer` or `AfterException`, which for a tool call is the closing of the MCP
session.  `Audit` is `_audited`, before the answer.  `Publish`, `Reassign`, `TokenExpires` and
`Die` are the world.  `effect`, `ran`, `owes`, `parted`, `pinAnswered` are history; `effect` has the changes that were
made and not denied.

## 4. The runs

Bounds are the constants of the `.cfg` files; no constraint cuts a state off anywhere else.

| Run | Instance | States | Shows |
|---|---|---|---|
| `session_race` | 3 requests (relay, me, logout), 3 access tokens | 117 k | TypeOK, MutualExclusion, NoSpentTokenPresented, RefreshOncePerExpiry, RetryUsesNewerToken |
| `session_crash` | 2 requests of every kind, an archive perhaps staged before, replicas crash | 145 k | the lock implements `SessionLock`, every request ends, a served archive never comes back |
| `session_logout` | 2 requests (relay, me, logout) | - | *violated:* EndedStaysEnded |
| `memlock_drop` | 3 tasks, 3 lock objects, deletions | 0.6 k | ExclusiveUnlessDropped, EveryWaiterEnters |
| `grant_two` | 2 slots, 3 asks (one above the role) at 2 tenants | 1.7 M | CredentialGoesHome, ReleasedIsRevoked (gateways that answer a revoke truthfully), AskedIsTraced |
| `catalog_two` | 2 callers, 4 enrolments, at the second's address nothing answers, at the third's something else | 565 k | OneColdCall, ColdCallWhenCold, Recovers |
| `pool_two` | 2 slots, 3 changes at the catalog, restarts | 6.3 M | CredentialFollowsCatalog, StaleIsHonest |
| `enrol_serial` | 4 attempts one after another, a typo among them, exceptions, any catalog call lost | 466 k | NoMisdelivery, FailuresCompensate, IncompleteIsAlive, SuccessIsWhole |
| `audit_faults` | 2 writers, 2 contents, 3 records each, every fault | 3.9 M | TypeOK, HonestLogVerifies, LossShows, DamageShows |
| `password_login` | 3 addresses, one of them a proxy; 2 failures in 1 s of 2 ticks, a table of 2; 2 secrets, 2 starts | 1.1 M | GuessesBounded, RetryAfterHonest, LocksHold, RunsOnStoredSecrets, SecretsSurvive |
| `login_flow` | 2 browsers, 2 requests under way, 2 logins, 2 sessions | 3.1 M | SessionIsOwnLogin, SessionIsInCookie, OneSessionPerBrowser, TransactionKept |
| `device_ops` | 3 requests of any kind, 1 hostname, 2 versions | 2.1 M | PinMatchesDevice, ClaimLeavesTrace, ToolRunsOnce, SessionsAreTornDown, AnswersAreRecorded |

Types: `session_race` and `audit_faults` list `TypeOK`; `PasswordLogin`, `SupportGrant`, `TenantPool`,
`EnrolmentSaga`, `MemorySessionLock` and `CatalogClient` conjoin their type invariants to
properties of their runs; those of `LoginFlow` and `DeviceOperations` are theorems (section 6).

Why the bounds are enough.  `session_race`: a race needs one request in the exchange, one
waiting and one arriving late, and a second expiry to tell a newer token from the newest.
`session_crash`: a dead holder and a survivor; the archive race needs a claim and a refresh
that read before it, which two requests and an archive staged earlier give.  `memlock_drop`:
a holder, a woken waiter and a newcomer.  `grant_two`: two requests in flight and two
tenants are the least at which a credential can go astray; slots are used again, so the
sequences are unbounded.  `catalog_two`: two kinds of wrong address and dead credentials between two
good enrolments.  `pool_two`: an entry, a credential and a refresh of three different
epochs, and two redemptions that cross.  `enrol_serial`: an enrolment, a typo and
re-enrolments of both tenants, whose compensations fail or succeed.
`audit_faults`: a record between two others of its writer, interleaved with another writer's.
`password_login`: a locked address, one that fails beside it and one that displaces it are
three addresses against a table of two; a forged entry in front of an observed one and a
proxy behind; a clock that passes the window with a tick to spare; a start that stores and
one that finds what is stored, from a directory that is empty or an older version's.
`login_flow`: a login-CSRF needs two browsers with a login each, an overlap two requests, and
a second session shows whether a login ends the first; requests are used again, so the
sequences of polls, losses and restarts are unbounded.  `device_ops`: two claims that compete
for a hostname and a third request - an upgrade, a deletion, a tool call - beside them,
across one publication.

Requests end and are not replaced in the runs of `SessionRelay`, `EnrolmentSaga` and
`DeviceOperations`, the clock and the starts of `password_login` run out, and `login_flow` can
use up its logins and sessions: these do not check for deadlock.

## 5. Fairness

* `SessionRelay` (`session_crash`): weak fairness of each request's own steps - the event
  loop runs what is ready and every call has an httpx timeout, after which the exception
  path of the same step is taken - and of `LockLapses`, because Redis expires keys.  Nothing
  is assumed of the provider, the gateway, token lifetimes or crashes.  Acquiring is weakly
  fair: two requests cannot starve a third for ever, since each takes the lock at most once.
* `MemorySessionLock`: weak fairness of `Resume` and `Unlock`: the loop runs a woken waiter,
  and what a handler awaits inside has a timeout.  `Lock` is not fair: nobody has to come.
* `CatalogClient`: callers keep coming (the console polls it); the asyncio lock is FIFO, which
  gives strong fairness of `AskGateway`; a gateway asked again and again answers at some time
  (strong fairness of `Learn`); the cooldown passes.

The other modules state no fairness, and no liveness is claimed for them: an operator need
not come back from the identity provider, a tenant need not decide, a curator need not
publish.

## 6. What is proved

| Theorem | For every | Statement |
|---|---|---|
| `SessionRelayProofs!TypeCorrect` | set of requests, kinds, bound | `TypeOK` |
| `SessionRelayProofs!LockIsExclusive` | requests and kinds, `LockLapse # "anytime"` | `MutualExclusion`, holders that crash included |
| `SessionRelayProofs!LockImplements` | the same | the lock implements `SessionLock` |
| `SessionRelayProofs!RefreshSafe` | requests of the kinds relay, me, logout, no lapse | `NoSpentTokenPresented`, `StoredTokenUnspent` |
| `SessionRelayProofs!RefreshOnce` | the same | `RefreshOncePerExpiry` |
| `SessionRelayProofs!RefreshAdvances` | the same | `RetryUsesNewerToken`, `StoreNeverRegresses` |
| `SessionRelayProofs!ServedIsGone` | requests and kinds, archives staged earlier, `LockLapse # "anytime"` | `ServedArchiveIsGone` |
| `SessionRelayProofs!MemoryLockIsExclusive` | tasks, lock objects, deletions or none | `ExclusiveUnlessDropped` |
| `SessionRelayProofs!MemoryLockImplements` | tasks, lock objects, `MayDelete = FALSE` | the memory lock implements `SessionLock` too |
| `SupportGrantProofs!CredentialsGoHome` | slots, asks, tenants | `CredentialGoesHome` |
| `SupportGrantProofs!AsksAreTraced` | the same | `AskedIsTraced` |
| `SupportGrantProofs!ReleasesRevoke` | the same, `RefusedRevokes = FALSE` | `ReleasedIsRevoked` |
| `TenantPoolProofs!PoolFollowsCatalog` | replicas, slots, changes | `CredentialFollowsCatalog` |
| `TenantPoolProofs!DirectoryIsHonest` | the same | `StaleIsHonest` |
| `EnrolmentSagaProofs!NeverMisdelivered` | tenants, attempts at a time, lost calls | `NoMisdelivery` |
| `EnrolmentSagaProofs!FailuresLeaveNothing` | the same | `FailuresCompensate` |
| `EnrolmentSagaProofs!SuccessesAreWhole` | finite set of attempts, one at a time | `SuccessIsWhole` |
| `EnrolmentSagaProofs!IncompletesAreAlive` | the same | `IncompleteIsAlive` |
| `EnrolmentSagaProofs!AskedOncePerCooldown` | callers, enrolments, with or without resolver and environment | `OneColdCall` |
| `EnrolmentSagaProofs!AskedWhileCold` | the same | `ColdCallWhenCold` |
| `AuditChainProofs!TypeCorrect`, `HonestVerifies` | writers, contents, faults, length | `TypeOK`, `HonestLogVerifies` |
| `AuditChainProofs!DamageIsShown` | the same | `DamageShows` |
| `AuditChainProofs!LossIsShown` | the same | `LossShows` |
| `PasswordLoginProofs!GuessesAreBounded` | addresses, proxies, header lengths, limits | `GuessesBounded` |
| `PasswordLoginProofs!LocksAreKept` | the same, and sizes of the table | `LocksHold` |
| `PasswordLoginProofs!RetryAfterIsHonest` | the same, and ticks in a second | `RetryAfterHonest` |
| `PasswordLoginProofs!ServesStoredSecrets` | finite set of secrets, any number of starts, `ShortWrites = FALSE` | `RunsOnStoredSecrets` |
| `PasswordLoginProofs!SecretsAreKept` | the same | `SecretsSurvive` |
| `LoginFlowProofs!TypeCorrect` | browsers, requests, logins, sessions | `TypeOK` |
| `LoginFlowProofs!NoLoginForgery` | the same | `SessionIsOwnLogin` |
| `LoginFlowProofs!NoSessionIsLeft` | the same | `SessionIsInCookie` |
| `LoginFlowProofs!OneSession` | the same | `OneSessionPerBrowser` |
| `LoginFlowProofs!TransactionIsKept` | the same | `TransactionKept` |
| `DeviceOperationsProofs!TypeCorrect` | requests, hostnames, versions | `TypeOK` |
| `DeviceOperationsProofs!PinsMatch` | the same | `PinMatchesDevice` |
| `DeviceOperationsProofs!ClaimsLeaveTrace` | the same | `ClaimLeavesTrace` |
| `DeviceOperationsProofs!ToolsRunOnce` | the same | `ToolRunsOnce` |
| `DeviceOperationsProofs!SessionsEnd` | the same | `SessionsAreTornDown` |
| `DeviceOperationsProofs!AnswersRecorded` | the same | `AnswersAreRecorded` |

The assumptions are those the modules name (`ASSUME`): numbers are numbers, model values that
stand for nothing are not among the things they stand apart from, an archive staged before
the behaviour begins is nobody's who stages one in it.  The catalog client is proved about in
the module of the enrolment's proofs, the memory lock in that of the session's, because a
redemption is what the client learns from, and both locks implement one specification.

*Session.*  `TypeInv` is `TypeOK` with "a cached or current record that is live carries issued
tokens".  The lock: `LockOwner` - who is in a critical section owns the key - is inductive
because only its owner deletes the key and it lapses under the dead only; exclusion follows.
The refresh: `RefreshInv` adds what makes `NoSpentTokenPresented` inductive - nobody persists a
stale copy (`NoPersist`), caches are never newer than the store, who waits was refused, what
the holder read is still what is stored, what it is about to write is newer than everything.
It is exactly `NoPersist` that an export breaks, and exclusion that a lapsing lock breaks (both in
section 7).  The archives: in `ArchiveInv` what a download has dropped is neither stored nor in the
copy a refresh will store (`DroppedGone`); whoever persists writes its own archive or none
(`Persists`), and nobody else has seen the one it is about to stage (`FreshUnseen`).

*Memory lock.*  `MemoryInv`: one task at most is inside an object, and then it is locked
(`Holders`); who waits for an object is in its queue, once, and nobody else is (`Queues`); and
until an entry is dropped under its waiters all tasks use the one in the map (`OneObject`).

*Enrolment.*  `MisdeliveryInv`: an attempt that is about to record has been verified.
`CompensationInv`: of an attempt that reported a failure, or has not begun, nothing is at the
catalog unless it is adrift (`NothingLeft`), because a withdrawal takes back what any attempt
that named the tenant got there (`WithdrawsAll`).  What the excuse stands for is what the code
lacks: a withdrawal that is lost is not repeated, an enrolment whose answer is lost is not
withdrawn; and what ends in an uncaught exception reports nothing (section 7).  `SerialInv`: alone, an
attempt that has come to a step finds at the catalog and the gateway what its earlier steps
left there (`Progress`); a second attempt for the same tenant would break it, whence
`MaxActive = 1`.

*Catalog client.*  `ClientInv`: only the owner of the lock asks (`AsksUnderLock`), whoever has sent a
call was not cold and the client is not since (`WarmIsConfigured`), and the cooldown covers the
one cold call there was (`OneCallPerCooldown`); the callers that waited for the lock look again
(`ColdCallWhenCold` is one of its conjuncts).

*Audit.*  `ChainInv`: numbers of a writer increase along the file, each record has its neighbour,
a running chain continues the last readable record unless something is missing, and then the
file verifies.  `DamageShows` needs only that a verified file's neighbours link: an alteration
changes the digest, an exchange breaks the order of the numbers, a hole leaves two records that
are neighbours and do not link.  `LossShows`: a number that was given to a lost record is spent
while its process runs - no line has it, and the chain has passed it (`NumberIsSpent`) - and a
file that verifies skips no number between two of one writer (`NoNumberIsSkipped`, the least
position whose number is too high being impossible); so a file with records on both sides of
the lost one does not verify.

*Support grants.*  `GrantInv`: whoever holds a grant - the session or a request's copy - holds one
its own tenant approved (`GrantsAreGenuine`), and a call goes to the gateway the request
addressed (`CallsAddressed`); a relay takes tenant and bearer from one grant, so the credential
goes home.  For the audit: a raise that has not been sent is for an ask no tenant knows, and no
two are for the same one, so what a tenant knows has a request that records it or a record.

*Pool.*  `PoolInv`: nothing that was read is newer than the catalog's row (`NothingNewer`); a
credential was recorded beside an address (`KeyIsBeside`), and one that is fetched after its
entry was read, beside that entry's or a later one (`FetchedLater`); an answer to a refresh is
not older than its sending (`ListedLater`).  It says nothing of the catalog's own pairs, which
crossing redemptions break (section 7).

*Password login.*  Four arguments.  `CountedUnderItself`: the walk stops at the address our first
proxy observed, because everything to the right of it is ours and it is not, whatever stands to
the left.  `ThrottleInv`: counting from the end, each of a caller's guesses is either older than
the window or faced by an entry of the table that is at least as late (`Covered`); pruning takes
old entries only, so a caller that is not locked has its MaxFailures-th last guess outside the
window.  For the locks and the announced times, `TableInv`: the table's order lists the addresses
that have failures, each once, by their last failure, so what a full table forgets is the
address that failed longest ago, and those behind it failed later (`Displaced`).  `BootInv`:
what is about to be served with is in the file, or in what is about to be written (`Stored`,
`ToStore`), and so is all that was served with (`SeenIsStored`).

*Login flow.*  `FlowInv`: a transaction, wherever it is, belongs to the browser it is in; and a
calm browser has at most one request under way, whose copy of the cookie is the browser's own
until its answer arrives, so the live sessions it got are the one in its cookie
(`CalmBrowser`), whether or not the answer that ends one has come.

*Devices.*  `DeviceInv`: where a request is tells its kind (`Placed`), what it has done (`Done`) and
what is recorded of it (`Recorded`); a device whose claim was not denied and is not pinned yet
has the version that will be (`PinPending`), which makes `PinMatchesDevice` inductive.

*Only model-checked.*  Liveness - `EveryRequestEnds` (`session_crash`), `EveryWaiterEnters`
(`memlock_drop`), `Recovers` (`catalog_two`) - because ENABLED and fairness are beyond the prover.
Every other property of a passing run is a theorem.

## 7. Promises the code does not keep

One run keeps a counterexample, `session_logout`; `findings` in `PROJECT.json` quotes the text.  The
modules state more such promises, at their ends or with a constant that lets the bad case
happen; with the constants below TLC refutes each, most in seconds.

| Module: property | Constants | What happens |
|---|---|---|
| SessionRelay: NoSpentTokenPresented | `LockLapse = "anytime"`, 2 relays, `MaxIssued = 3` | the lock's 10 s TTL (`sessions.py:106`) runs out under a slow exchange; the second holder presents the token just rotated out.  `sessions.py:145-148` expects "never ... a correctness loss" |
| SessionRelay: NoSpentTokenPresented | `Kinds = {"relay", "export"}`, 3 requests, no lapse, `MaxIssued = 3` | an export stores its copy of the session, loaded before a refresh, over the refreshed one (`security.py:215`); the next refresh presents the rotated-out token.  The repository's README, 266-268, says "safe with refresh-token rotation" |
| SessionRelay: ServedOnce | 2 downloads, an earlier archive | both loaded the session before either claimed the archive; both are served (`api.py:656-677`, "Single use") |
| MemorySessionLock: OneInside | `MayDelete = TRUE` | the entry is dropped between a release and the woken waiter; the next request makes a second lock (`sessions.py:96`).  With `MayDelete = FALSE` the module implements `SessionLock` |
| SupportGrant: LiveGrantIsKept | two tenants | a release or a 401 of the old grant writes its copy over a grant a poll has just stored (`relay.py:80`, `provider.py:290`) |
| SupportGrant: ReleasedIsRevoked | `RefusedRevokes = TRUE` | the status of the DELETE is not looked at (`provider.py:288`) |
| SupportGrant: EveryRaiseIsTraced | any | a raise that fails in resolving the tenant (404, 503) leaves no record (`provider.py:181`, comment at 192-196) |
| CatalogClient: RefusedWithTheHeldPair | 2 callers | the credential to compare with is read after the 401 (`catalog_client.py:241`): if another caller has adopted a new one meanwhile, the old 401 is reported.  With one caller it holds |
| CatalogClient: RecoversFromAnyAddress | 1 caller, 4 enrolments | what answers at a wrong address with anything but a 401 is believed, so the client stays there (`catalog_client.py:236`, against 216-218) |
| CatalogClient: ExplicitConfigurationWins | `FromEnv = TRUE` | one lost call makes a console configured by its environment adopt the enrolment (`catalog_client.py:227`, against 102-104) |
| TenantPool: CredentialNotOlderThanAddress | 1 replica, 2 slots, `MaxEpoch = 2` | POST, POST, then the PUT of the first redemption: the catalog has the newer address with the older credential, and the next get builds that client (`enrolment.py:160` and 225, against `gateway_pool.py:97-99`).  With one request at a time it holds |
| TenantPool: PoolFollowsRedeem | 1 replica, 2 slots, `MaxEpoch = 2` | a get that read its entry before the redemption builds its client after the invalidation and caches the old credential (`gateway_pool.py:79`, against 96-99) |
| TenantPool: PoolFollowsEveryRedeem | 2 replicas | `invalidate` reaches one process; the others keep the old credential.  (With one request at a time on one replica PoolFollowsRedeem holds) |
| TenantPool: EstateAdvances | 2 slots | answers of two refreshes arrive in the other order (`tenant_directory.py:118`) |
| TenantPool: OpenClientsAreInThePool | 1 slot | a client dropped by `invalidate` is not in the map `aclose` walks (`gateway_pool.py:101-104`) |
| EnrolmentSaga: EveryFailureCompensates | 3 attempts, `Lossy = {}` | an exception the handler does not catch ends it after step 1 with a 500 and no withdrawal: a 201 without `credential`, an address that is no URL, an answer that is no JSON object (`enrolment.py:94`, 179, 199, against "Failures compensate").  With `Lossy` a withdrawal that fails, about which nothing says so (107), or an enrolment whose answer is lost (161) does the same; these are what `adrift` excuses |
| EnrolmentSaga: EnrolledStaysListed | 3 attempts | a failed re-enrolment withdraws the tenant an earlier attempt enrolled (`enrolment.py:190`) |
| EnrolmentSaga: MismatchEnrolsNothing | a typo | the other gateway has taken the invitation before the mismatch is noticed (`enrolment.py:203`, "Nothing was enrolled") |
| AuditChain: LogVerifies | 2 writers, `Faults = {"crash"}`, `MaxSeq = 3` | the chain has advanced when the process dies before the line is whole, and the next start seeds from what is left (`audit.py:286`, against 211-212) |
| AuditChain: AnyDeletionShows | 1 writer, 2 records | the last or first records of a chain can go unnoticed (`audit.py:384`, against 11-12) |
| LoginFlow: TransactionUsedOnce | 1 browser, 2 requests, 1 login | two callbacks sent before either answer came go on with the same transaction: popping it changes the answer's cookie, not the browser's (`auth.py:236`, "single-use: the callback pops them").  The provider honours the code once |
| DeviceOperations: ClaimPinnedOrTraced | 1 request | the catalog answers the pin with an error status, which raises nothing and is not looked at: no pin and no `device.claim.pin_unrecorded` (`api.py:307-311`, against 195-199) |
| DeviceOperations: EffectsAreRecorded | 1 request | a call that was served and whose answer was lost ends without a record (`api.py:61`, against 53) |
| FirstRun: FileIsNotLeftCut | 1 address, `Earlier = {cookie}`, 2 starts | the file is truncated in place: a full disk or a kill loses the secrets an earlier version stored (`bootstrap.py:141`, against 18-19) |
| FirstRun: PasswordIsAnnounced | the same | a start killed between saving and announcing leaves a password only the file knows; the next start reuses it silently (`bootstrap.py:114-117`) |
| FirstRun: RunsOnStoredSecrets, SecretsSurvive | `ShortWrites = TRUE` | `os.write` writes a part and says so only in its count: the console serves with secrets no file holds, and the next start makes others (`bootstrap.py:143`) |

So where a passing run restricts the environment (`enrol_serial` has one attempt at a time,
`grant_two` truthful gateways, `session_crash` a TTL that outlives living holders,
`password_login` whole writes), this table says what the restriction hides; and where a history
variable excuses a case (`parted`, `calm`, `seen`, `pinAnswered`, `adrift`, `beside`, `effect`),
or an address of something else does (`Recovers`), the property's comment names it.

More of the kind, seen in the models or on the way and stated by no property: a slow answer to
a poll that rewrites the cookie puts an older transaction over a newer login's, and the 401 of
`/me` clears one that is under way (both disturb a calm browser); an exchange that ends in a
transport error leaves the transaction in the cookie; deleting a device leaves its pin at the
catalog; an audit record that was refused is forgotten by a restart, which gives its number to
another; a gateway that registers a claimed device and answers an error leaves it without
a pin and with a record that it failed; a catalog that answers `{"tenants": null}` makes the
refresh raise outside its `try`, so a directory that shows its last known estate is not
called stale (`tenant_directory.py:118`); and `"dry_run": null` reaches `/admin/restore/apply` (`api.py:699`, where 690-691 say that
a body that does not parse resolves to a preview).

## 8. What is not modelled

`PROJECT.json` lists every part with its status.  On purpose outside the models:

* the plain relays, the monitoring proxy, the curator's routes and the tenant's support inbox:
  one call, at most one record, no state (what the inbox decides is `Decide` and `Revoke` of
  `SupportGrant`, from the gateway's side); restore and its preview are two such calls, bound to
  each other by the gateway's plan token;
* update, fingerprint approval, dead-letter replay and drain, which are handlers of delete's
  shape, and the field-by-field merge of a claim, of which the version it comes from is kept;
* the provider's login flow, the same handlers as the tenant's under other names, and the map of
  its groups to scopes, a lookup;
* that the identity provider takes a code once is modelled as its behaviour, not as the console's;
* cryptography: the digest is injective, the cookie cannot be forged, state and nonce cannot be
  guessed, generated secrets differ; pseudonyms and content keys of the audit;
* tenants only the registry file names, the parsing of that file and of the configuration,
  and `audit_path`, a default;
* the web app: view state, timers and forms; the poll loop of the support panel is the part of
  it worth a module, over `SupportGrant`, whose slots poll at any time;
* wording, headers, payloads, styling, build scripts and manifests.
