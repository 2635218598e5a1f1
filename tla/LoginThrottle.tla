--------------------------- MODULE LoginThrottle ---------------------------
(***************************************************************************)
(* The throttle of the break-glass password login (throttle.py and the     *)
(* login handler of routers/auth.py): a table of recent failures by client *)
(* address, kept in one process, and the walk along X-Forwarded-For that   *)
(* decides which address a request is counted under.                       *)
(*                                                                         *)
(* The handler does not await between retry_after and record_failure or    *)
(* record_success, so a login is one step.  The clock ticks Second times   *)
(* a second: Retry-After is a whole number of seconds, ages are not.       *)
(***************************************************************************)
EXTENDS Integers, Sequences, FiniteSets

CONSTANTS
    Addresses,    \* the addresses of callers and proxies
    Trusted,      \* those in TRUSTED_PROXY_CIDRS
    Junk,         \* an entry of the header that is no address
    MaxFailures,
    Window,       \* in seconds
    MaxTracked,
    Second,       \* ticks of the clock in a second
    MaxForged,    \* bound: entries a caller puts into the header itself
    MaxProxies,   \* bound: proxies between a caller and the BFF
    MaxTime       \* bound on the clock

ASSUME AddressesAssumption == Trusted \subseteq Addresses /\ Junk \notin Addresses
ASSUME LimitsAssumption ==
    /\ MaxFailures \in Nat \ {0}
    /\ Window \in Nat \ {0}
    /\ Second \in Nat \ {0}
    /\ MaxTracked \in Nat \ {0}
    /\ MaxForged \in Nat /\ MaxProxies \in Nat /\ MaxTime \in Nat

VARIABLES
    now,      \* time.monotonic()
    fails,    \* the times of an address's recent failures, oldest first
    order,    \* the tracked addresses, the one that failed longest ago first
    guesses   \* history: the last failures of a caller that is not a proxy,
              \* since its address was last cleared

throttleVars == <<now, fails, order, guesses>>

Callers == Addresses \ Trusted
Entries == Addresses \cup {Junk}
Lists(S, n) == UNION {[1 .. k -> S] : k \in 0 .. n}

ThrottleInit ==
    /\ now = 0
    /\ fails = [a \in Addresses |-> <<>>]
    /\ order = <<>>
    /\ guesses = [a \in Callers |-> <<>>]

-----------------------------------------------------------------------------
(* Which address a request is counted under.                               *)

\* The rightmost hop that is not infrastructure we own; the peer if there is
\* none or it is not an address.
LeftmostMutant(peer, header) == IF header = <<>> \/ Head(header) = Junk THEN peer ELSE Head(header)
ClientIp(peer, header) ==
    LET chain == Append(header, peer)
        Untrusted == {i \in DOMAIN chain : chain[i] \notin Trusted}
        last == CHOOSE i \in Untrusted : \A j \in Untrusted : j <= i
    IN  IF Untrusted = {} \/ chain[last] = Junk THEN peer ELSE chain[last]

\* What the caller's request looks like when it arrives over these proxies:
\* each one appends the address it was called from, to the one header line
\* that client_ip reads (of several it would read the first).
Peer(caller, proxies) ==
    IF proxies = <<>> THEN caller ELSE proxies[Len(proxies)]
Header(caller, forged, proxies) ==
    IF proxies = <<>> THEN forged
    ELSE Append(forged, caller) \o SubSeq(proxies, 1, Len(proxies) - 1)

\* The addresses a caller can be counted under.
CountedUnder(caller) ==
    {ClientIp(Peer(caller, proxies), Header(caller, forged, proxies)) :
        forged \in Lists(Entries, MaxForged), proxies \in Lists(Trusted, MaxProxies)}

-----------------------------------------------------------------------------
(* The table.                                                              *)

\* _prune: what is left of the failures at a time.
FreshAt(times, t) ==
    LET Kept == {i \in DOMAIN times : times[i] >= t - Window * Second}
        first == CHOOSE i \in Kept : \A j \in Kept : i <= j
    IN  IF Kept = {} THEN <<>> ELSE SubSeq(times, first, Len(times))

Fresh(ip) == FreshAt(fails[ip], now)
Locked(ip) == Len(Fresh(ip)) >= MaxFailures

\* The Retry-After of a locked address, in seconds.
TruncatedMutant(ip) == (Window * Second - (now - Fresh(ip)[1])) \div Second
RetryAfter(ip) == (Window * Second - (now - Fresh(ip)[1])) \div Second + 1

Tracked == {a \in Addresses : fails[a] # <<>>}
\* The keys of the OrderedDict without one of them.
Without(addresses, ip) ==
    LET i == CHOOSE i \in DOMAIN addresses : addresses[i] = ip
    IN  IF \E j \in DOMAIN addresses : addresses[j] = ip
        THEN [k \in 1 .. Len(addresses) - 1 |-> addresses[IF k < i THEN k ELSE k + 1]]
        ELSE addresses

Newest(times, n) ==
    IF Len(times) <= n THEN times ELSE SubSeq(times, Len(times) - n + 1, Len(times))

\* Bookkeeping of the history: a failure of a caller, a cleared address.
Guessed(cleared, caller) ==
    guesses' = [a \in Callers |->
                   LET earlier == IF a \in cleared THEN <<>> ELSE guesses[a]
                   IN  IF a = caller THEN Newest(Append(earlier, now), MaxFailures + 1)
                       ELSE earlier]

\* 429: nothing but the pruning.
Refuse(ip) ==
    /\ fails' = [fails EXCEPT ![ip] = Fresh(ip)]
    /\ UNCHANGED <<order, guesses>>

\* The addresses a new entry displaces from a full table.
Evicted(ip) ==
    IF Fresh(ip) = <<>> /\ Cardinality(Tracked \ {ip}) >= MaxTracked
    THEN {Head(Without(order, ip))}
    ELSE {}

\* The other addresses that stay.
Others(ip) ==
    IF Evicted(ip) = {} THEN Without(order, ip) ELSE Tail(Without(order, ip))

UntouchedMutant(ip) ==
    order' = IF Fresh(ip) = <<>> THEN Append(Others(ip), ip) ELSE order
Touch(ip) == order' = Append(Others(ip), ip)

\* 401: record_failure.
RecordFailure(ip, caller) ==
    /\ fails' = [a \in Addresses |->
                    CASE a = ip -> Append(Fresh(ip), now)
                      [] a \in Evicted(ip) \ {ip} -> <<>>
                      [] OTHER -> fails[a]]
    /\ Touch(ip)
    /\ Guessed(Evicted(ip), caller)

\* record_success clears the address.
RecordSuccess(ip) ==
    /\ fails' = [fails EXCEPT ![ip] = <<>>]
    /\ order' = Without(order, ip)
    /\ Guessed({ip}, Junk)

\* POST /auth/login of a caller, counted under an address.
Login(ip, caller, right) ==
    /\ \/ Locked(ip) /\ Refuse(ip)
       \/ ~Locked(ip) /\ right /\ RecordSuccess(ip)
       \/ ~Locked(ip) /\ ~right /\ RecordFailure(ip, caller)
    /\ UNCHANGED now

\* Any caller, over any proxies, with any header of its own.
AnyLogin(right) ==
    \E caller \in Addresses :
        \E ip \in CountedUnder(caller) : Login(ip, caller, right)

Tick ==
    /\ now < MaxTime
    /\ now' = now + 1
    /\ UNCHANGED <<fails, order, guesses>>

ThrottleNext == Tick \/ \E right \in BOOLEAN : AnyLogin(right)

ThrottleSpec == ThrottleInit /\ [][ThrottleNext]_throttleVars

-----------------------------------------------------------------------------
(* Properties.                                                             *)

\* The table tracks exactly the addresses that have failures.
ThrottleTypeOK ==
    /\ now \in 0 .. MaxTime
    /\ fails \in [Addresses -> Seq(0 .. MaxTime)]
    /\ order \in Seq(Addresses)
    /\ guesses \in [Callers -> Seq(0 .. MaxTime)]
    /\ \A a \in Addresses : Len(fails[a]) <= MaxFailures
    /\ {order[i] : i \in DOMAIN order} = Tracked
    /\ Len(order) = Cardinality(Tracked)
    /\ Len(order) <= MaxTracked

\* A caller that is not one of our proxies gets at most MaxFailures wrong
\* passwords tested in any window, whatever it writes into the header and
\* whichever way it comes, unless its address was cleared by a right
\* password or displaced from the full table (throttle.py, 6-10, 123-131).
GuessesBounded ==
    \A a \in Callers :
        Len(guesses[a]) > MaxFailures =>
            guesses[a][Len(guesses[a])] - guesses[a][1] > Window * Second

\* Who waits for as long as Retry-After says is not refused again, and the
\* lock is never announced to last a second longer than it does (48-53).
RetryAfterHonest ==
    ThrottleTypeOK /\ \A ip \in Addresses :
        Locked(ip) =>
            /\ Len(FreshAt(fails[ip], now + Second * RetryAfter(ip))) < MaxFailures
            /\ Len(FreshAt(fails[ip], now + Second * (RetryAfter(ip) - 1))) >= MaxFailures

LastFailure(a) == fails[a][Len(fails[a])]

\* A lock that ends before its time is displaced from the table, and only
\* when MaxTracked other addresses have failed since (60-63).
Displaced(ip) ==
    Cardinality({a \in Addresses \ {ip} :
                    fails'[a] # <<>> /\ LastFailure(a)' >= LastFailure(ip)}) >= MaxTracked
LockKept ==
    \A ip \in Addresses : Locked(ip) /\ now' = now /\ ~Locked(ip)' => Displaced(ip)
=============================================================================
