------------------------ MODULE PasswordLoginProofs ------------------------
(***************************************************************************)
(* Proofs about PasswordLogin.  The bootstrap: for any secrets and any     *)
(* sequence of starts, failures and kills, but without a write that is     *)
(* short and silent, a console serves with stored secrets only, and with   *)
(* the ones it served with before.  The throttle: for any callers, proxies *)
(* and headers, a caller gets at most MaxFailures wrong passwords tested   *)
(* in a window; a lock lasts unless a full table of later failures         *)
(* displaces it; and Retry-After tells when it is over.                    *)
(***************************************************************************)
EXTENDS PasswordLogin, FiniteSetTheorems, SequenceTheorems, WellFoundedInduction, TLAPS

-----------------------------------------------------------------------------
(* The bootstrap.                                                          *)

\* New secrets have numbers, all different.
LEMMA NumberingExists ==
  ASSUME NEW new \in SUBSET Secrets, NEW last \in Nat
  PROVE  Numbering(new, last) \in [new -> last + 1 .. last + Cardinality(new)]
<1> DEFINE n == Cardinality(new)
           Apart(f) == \A s, t \in new : s # t => f[s] # f[t]
<1>1. n \in Nat /\ ExistsBijection(1 .. n, new)
  BY SecretsAssumption, FS_Subset, FS_CardinalityType
<1>2. PICK g \in Bijection(1 .. n, new) : TRUE
  BY <1>1 DEF ExistsBijection
<1>3. g \in [1 .. n -> new] /\ \A s \in new : \E i \in 1 .. n : g[i] = s
  BY <1>2 DEF Bijection, Injection, Surjection
<1> DEFINE at(s) == CHOOSE i \in 1 .. n : g[i] = s
           f == [s \in new |-> last + at(s)]
<1>4. \A s \in new : at(s) \in 1 .. n /\ g[at(s)] = s
  BY <1>3
<1> HIDE DEF at, n
<1>5. f \in [new -> last + 1 .. last + n]
  BY <1>1, <1>4
<1>6. Apart(f)
  BY <1>1, <1>4
<1> HIDE DEF f, Apart
<1>7. \E h \in [new -> last + 1 .. last + n] : Apart(h)
  BY <1>5, <1>6
<1> USE DEF Apart, n
<1> QED
  BY <1>7 DEF Numbering

\* What a start is going to serve with is stored, or is about to be.
Stored ==
    phase \in {"announce", "start", "up"} =>
        \A s \in Secrets : Generated(settings[s]) => file[s] = settings[s]

ToStore ==
    phase \in {"truncate", "write"} =>
        \A s \in Secrets : /\ Generated(settings[s]) => toPersist[s] = settings[s]
                           /\ seen[s] # None => toPersist[s] = seen[s]

\* What was served with is in the file whenever the file is not cut.
SeenIsStored == phase # "write" => \A s \in Secrets : seen[s] # None => file[s] = seen[s]

BootInv == BootTypeOK /\ Stored /\ ToStore /\ SeenIsStored

LEMMA NoSecrets == NoFile \in [Secrets -> Values] /\ Forgotten \in [Secrets -> Values]
  BY DEF NoFile, Forgotten, Values

LEMMA InitBootInv == BootInit => BootInv
<1> SUFFICES ASSUME BootInit PROVE BootInv
  OBVIOUS
<1>1. PICK kept \in {{}, Earlier} :
        /\ issued = Cardinality(kept)
        /\ file = [s \in Secrets |-> IF s \in kept THEN Numbering(kept, 0)[s] ELSE None]
  BY DEF BootInit
<1>2. kept \in SUBSET Secrets /\ issued \in Nat
  BY <1>1, SecretsAssumption, FS_Subset, FS_CardinalityType
<1>3. Numbering(kept, 0) \in [kept -> 1 .. issued]
  BY <1>1, <1>2, NumberingExists
<1>4. file \in [Secrets -> Values]
  BY <1>1, <1>3 DEF Values
<1>5. BootTypeOK
  BY <1>2, <1>4, NoSecrets, BoundAssumption, SecretsAssumption DEF BootInit, BootTypeOK
<1>6. Stored /\ ToStore /\ SeenIsStored
  BY DEF BootInit, Stored, ToStore, SeenIsStored
<1> QED
  BY <1>5, <1>6 DEF BootInv

\* Values are never taken back.
LEMMA ValuesGrow ==
  ASSUME issued \in Nat, issued' \in Nat, issued' >= issued
  PROVE  Values \subseteq Values'
BY DEF Values

LEMMA BootKeeps ==
  ASSUME BootInv, Boot PROVE BootInv'
<1> USE DEF BootInv
<1>1. PICK given \in SUBSET Secrets, stored \in {file, NoFile} :
        /\ settings' = Resolved(given, stored)
        /\ toPersist' = ToPersist(given, stored)
        /\ fresh' = Missing(given, stored)
        /\ issued' = issued + Cardinality(Missing(given, stored))
        /\ phase' = IF toPersist' = stored THEN "start" ELSE "truncate"
        /\ seen' = IF stored = file THEN seen ELSE Forgotten
  BY DEF Boot
<1>2. phase = "down" /\ boots < MaxBoots /\ boots' = boots + 1 /\ UNCHANGED <<file, announced>>
  BY DEF Boot
<1> DEFINE new == Missing(given, stored)
           number == Numbering(new, issued)
<1>3. new \in SUBSET Secrets /\ issued \in Nat /\ issued' \in Nat /\ issued' >= issued
  BY <1>1, SecretsAssumption, FS_Subset, FS_CardinalityType DEF Missing, BootTypeOK
<1>4. number \in [new -> issued + 1 .. issued']
  BY <1>1, <1>3, NumberingExists
<1>5. Values \subseteq Values' /\ \A s \in new : number[s] \in Values' /\ number[s] > 0
  BY <1>3, <1>4, ValuesGrow DEF Values
<1>6. \A s \in Secrets : stored[s] \in Values
  BY NoSecrets DEF BootTypeOK
<1>7. \A s \in Secrets :
         /\ s \in given => settings'[s] = Operators /\ toPersist'[s] = stored[s]
         /\ s \in new => settings'[s] = number[s] /\ toPersist'[s] = number[s]
                        /\ stored[s] = None /\ s \notin given
         /\ s \notin given /\ s \notin new =>
               settings'[s] = stored[s] /\ toPersist'[s] = stored[s] /\ stored[s] # None
  BY <1>1 DEF Resolved, ToPersist, Missing
<1>8. settings' \in [Secrets -> Values'] /\ toPersist' \in [Secrets -> Values']
  <2>1. Operators \in Values'
    BY DEF Values
  <2>2. \A s \in Secrets : settings'[s] \in Values' /\ toPersist'[s] \in Values'
    BY <1>5, <1>6, <1>7, <2>1
  <2>3. settings' = [s \in Secrets |-> settings'[s]] /\ toPersist' = [s \in Secrets |-> toPersist'[s]]
    BY <1>1 DEF Resolved, ToPersist
  <2> QED
    BY <2>2, <2>3
<1>9. BootTypeOK'
  <2>1. file' \in [Secrets -> Values'] /\ seen' \in [Secrets -> Values'] /\ announced' \in Values'
    BY <1>1, <1>2, <1>5, NoSecrets DEF BootTypeOK
  <2>2. boots' \in 0 .. MaxBoots /\ phase' \in {"truncate", "start"} /\ fresh' \subseteq Secrets
    BY <1>1, <1>2, <1>3, BoundAssumption DEF BootTypeOK
  <2> QED
    BY <1>3, <1>8, <2>1, <2>2 DEF BootTypeOK
<1> HIDE DEF number, new
<1>10. Stored'
  <2> SUFFICES ASSUME phase' = "start", NEW s \in Secrets, Generated(settings'[s])
               PROVE  file[s] = settings'[s]
    BY <1>1, <1>2 DEF Stored
  <2>1. toPersist' = stored
    BY <1>1
  <2>2. s \notin new /\ s \notin given
    BY <1>5, <1>7, <2>1 DEF Generated, Operators, None
  <2>3. settings'[s] = stored[s] /\ stored[s] # None
    BY <1>7, <2>2
  <2>4. stored # NoFile
    BY <2>3 DEF NoFile
  <2> QED
    BY <2>3, <2>4
<1>11. ToStore'
  <2> SUFFICES ASSUME NEW s \in Secrets
               PROVE  /\ Generated(settings'[s]) => toPersist'[s] = settings'[s]
                      /\ seen'[s] # None => toPersist'[s] = seen'[s]
    BY DEF ToStore
  <2>1. Generated(settings'[s]) => toPersist'[s] = settings'[s]
    BY <1>7 DEF Generated, Operators
  <2>2. CASE stored = file
    <3>1. seen'[s] = seen[s] /\ (seen[s] # None => file[s] = seen[s])
      BY <1>1, <1>2, <2>2 DEF SeenIsStored
    <3> QED
      BY <1>7, <2>1, <2>2, <3>1
  <2>3. CASE stored # file
    BY <1>1, <2>1, <2>3 DEF Forgotten
  <2> QED
    BY <2>2, <2>3
<1>12. SeenIsStored'
  BY <1>1, <1>2 DEF SeenIsStored, Forgotten
<1> QED
  BY <1>9, <1>10, <1>11, <1>12

\* The environment alone has nothing that was generated.
LEMMA OnlyOperators ==
  ASSUME NEW given
  PROVE  /\ FromEnvironment(given) \in [Secrets -> Values]
         /\ \A s \in Secrets : ~Generated(FromEnvironment(given)[s])
BY DEF FromEnvironment, Values, Generated, Operators, None

LEMMA BootWithoutStateKeeps ==
  ASSUME BootInv, BootWithoutState PROVE BootInv'
<1> USE DEF BootInv
<1>1. PICK given \in SUBSET Secrets : settings' = FromEnvironment(given)
  BY DEF BootWithoutState
<1>2. /\ phase = "down" /\ boots < MaxBoots /\ boots' = boots + 1
      /\ phase' = "start" /\ fresh' = {}
      /\ UNCHANGED <<file, toPersist, issued, announced, seen>>
  BY DEF BootWithoutState
<1>3. settings' \in [Secrets -> Values] /\ \A s \in Secrets : ~Generated(settings'[s])
  BY <1>1, OnlyOperators
<1>4. BootTypeOK'
  BY <1>2, <1>3, BoundAssumption DEF BootTypeOK, Values
<1>5. Stored' /\ ToStore' /\ SeenIsStored'
  BY <1>2, <1>3 DEF Stored, ToStore, SeenIsStored
<1> QED
  BY <1>4, <1>5

\* Truncate, Write, Announce and DeleteFile.
LEMMA FileStepKeeps ==
  ASSUME BootInv, ~ShortWrites, Truncate \/ Write \/ Announce \/ DeleteFile PROVE BootInv'
<1> USE DEF BootInv
<1>1. CASE Truncate
  BY <1>1, NoSecrets DEF Truncate, BootTypeOK, Stored, ToStore, SeenIsStored, Values
<1>2. CASE Write
  <2>1. file' = toPersist
    BY <1>2 DEF Write
  <2> QED
    BY <1>2, <2>1 DEF Write, BootTypeOK, Stored, ToStore, SeenIsStored, Values
<1>3. CASE Announce
  <2>1. announced' \in Values
    BY <1>3, SecretsAssumption DEF Announce, BootTypeOK
  <2> QED
    BY <1>3, <2>1 DEF Announce, BootTypeOK, Stored, ToStore, SeenIsStored, Values
<1>4. CASE DeleteFile
  BY <1>4, NoSecrets DEF DeleteFile, BootTypeOK, Stored, ToStore, SeenIsStored, Values, Forgotten
<1> QED
  BY <1>1, <1>2, <1>3, <1>4

\* SaveFails, Start and Stop.
LEMMA PhaseStepKeeps ==
  ASSUME BootInv, SaveFails \/ Start \/ Stop PROVE BootInv'
<1> USE DEF BootInv
<1>1. CASE SaveFails
  <2>1. settings' \in [Secrets -> Values] /\ \A s \in Secrets : ~Generated(settings'[s])
    BY <1>1, OnlyOperators DEF SaveFails, AfterOSError
  <2>2. seen' \in {seen, Forgotten} /\ (phase = "write" => seen' = Forgotten)
    BY <1>1 DEF SaveFails, CutNow
  <2>3. /\ phase \in {"truncate", "write"} /\ phase' = "start" /\ fresh' = {}
        /\ UNCHANGED <<file, toPersist, issued, announced, boots>>
    BY <1>1 DEF SaveFails
  <2>4. BootTypeOK'
    BY <2>1, <2>2, <2>3, NoSecrets DEF BootTypeOK, Values
  <2>5. Stored' /\ ToStore' /\ SeenIsStored'
    BY <2>1, <2>2, <2>3 DEF Stored, ToStore, SeenIsStored, Forgotten
  <2> QED
    BY <2>4, <2>5
<1>2. CASE Start
  <2>1. /\ phase = "start" /\ phase' \in {"down", "up"} /\ toPersist' = NoFile /\ fresh' = {}
        /\ UNCHANGED <<file, issued, announced, boots>>
    BY <1>2 DEF Start
  <2>2. CASE phase' = "up"
    <3>1. settings' = settings
      BY <1>2, <2>2 DEF Start
    <3>2. seen' = [s \in Secrets |-> IF Generated(settings[s]) THEN settings[s] ELSE seen[s]]
      BY <1>2, <2>2 DEF Start
    <3>3. BootTypeOK'
      BY <2>1, <3>1, <3>2, NoSecrets DEF BootTypeOK, Values
    <3>4. Stored' /\ ToStore' /\ SeenIsStored'
      BY <2>1, <2>2, <3>1, <3>2 DEF Stored, ToStore, SeenIsStored
    <3> QED
      BY <3>3, <3>4
  <2>3. CASE phase' = "down"
    <3>1. settings' = Forgotten /\ seen' = seen
      BY <1>2, <2>3 DEF Start
    <3>2. BootTypeOK'
      BY <2>1, <3>1, NoSecrets DEF BootTypeOK, Values
    <3>3. Stored' /\ ToStore' /\ SeenIsStored'
      BY <2>1, <2>3, <3>1 DEF Stored, ToStore, SeenIsStored
    <3> QED
      BY <3>2, <3>3
  <2> QED
    BY <2>1, <2>2, <2>3
<1>3. CASE Stop
  <2>1. /\ phase' = "down" /\ settings' = Forgotten /\ toPersist' = NoFile /\ fresh' = {}
        /\ UNCHANGED <<file, issued, announced, boots>>
    BY <1>3 DEF Stop
  <2>2. seen' \in {seen, Forgotten} /\ (phase = "write" => seen' = Forgotten)
    BY <1>3 DEF Stop, CutNow
  <2>3. BootTypeOK'
    BY <2>1, <2>2, NoSecrets DEF BootTypeOK, Values
  <2>4. Stored' /\ ToStore' /\ SeenIsStored'
    BY <2>1, <2>2 DEF Stored, ToStore, SeenIsStored, Forgotten
  <2> QED
    BY <2>3, <2>4
<1> QED
  BY <1>1, <1>2, <1>3

LEMMA StepBootInv == ~ShortWrites /\ BootInv /\ [Next]_vars => BootInv'
<1> SUFFICES ASSUME ~ShortWrites, BootInv, [Next]_vars PROVE BootInv'
  OBVIOUS
<1>1. BootNext \/ UNCHANGED bootVars
  BY DEF Next, LogIn, TimePasses, StartUp, Die, BootNext, vars
<1>2. CASE BootNext
  BY <1>2, BootKeeps, BootWithoutStateKeeps, FileStepKeeps, PhaseStepKeeps DEF BootNext, BootStep
<1>3. CASE UNCHANGED bootVars
  BY <1>3 DEF bootVars, BootInv, BootTypeOK, Stored, ToStore, SeenIsStored, Values
<1> QED
  BY <1>1, <1>2, <1>3

\* A console serves with stored secrets only, for any secrets and whatever
\* fails or is killed on the way, if a write that raises nothing is whole.
THEOREM ServesStoredSecrets == ~ShortWrites => (Spec => []RunsOnStoredSecrets)
<1> SUFFICES ASSUME ~ShortWrites PROVE Spec => []RunsOnStoredSecrets
  OBVIOUS
<1>1. BootInv => RunsOnStoredSecrets
  BY DEF BootInv, Stored, RunsOnStoredSecrets
<1>2. BootInv /\ [Next]_vars => BootInv'
  BY StepBootInv
<1> QED
  BY <1>1, <1>2, InitBootInv, PTL DEF Spec, Init

\* What a console served with it serves with again, until its file is deleted,
\* unreadable or cut, if a write that raises nothing is whole.
THEOREM SecretsAreKept == ~ShortWrites => (Spec => SecretsSurvive)
<1> SUFFICES ASSUME ~ShortWrites PROVE Spec => SecretsSurvive
  OBVIOUS
<1>1. BootInv /\ [Next]_vars =>
        [phase' = "up" =>
           \A s \in Secrets :
               Generated(settings[s]) /\ seen[s] # None => settings[s] = seen[s]]_bootVars
  <2> SUFFICES ASSUME BootInv, [Next]_vars, phase' = "up", ~UNCHANGED bootVars,
                      NEW s \in Secrets, Generated(settings[s]), seen[s] # None
               PROVE  settings[s] = seen[s]
    OBVIOUS
  <2>1. BootNext
    BY DEF Next, LogIn, TimePasses, StartUp, Die, BootNext, vars
  <2>2. phase = "start"
    BY <2>1 DEF BootNext, BootStep, Boot, BootWithoutState, Truncate, Write, SaveFails, Announce,
       Start, Stop, DeleteFile
  <2> QED
    BY <2>2 DEF BootInv, Stored, SeenIsStored
<1>2. BootInv /\ [Next]_vars => BootInv'
  BY StepBootInv
<1> QED
  BY <1>1, <1>2, InitBootInv, PTL DEF Spec, Init, SecretsSurvive

-----------------------------------------------------------------------------
(* The address a caller is counted under.                                  *)

LEMMA ListsAreSequences ==
  ASSUME NEW S, NEW n \in Nat, NEW l \in Lists(S, n)
  PROVE  l \in Seq(S) /\ Len(l) \in Nat /\ \A i \in 1 .. Len(l) : l[i] \in S
<1>1. PICK k \in 0 .. n : l \in [1 .. k -> S]
  BY DEF Lists
<1>2. l \in Seq(S)
  BY <1>1, SeqDef
<1> QED
  BY <1>2, LenProperties, ElementOfSeq

\* The walk stops at the last entry that is not trusted.
LEMMA WalkStops ==
  ASSUME NEW peer, NEW header, NEW n \in Nat,
         LET chain == Append(header, peer) IN
           /\ n \in DOMAIN chain /\ DOMAIN chain \subseteq Nat
           /\ chain[n] \notin Trusted /\ chain[n] # Junk
           /\ \A i \in DOMAIN chain : i > n => chain[i] \in Trusted
  PROVE  ClientIp(peer, header) = Append(header, peer)[n]
<1> DEFINE chain == Append(header, peer)
           Untrusted == {i \in DOMAIN chain : chain[i] \notin Trusted}
           last == CHOOSE i \in Untrusted : \A j \in Untrusted : j <= i
<1>1. n \in Untrusted /\ \A j \in Untrusted : j <= n
  OBVIOUS
<1>2. \A i \in Untrusted : (\A j \in Untrusted : j <= i) => i = n
  BY <1>1
<1>3. last = n
  BY <1>1, <1>2
<1>4. Untrusted # {} /\ chain[n] # Junk
  BY <1>1
<1> QED
  BY <1>3, <1>4 DEF ClientIp

\* Whatever a caller that is not a proxy writes into the header and whichever
\* proxies it comes over, it is counted under its own address.
LEMMA CountedUnderItself ==
  ASSUME NEW caller \in Callers PROVE CountedUnder(caller) \subseteq {caller}
<1> SUFFICES ASSUME NEW forged \in Lists(Entries, MaxForged), NEW proxies \in Lists(Trusted, MaxProxies)
             PROVE  ClientIp(Peer(caller, proxies), Header(caller, forged, proxies)) = caller
  BY DEF CountedUnder
<1>1. forged \in Seq(Entries) /\ Len(forged) \in Nat
  BY ListsAreSequences, LimitsAssumption
<1>2. /\ proxies \in Seq(Trusted) /\ Len(proxies) \in Nat
      /\ \A i \in 1 .. Len(proxies) : proxies[i] \in Trusted
  BY ListsAreSequences, LimitsAssumption
<1>3. caller \in Entries /\ caller \notin Trusted /\ caller # Junk /\ Trusted \subseteq Entries
  BY AddressesAssumption DEF Callers, Entries
<1> DEFINE own == Append(forged, caller)
           n == Len(forged) + 1
<1>4. own \in Seq(Entries) /\ Len(own) = n /\ own[n] = caller
  BY <1>1, <1>3, AppendProperties
<1>5. CASE proxies = <<>>
  <2>1. Peer(caller, proxies) = caller /\ Header(caller, forged, proxies) = forged
    BY <1>5 DEF Peer, Header
  <2>2. DOMAIN own = 1 .. n
    BY <1>4, LenProperties
  <2> QED
    BY <1>1, <1>3, <1>4, <2>1, <2>2, WalkStops
<1>6. CASE proxies # <<>>
  <2> DEFINE m == Len(proxies)
             others == SubSeq(proxies, 1, m - 1)
             header == own \o others
             chain == Append(header, proxies[m])
  <2>1. Peer(caller, proxies) = proxies[m] /\ Header(caller, forged, proxies) = header
    BY <1>6 DEF Peer, Header
  <2>2. m \in Nat /\ m >= 1 /\ proxies[m] \in Trusted
    BY <1>2, <1>6, EmptySeq
  <2>3. /\ others \in Seq(Trusted) /\ Len(others) = m - 1
        /\ \A i \in 1 .. m - 1 : others[i] \in Trusted
    <3>1. \A i \in 1 .. m - 1 : proxies[i] \in Trusted
      BY <1>2, <2>2
    <3>2. /\ others \in Seq(Trusted) /\ Len(others) = IF 1 <= m - 1 THEN m - 1 - 1 + 1 ELSE 0
          /\ \A i \in 1 .. m - 1 - 1 + 1 : others[i] = proxies[1 + i - 1]
      BY <2>2, <3>1, SubSeqProperties
    <3>3. Len(others) = m - 1
      <4> HIDE DEF others
      <4>1. CASE 1 <= m - 1
        BY <2>2, <3>2, <4>1
      <4>2. CASE ~(1 <= m - 1)
        <5>1. Len(others) = 0
          BY <3>2, <4>2
        <5> HIDE DEF m
        <5>2. m = 1
          BY <2>2, <4>2
        <5> QED
          BY <5>1, <5>2
      <4> QED
        BY <4>1, <4>2
    <3>4. ASSUME NEW i \in 1 .. m - 1 PROVE others[i] \in Trusted
      <4>1. i \in 1 .. m - 1 - 1 + 1 /\ 1 + i - 1 = i
        BY <2>2
      <4> QED
        BY <3>1, <3>2, <4>1
    <3> QED
      BY <3>2, <3>3, <3>4
  <2>4. others \in Seq(Entries)
    BY <1>3, <2>3, SeqMonotonic
  <2> HIDE DEF others, own
  <2>5. /\ header \in Seq(Entries) /\ Len(header) = n + (m - 1)
        /\ \A i \in 1 .. n + (m - 1) : header[i] = IF i <= n THEN own[i] ELSE others[i - n]
    <3>1. /\ own \o others \in Seq(Entries) /\ Len(own \o others) = Len(own) + Len(others)
          /\ \A i \in 1 .. Len(own) + Len(others) :
                (own \o others)[i] = IF i <= Len(own) THEN own[i] ELSE others[i - Len(own)]
      BY <1>4, <2>4, ConcatProperties
    <3>2. Len(own) = n /\ Len(others) = m - 1
      BY <1>4, <2>3
    <3> QED
      BY <3>1, <3>2
  <2> HIDE DEF header
  <2>6. /\ chain \in Seq(Entries) /\ Len(chain) = n + m
        /\ \A i \in 1 .. n + (m - 1) : chain[i] = header[i]
        /\ chain[n + m] = proxies[m]
    <3>1. proxies[m] \in Entries
      BY <1>3, <2>2
    <3>2. /\ chain \in Seq(Entries) /\ Len(chain) = Len(header) + 1
          /\ \A i \in 1 .. Len(header) : chain[i] = header[i]
          /\ chain[Len(header) + 1] = proxies[m]
      BY <2>5, <3>1, AppendProperties
    <3> QED
      BY <1>1, <2>2, <2>5, <3>2
  <2>7. DOMAIN chain = 1 .. n + m
    BY <2>6, LenProperties
  <2> HIDE DEF chain
  <2>8. n \in 1 .. n + m /\ chain[n] = caller
    <3>1. n \in 1 .. n + m /\ n \in 1 .. n + (m - 1) /\ n <= n
      BY <1>1, <2>2
    <3>2. header[n] = own[n]
      BY <2>5, <3>1
    <3>3. chain[n] = header[n]
      BY <2>6, <3>1
    <3> QED
      BY <1>4, <3>1, <3>2, <3>3
  <2>9. \A i \in 1 .. n + m : i > n => chain[i] \in Trusted
    <3> SUFFICES ASSUME NEW i \in 1 .. n + m, i > n PROVE chain[i] \in Trusted
      OBVIOUS
    <3>1. CASE i = n + m
      BY <2>2, <2>6, <3>1
    <3>2. CASE i # n + m
      <4>1. i \in 1 .. n + (m - 1) /\ i - n \in 1 .. m - 1 /\ ~(i <= n)
        BY <1>1, <2>2, <3>2
      <4>2. header[i] = others[i - n]
        BY <2>5, <4>1
      <4>3. chain[i] = header[i]
        BY <2>6, <4>1
      <4> QED
        BY <2>3, <4>1, <4>2, <4>3
    <3> QED
      BY <3>1, <3>2
  <2> USE DEF chain
  <2> QED
    BY <1>1, <1>3, <2>1, <2>7, <2>8, <2>9, WalkStops
<1> QED
  BY <1>5, <1>6

LEMMA LeastExists ==
  ASSUME NEW T \in SUBSET Nat, T # {}
  PROVE  \E x \in T : \A y \in T : x <= y
<1> DEFINE R == {ss \in Nat \X Nat : ss[1] < ss[2]}
<1>1. IsWellFoundedOn(R, Nat)
  BY NatLessThanWellFounded DEF OpToRel
<1>2. PICK x \in T : \A y \in T : ~(<<y, x>> \in R)
  BY <1>1, WFMin
<1>3. ASSUME NEW y \in T PROVE x <= y
  <2>1. ~(<<y, x>> \in R) /\ x \in Nat /\ y \in Nat
    BY <1>2
  <2>2. <<y, x>> \in Nat \X Nat
    BY <2>1
  <2>3. <<y, x>>[1] = y /\ <<y, x>>[2] = x
    OBVIOUS
  <2>4. ~(y < x)
    BY <2>1, <2>2, <2>3
  <2> QED
    BY <2>1, <2>4
<1> QED
  BY <1>2, <1>3

\* Every request is counted under an address.
LEMMA CountedUnderAddress ==
  ASSUME NEW caller \in Addresses PROVE CountedUnder(caller) \subseteq Addresses
<1> SUFFICES ASSUME NEW forged \in Lists(Entries, MaxForged),
                    NEW proxies \in Lists(Trusted, MaxProxies)
             PROVE  ClientIp(Peer(caller, proxies), Header(caller, forged, proxies)) \in Addresses
  BY DEF CountedUnder
<1> DEFINE peer == Peer(caller, proxies)
           header == Header(caller, forged, proxies)
<1>0. caller \in Entries /\ Trusted \subseteq Addresses /\ Trusted \subseteq Entries
  BY AddressesAssumption DEF Entries
<1>1. forged \in Seq(Entries)
  BY ListsAreSequences, LimitsAssumption
<1>2. /\ proxies \in Seq(Trusted) /\ Len(proxies) \in Nat
      /\ \A i \in 1 .. Len(proxies) : proxies[i] \in Trusted
  BY ListsAreSequences, LimitsAssumption
<1>3. peer \in Addresses
  <2>1. CASE proxies = <<>>
    BY <2>1 DEF Peer
  <2>2. CASE proxies # <<>>
    <3>1. Len(proxies) \in 1 .. Len(proxies)
      BY <1>2, <2>2, EmptySeq
    <3> QED
      BY <1>0, <1>2, <2>2, <3>1 DEF Peer
  <2> QED
    BY <2>1, <2>2
<1>4. header \in Seq(Entries)
  <2>1. CASE proxies = <<>>
    BY <1>1, <2>1 DEF Header
  <2>2. CASE proxies # <<>>
    <3>1. Append(forged, caller) \in Seq(Entries)
      BY <1>0, <1>1, AppendProperties
    <3>2. SubSeq(proxies, 1, Len(proxies) - 1) \in Seq(Entries)
      <4>1. \A i \in 1 .. Len(proxies) - 1 : proxies[i] \in Entries
        BY <1>0, <1>2
      <4>2. 1 \in Int /\ Len(proxies) - 1 \in Int
        BY <1>2
      <4> QED
        BY <1>2, <4>1, <4>2, SubSeqProperties
    <3> QED
      BY <2>2, <3>1, <3>2, ConcatProperties DEF Header
  <2> QED
    BY <2>1, <2>2
<1> HIDE DEF peer, header
<1> DEFINE chain == Append(header, peer)
           Untrusted == {i \in DOMAIN chain : chain[i] \notin Trusted}
           last == CHOOSE i \in Untrusted : \A j \in Untrusted : j <= i
<1>5. /\ chain \in Seq(Entries) /\ Len(chain) \in Nat /\ DOMAIN chain = 1 .. Len(chain)
      /\ \A i \in DOMAIN chain : chain[i] \in Entries
  <2>1. peer \in Entries
    BY <1>3 DEF Entries
  <2>2. chain \in Seq(Entries)
    BY <1>4, <2>1, AppendProperties
  <2> HIDE DEF chain
  <2> QED
    BY <2>2, LenProperties, ElementOfSeq
<1>6. CASE Untrusted = {}
  BY <1>3, <1>6 DEF ClientIp, peer, header
<1>7. CASE Untrusted # {}
  <2>1. \E i \in Untrusted : \A j \in Untrusted : j <= i
    <3> HIDE DEF chain
    <3> DEFINE n == Len(chain)
               Depths == {n - i : i \in Untrusted}
    <3>1. \A i \in Untrusted : i \in Nat /\ n - i \in Nat
      BY <1>5
    <3>2. Depths \in SUBSET Nat /\ Depths # {}
      BY <1>7, <3>1
    <3>3. PICK d \in Depths : \A e \in Depths : d <= e
      <4> HIDE DEF Depths
      <4> QED
        BY <3>2, LeastExists
    <3>4. PICK i \in Untrusted : d = n - i
      BY <3>3
    <3>5. ASSUME NEW j \in Untrusted PROVE j <= i
      <4>1. n - i <= n - j
        BY <3>3, <3>4
      <4> QED
        BY <1>5, <3>1, <4>1
    <3> QED
      BY <3>5
  <2>2. last \in Untrusted
    <3> HIDE DEF Untrusted
    <3> QED
      BY <2>1
  <2>3. chain[last] \in Entries
    BY <1>5, <2>2
  <2>4. ClientIp(peer, header) =
            IF Untrusted = {} \/ chain[last] = Junk THEN peer ELSE chain[last]
    BY Zenon DEF ClientIp
  <2> HIDE DEF Untrusted, last, chain
  <2> QED
    BY <1>3, <1>7, <2>3, <2>4 DEF Entries, peer, header
<1> QED
  BY <1>6, <1>7

-----------------------------------------------------------------------------
(* The failures in a window.                                               *)

Times == 0 .. MaxTime
Age == Window * Second

\* The j-th entry from the end, counted from 0.
Back(s, j) == s[Len(s) - j]

\* Failures in the order they happened, none later than now.
InOrder(f, t) ==
    \A i, j \in 1 .. Len(f) : i <= j => f[i] <= f[j] /\ f[j] <= t

Past(g, t) == \A i \in 1 .. Len(g) : g[i] <= t

\* Each of the last guesses is older than the window, or the table has as many
\* failures at least as late.
Covered(g, f, t) ==
    \A j \in 0 .. Len(g) - 1 :
        Back(g, j) < t - Age \/ (j < Len(f) /\ Back(f, j) >= Back(g, j))

Spaced(g) ==
    /\ Len(g) <= MaxFailures + 1
    /\ Len(g) > MaxFailures => g[Len(g)] - g[1] > Age

ThrottleInv ==
    /\ now \in Times
    /\ fails \in [Addresses -> Seq(Times)]
    /\ guesses \in [Callers -> Seq(Times)]
    /\ \A a \in Addresses : InOrder(fails[a], now)
    /\ \A a \in Callers :
          /\ Past(guesses[a], now)
          /\ Covered(guesses[a], fails[a], now)
          /\ Spaced(guesses[a])

LEMMA AgeIsNatural == Age \in Nat /\ Age >= 1
  BY LimitsAssumption DEF Age

\* What is pruned is older than the window, what is left is the rest, and its
\* first is not older.
LEMMA FreshIsTheRest ==
  ASSUME NEW f \in Seq(Times), NEW t \in Nat
  PROVE  LET r == FreshAt(f, t) IN
           /\ r \in Seq(Times)
           /\ Len(r) <= Len(f)
           /\ \A j \in 0 .. Len(r) - 1 : Back(r, j) = Back(f, j)
           /\ \A j \in Len(r) .. Len(f) - 1 : Back(f, j) < t - Age
           /\ Len(r) > 0 => Back(f, Len(r) - 1) >= t - Age
<1> DEFINE n == Len(f)
           Kept == {i \in DOMAIN f : f[i] >= t - Age}
           first == CHOOSE i \in Kept : \A j \in Kept : i <= j
           r == FreshAt(f, t)
<1>1. n \in Nat /\ DOMAIN f = 1 .. n /\ \A i \in 1 .. n : f[i] \in Times
  BY LenProperties, ElementOfSeq
<1>2. t \in Nat /\ Times \subseteq Nat /\ Age \in Nat
  BY AgeIsNatural, LimitsAssumption DEF Times
<1>3. ASSUME NEW i \in 1 .. n, i \notin Kept PROVE f[i] < t - Age
  <2>1. i \in DOMAIN f /\ f[i] \in Nat
    BY <1>1, <1>2
  <2>2. ~(f[i] >= t - Age)
    BY <1>3, <2>1
  <2>3. t - Age \in Int
    BY <1>2
  <2> QED
    BY <2>1, <2>2, <2>3
<1>4. CASE Kept = {}
  <2>1. r = <<>>
    BY <1>4 DEF FreshAt, Age
  <2>2. \A i \in 1 .. n : f[i] < t - Age
    BY <1>3, <1>4
  <2>3. \A j \in 0 .. n - 1 : n - j \in 1 .. n
    BY <1>1
  <2>4. r \in Seq(Times) /\ Len(r) = 0
    BY <2>1, EmptySeq
  <2> QED
    BY <1>1, <2>2, <2>3, <2>4 DEF Back
<1>5. CASE Kept # {}
  <2>1. Kept \in SUBSET Nat
    BY <1>1
  <2>2. first \in Kept /\ \A j \in Kept : first <= j
    <3>1. \E x \in Kept : \A y \in Kept : x <= y
      BY <1>5, <2>1, LeastExists
    <3> HIDE DEF Kept
    <3> QED
      BY <3>1
  <2>3. r = SubSeq(f, first, n)
    BY <1>5 DEF FreshAt, Age
  <2>4. first \in 1 .. n /\ \A i \in 1 .. n : i < first => f[i] < t - Age
    <3>1. first \in 1 .. n
      BY <1>1, <2>2
    <3>2. ASSUME NEW i \in 1 .. n, i < first PROVE i \notin Kept
      <4> HIDE DEF Kept
      <4> QED
        BY <1>1, <2>2, <3>1, <3>2
    <3> HIDE DEF Kept, first
    <3> QED
      BY <1>3, <3>1, <3>2
  <2> HIDE DEF first, Kept
  <2>5. /\ r \in Seq(Times) /\ Len(r) = n - first + 1
        /\ \A i \in 1 .. n - first + 1 : r[i] = f[first + i - 1]
    <3>1. \A i \in first .. n : f[i] \in Times
      BY <1>1, <2>4
    <3> QED
      BY <1>1, <2>3, <2>4, <3>1, SubSeqProperties
  <2> HIDE DEF r
  <2>6. ASSUME NEW j \in 0 .. Len(r) - 1 PROVE Back(r, j) = Back(f, j)
    <3>1. Len(r) - j \in 1 .. n - first + 1 /\ first + (Len(r) - j) - 1 = n - j
      BY <1>1, <2>4, <2>5
    <3> QED
      BY <2>5, <3>1 DEF Back
  <2>7. ASSUME NEW j \in Len(r) .. n - 1 PROVE Back(f, j) < t - Age
    <3>1. n - j \in 1 .. n /\ n - j < first
      BY <1>1, <2>4, <2>5
    <3> QED
      BY <2>4, <3>1 DEF Back
  <2>8. Len(r) <= n
    BY <1>1, <2>4, <2>5
  <2>9. Back(f, Len(r) - 1) >= t - Age
    <3>1. n - (Len(r) - 1) = first
      BY <1>1, <2>4, <2>5
    <3>2. f[first] >= t - Age
      BY <2>2 DEF Kept
    <3> QED
      BY <3>1, <3>2 DEF Back
  <2> USE DEF r
  <2> QED
    BY <2>5, <2>6, <2>7, <2>8, <2>9
<1> QED
  BY <1>4, <1>5

\* Pruning keeps the order, and covers what was covered.
LEMMA FreshInOrder ==
  ASSUME NEW f \in Seq(Times), NEW t \in Times, InOrder(f, t)
  PROVE  InOrder(FreshAt(f, t), t)
<1> DEFINE r == FreshAt(f, t)
<1>0. t \in Nat
  BY DEF Times
<1>1. /\ r \in Seq(Times) /\ Len(r) <= Len(f)
      /\ \A j \in 0 .. Len(r) - 1 : Back(r, j) = Back(f, j)
  BY <1>0, FreshIsTheRest
<1> HIDE DEF r
<1>2. Len(r) \in Nat /\ Len(f) \in Nat
  BY <1>1, LenProperties
<1>3. ASSUME NEW i \in 1 .. Len(r)
      PROVE  r[i] = f[Len(f) - Len(r) + i] /\ Len(f) - Len(r) + i \in 1 .. Len(f)
  <2>1. Len(r) - i \in 0 .. Len(r) - 1
    BY <1>2
  <2>2. Back(r, Len(r) - i) = Back(f, Len(r) - i)
    BY <1>1, <2>1
  <2>3. Len(r) - (Len(r) - i) = i /\ Len(f) - (Len(r) - i) = Len(f) - Len(r) + i
    BY <1>2
  <2> QED
    BY <1>1, <1>2, <2>2, <2>3 DEF Back
<1>4. ASSUME NEW i \in 1 .. Len(r), NEW j \in 1 .. Len(r), i <= j
      PROVE  r[i] <= r[j] /\ r[j] <= t
  <2>1. Len(f) - Len(r) + i <= Len(f) - Len(r) + j
    BY <1>2, <1>4
  <2> QED
    BY <1>3, <2>1 DEF InOrder
<1>5. InOrder(r, t)
  BY <1>4 DEF InOrder
<1> QED
  BY <1>5 DEF r

LEMMA FreshCovers ==
  ASSUME NEW f \in Seq(Times), NEW g \in Seq(Times), NEW t \in Times, Covered(g, f, t)
  PROVE  Covered(g, FreshAt(f, t), t)
<1> DEFINE r == FreshAt(f, t)
<1>0. t \in Nat
  BY DEF Times
<1>1. /\ r \in Seq(Times) /\ Len(r) <= Len(f)
      /\ \A j \in 0 .. Len(r) - 1 : Back(r, j) = Back(f, j)
      /\ \A j \in Len(r) .. Len(f) - 1 : Back(f, j) < t - Age
  BY <1>0, FreshIsTheRest
<1> HIDE DEF r
<1>2. Len(r) \in Nat /\ Len(f) \in Nat /\ Len(g) \in Nat
  BY <1>1, LenProperties
<1>3. \A i \in 1 .. Len(f) : f[i] \in Nat
  BY LimitsAssumption, ElementOfSeq DEF Times
<1>4. \A i \in 1 .. Len(g) : g[i] \in Nat
  BY LimitsAssumption, ElementOfSeq DEF Times
<1>5. ASSUME NEW j \in 0 .. Len(g) - 1
      PROVE  Back(g, j) < t - Age \/ (j < Len(r) /\ Back(r, j) >= Back(g, j))
  <2>1. CASE Back(g, j) < t - Age
    BY <2>1
  <2>2. CASE j < Len(f) /\ Back(f, j) >= Back(g, j) /\ j < Len(r)
    <3>1. Back(r, j) = Back(f, j)
      BY <1>1, <1>2, <2>2
    <3> QED
      BY <2>2, <3>1
  <2>3. CASE j < Len(f) /\ Back(f, j) >= Back(g, j) /\ ~(j < Len(r))
    <3>1. j \in Len(r) .. Len(f) - 1
      BY <1>2, <2>3
    <3>2. Back(f, j) < t - Age
      BY <1>1, <3>1
    <3>3. Back(f, j) \in Nat /\ Back(g, j) \in Nat /\ t - Age \in Int
      <4>1. Len(f) - j \in 1 .. Len(f) /\ Len(g) - j \in 1 .. Len(g)
        BY <1>2, <2>3
      <4>2. t - Age \in Int
        BY AgeIsNatural, LimitsAssumption DEF Times
      <4> QED
        BY <1>3, <1>4, <4>1, <4>2 DEF Back
    <3> QED
      BY <2>3, <3>2, <3>3
  <2> QED
    BY <2>1, <2>2, <2>3 DEF Covered
<1>6. Covered(g, r, t)
  BY <1>5 DEF Covered
<1> QED
  BY <1>6 DEF r

\* A time has k failures left exactly if the k-th from the end is not older
\* than the window.
LEMMA FreshCounts ==
  ASSUME NEW f \in Seq(Times), NEW t \in Nat, NEW u, InOrder(f, u), NEW k \in Nat \ {0}
  PROVE  Len(FreshAt(f, t)) >= k <=> k <= Len(f) /\ Back(f, k - 1) >= t - Age
<1> DEFINE r == FreshAt(f, t)
<1>1. /\ r \in Seq(Times) /\ Len(r) <= Len(f)
      /\ \A j \in Len(r) .. Len(f) - 1 : Back(f, j) < t - Age
      /\ Len(r) > 0 => Back(f, Len(r) - 1) >= t - Age
  BY FreshIsTheRest
<1> HIDE DEF r
<1>2. /\ Len(r) \in Nat /\ Len(f) \in Nat /\ t - Age \in Int
      /\ \A i \in 1 .. Len(f) : f[i] \in Nat
  BY <1>1, LenProperties, ElementOfSeq, AgeIsNatural, LimitsAssumption DEF Times
<1>3. CASE Len(r) >= k
  <2>1. /\ Len(f) - (Len(r) - 1) \in 1 .. Len(f) /\ Len(f) - (k - 1) \in 1 .. Len(f)
        /\ Len(f) - (Len(r) - 1) <= Len(f) - (k - 1)
    BY <1>1, <1>2, <1>3
  <2>2. Back(f, Len(r) - 1) <= Back(f, k - 1)
    BY <2>1 DEF InOrder, Back
  <2>3. Back(f, Len(r) - 1) \in Nat /\ Back(f, k - 1) \in Nat
    BY <1>2, <2>1 DEF Back
  <2> QED
    BY <1>1, <1>2, <1>3, <2>2, <2>3 DEF r
<1>4. CASE ~(Len(r) >= k)
  <2> SUFFICES ASSUME k <= Len(f) PROVE ~(Back(f, k - 1) >= t - Age)
    BY <1>4 DEF r
  <2>1. k - 1 \in Len(r) .. Len(f) - 1 /\ Len(f) - (k - 1) \in 1 .. Len(f)
    BY <1>1, <1>2, <1>4
  <2>2. Back(f, k - 1) < t - Age /\ Back(f, k - 1) \in Nat
    BY <1>1, <1>2, <2>1 DEF Back
  <2> QED
    BY <1>2, <2>2
<1> QED
  BY <1>3, <1>4

\* Pruning twice is pruning once.
LEMMA FreshAgain ==
  ASSUME NEW f \in Seq(Times), NEW t \in Times, InOrder(f, t)
  PROVE  Len(FreshAt(FreshAt(f, t), t)) = Len(FreshAt(f, t))
<1> DEFINE r == FreshAt(f, t)
<1>0. t \in Nat
  BY DEF Times
<1>1. /\ r \in Seq(Times) /\ Len(r) <= Len(f) /\ InOrder(r, t)
      /\ \A j \in 0 .. Len(r) - 1 : Back(r, j) = Back(f, j)
      /\ Len(r) > 0 => Back(f, Len(r) - 1) >= t - Age
  BY <1>0, FreshIsTheRest, FreshInOrder
<1> HIDE DEF r
<1>2. Len(r) \in Nat /\ FreshAt(r, t) \in Seq(Times) /\ Len(FreshAt(r, t)) <= Len(r)
  BY <1>0, <1>1, FreshIsTheRest, LenProperties
<1>3. Len(FreshAt(r, t)) \in Nat
  BY <1>2, LenProperties
<1>4. CASE Len(r) = 0
  BY <1>2, <1>3, <1>4 DEF r
<1>5. CASE Len(r) # 0
  <2>1. Len(r) \in Nat \ {0} /\ Len(r) <= Len(r) /\ Back(r, Len(r) - 1) >= t - Age
    BY <1>1, <1>2, <1>5
  <2>2. Len(FreshAt(r, t)) >= Len(r)
    BY <1>0, <1>1, <2>1, FreshCounts
  <2> QED
    BY <1>2, <1>3, <2>2 DEF r
<1> QED
  BY <1>4, <1>5

\* A failure of now at the end keeps the order.
LEMMA AppendInOrder ==
  ASSUME NEW f \in Seq(Times), NEW t \in Times, InOrder(f, t)
  PROVE  Append(f, t) \in Seq(Times) /\ InOrder(Append(f, t), t)
<1> DEFINE e == Append(f, t)
<1>1. /\ e \in Seq(Times) /\ Len(e) = Len(f) + 1 /\ Len(f) \in Nat
      /\ \A i \in 1 .. Len(f) : e[i] = f[i]
      /\ e[Len(f) + 1] = t
  BY AppendProperties, LenProperties
<1> HIDE DEF e
<1>2. t \in Nat
  BY LimitsAssumption DEF Times
<1>3. \A i \in 1 .. Len(f) : f[i] <= t
  BY <1>1 DEF InOrder
<1>4. ASSUME NEW i \in 1 .. Len(e), NEW j \in 1 .. Len(e), i <= j
      PROVE  e[i] <= e[j] /\ e[j] <= t
  <2>1. CASE j \in 1 .. Len(f)
    <3>1. i \in 1 .. Len(f)
      BY <1>1, <1>4, <2>1
    <3> QED
      BY <1>1, <1>4, <2>1, <3>1 DEF InOrder
  <2>2. CASE j = Len(f) + 1
    <3>1. e[j] = t
      BY <1>1, <2>2
    <3>2. e[i] <= t
      BY <1>1, <1>2, <1>3
    <3> QED
      BY <1>2, <3>1, <3>2
  <2> QED
    BY <1>1, <2>1, <2>2
<1> USE DEF e
<1> QED
  BY <1>1, <1>4 DEF InOrder

\* A failure counted under an address that is not the caller's still covers
\* the guesses of that address.
LEMMA AppendCovers ==
  ASSUME NEW f \in Seq(Times), NEW g \in Seq(Times), NEW t \in Times,
         InOrder(f, t), Past(g, t), Covered(g, f, t)
  PROVE  Covered(g, Append(f, t), t)
<1> DEFINE e == Append(f, t)
<1>1. /\ Len(e) = Len(f) + 1 /\ Len(f) \in Nat /\ Len(g) \in Nat
      /\ \A i \in 1 .. Len(f) : e[i] = f[i]
      /\ e[Len(f) + 1] = t
  BY AppendProperties, LenProperties
<1> HIDE DEF e
<1>2. \A i \in 1 .. Len(f) : f[i] \in Nat
  BY LimitsAssumption, ElementOfSeq DEF Times
<1>3. t \in Nat /\ \A i \in 1 .. Len(g) : g[i] \in Nat
  BY LimitsAssumption, ElementOfSeq DEF Times
<1>4. ASSUME NEW j \in 0 .. Len(g) - 1, ~(Back(g, j) < t - Age)
      PROVE  j < Len(e) /\ Back(e, j) >= Back(g, j)
  <2>1. Len(g) - j \in 1 .. Len(g)
    BY <1>1
  <2>2. j < Len(f) /\ Back(f, j) >= Back(g, j)
    BY <1>4 DEF Covered
  <2>3. CASE j = 0
    <3>1. Back(e, j) = t
      BY <1>1, <2>3 DEF Back
    <3>2. Back(g, j) <= t
      BY <2>1 DEF Back, Past
    <3> QED
      BY <1>1, <1>3, <2>1, <2>3, <3>1, <3>2 DEF Back
  <2>4. CASE j # 0
    <3>1. Len(f) + 1 - j \in 1 .. Len(f) /\ Len(f) - j \in 1 .. Len(f) /\ Len(f) - j <= Len(f) + 1 - j
      BY <1>1, <2>2, <2>4
    <3>2. Back(e, j) = f[Len(f) + 1 - j]
      BY <1>1, <3>1 DEF Back
    <3>3. f[Len(f) - j] <= f[Len(f) + 1 - j]
      BY <3>1 DEF InOrder
    <3>4. Back(e, j) \in Nat /\ Back(f, j) \in Nat /\ Back(g, j) \in Nat
      BY <1>2, <1>3, <2>1, <3>1, <3>2 DEF Back
    <3>5. Back(e, j) >= Back(f, j)
      BY <3>2, <3>3, <3>4 DEF Back
    <3> QED
      BY <1>1, <2>2, <3>4, <3>5
  <2> QED
    BY <2>3, <2>4
<1> USE DEF e
<1> QED
  BY <1>4 DEF Covered

\* A guess of the caller itself: counted under its address, when the table
\* has fewer than MaxFailures there.
LEMMA GuessCovers ==
  ASSUME NEW f \in Seq(Times), NEW g \in Seq(Times), NEW t \in Times,
         Past(g, t), Covered(g, f, t), Len(g) <= MaxFailures + 1, Len(f) < MaxFailures
  PROVE  LET h == Newest(Append(g, t), MaxFailures + 1) IN
           h \in Seq(Times) /\ Past(h, t) /\ Covered(h, Append(f, t), t) /\ Spaced(h)
<1> DEFINE e == Append(f, t)
           k == Append(g, t)
           h == Newest(k, MaxFailures + 1)
<1>1. /\ Len(e) = Len(f) + 1 /\ Len(f) \in Nat
      /\ \A i \in 1 .. Len(f) : e[i] = f[i]
      /\ e[Len(f) + 1] = t
  BY AppendProperties, LenProperties
<1>2. /\ k \in Seq(Times) /\ Len(k) = Len(g) + 1 /\ Len(g) \in Nat
      /\ \A i \in 1 .. Len(g) : k[i] = g[i]
      /\ k[Len(g) + 1] = t
  BY AppendProperties, LenProperties
<1>3. t \in Nat /\ \A i \in 1 .. Len(g) : g[i] \in Nat
  BY LimitsAssumption, ElementOfSeq DEF Times
<1>4. MaxFailures \in Nat /\ MaxFailures >= 1
  BY LimitsAssumption
<1> HIDE DEF e, k
<1>5. /\ h \in Seq(Times) /\ Len(h) \in Nat /\ Len(h) <= Len(k) /\ Len(h) <= MaxFailures + 1
      /\ \A j \in 0 .. Len(h) - 1 : Back(h, j) = Back(k, j)
  <2>1. CASE Len(k) <= MaxFailures + 1
    BY <1>2, <2>1 DEF Newest
  <2>2. CASE ~(Len(k) <= MaxFailures + 1)
    <3> DEFINE first == Len(k) - (MaxFailures + 1) + 1
    <3>1. Len(k) = MaxFailures + 2 /\ first = 2
      BY <1>2, <1>4, <2>2
    <3>2. h = SubSeq(k, 2, Len(k))
      BY <2>2, <3>1 DEF Newest
    <3>3. \A i \in 2 .. Len(k) : k[i] \in Times
      BY <1>2, <3>1, ElementOfSeq
    <3>4. /\ h \in Seq(Times)
          /\ Len(h) = IF 2 <= Len(k) THEN Len(k) - 2 + 1 ELSE 0
          /\ \A i \in 1 .. Len(k) - 2 + 1 : h[i] = k[2 + i - 1]
      <4>1. 2 \in Int /\ Len(k) \in Int
        BY <1>4, <3>1
      <4>2. /\ SubSeq(k, 2, Len(k)) \in Seq(Times)
            /\ Len(SubSeq(k, 2, Len(k))) = IF 2 <= Len(k) THEN Len(k) - 2 + 1 ELSE 0
            /\ \A i \in 1 .. Len(k) - 2 + 1 : SubSeq(k, 2, Len(k))[i] = k[2 + i - 1]
        BY <3>3, <4>1, SubSeqProperties
      <4> HIDE DEF h
      <4> QED
        BY <3>2, <4>2
    <3> HIDE DEF h, first
    <3>5. Len(h) = MaxFailures + 1
      BY <1>4, <3>1, <3>4
    <3>6. ASSUME NEW j \in 0 .. Len(h) - 1 PROVE Back(h, j) = Back(k, j)
      <4>1. Len(h) - j \in 1 .. Len(k) - 2 + 1 /\ 2 + (Len(h) - j) - 1 = Len(k) - j
        BY <1>4, <3>1, <3>5
      <4> QED
        BY <3>4, <4>1 DEF Back
    <3> QED
      BY <1>4, <3>1, <3>4, <3>5, <3>6
  <2> HIDE DEF h
  <2> QED
    BY <2>1, <2>2
<1> HIDE DEF h
<1>6. /\ Back(k, 0) = t
      /\ \A j \in 1 .. Len(k) - 1 : Back(k, j) = Back(g, j - 1) /\ Len(g) - (j - 1) \in 1 .. Len(g)
  <2>1. ASSUME NEW j \in 1 .. Len(k) - 1
        PROVE  Back(k, j) = Back(g, j - 1) /\ Len(g) - (j - 1) \in 1 .. Len(g)
    <3>1. Len(k) - j \in 1 .. Len(g) /\ Len(k) - j = Len(g) - (j - 1)
      BY <1>2
    <3> QED
      BY <1>2, <3>1 DEF Back
  <2> QED
    BY <1>2, <2>1 DEF Back
<1>7. /\ Back(e, 0) = t
      /\ \A j \in 1 .. Len(e) - 1 : Back(e, j) = Back(f, j - 1)
  <2>1. ASSUME NEW j \in 1 .. Len(e) - 1 PROVE Back(e, j) = Back(f, j - 1)
    <3>1. Len(e) - j \in 1 .. Len(f) /\ Len(e) - j = Len(f) - (j - 1)
      BY <1>1
    <3> QED
      BY <1>1, <3>1 DEF Back
  <2> QED
    BY <1>1, <2>1 DEF Back
<1>8. Past(h, t)
  <2> SUFFICES ASSUME NEW i \in 1 .. Len(h) PROVE h[i] <= t
    BY DEF Past
  <2> DEFINE j == Len(h) - i
  <2>1. j \in 0 .. Len(h) - 1 /\ Len(h) - j = i
    BY <1>5
  <2>2. h[i] = Back(k, j)
    BY <1>5, <2>1 DEF Back
  <2> HIDE DEF j
  <2>3. CASE j = 0
    BY <1>3, <1>6, <2>2, <2>3
  <2>4. CASE j # 0
    <3>1. j \in 1 .. Len(k) - 1
      BY <1>2, <1>5, <2>1, <2>4
    <3>2. h[i] = g[Len(g) - (j - 1)] /\ Len(g) - (j - 1) \in 1 .. Len(g)
      BY <1>6, <2>2, <3>1 DEF Back
    <3> QED
      BY <3>2 DEF Past
  <2> QED
    BY <2>3, <2>4
<1>9. Covered(h, e, t)
  <2> SUFFICES ASSUME NEW j \in 0 .. Len(h) - 1
               PROVE  Back(k, j) < t - Age \/ (j < Len(e) /\ Back(e, j) >= Back(k, j))
    BY <1>5 DEF Covered
  <2>1. CASE j = 0
    BY <1>1, <1>3, <1>6, <1>7, <2>1
  <2>2. CASE j # 0
    <3>1. j \in 1 .. Len(k) - 1 /\ j - 1 \in 0 .. Len(g) - 1
      BY <1>2, <1>5, <2>2
    <3>2. Back(k, j) = Back(g, j - 1)
      BY <1>6, <3>1
    <3>3. CASE Back(g, j - 1) < t - Age
      BY <3>2, <3>3
    <3>4. CASE j - 1 < Len(f) /\ Back(f, j - 1) >= Back(g, j - 1)
      <4>1. j \in 1 .. Len(e) - 1
        BY <1>1, <3>1, <3>4
      <4> QED
        BY <1>1, <1>7, <3>2, <3>4, <4>1
    <3> QED
      BY <3>1, <3>3, <3>4 DEF Covered
  <2> QED
    BY <2>1, <2>2
<1>10. Spaced(h)
  <2> SUFFICES ASSUME Len(h) > MaxFailures PROVE h[Len(h)] - h[1] > Age
    BY <1>5 DEF Spaced
  <2>1. Len(h) = MaxFailures + 1 /\ MaxFailures \in 1 .. Len(k) - 1 /\ MaxFailures - 1 \in 0 .. Len(g) - 1
    BY <1>2, <1>4, <1>5
  <2>2. h[Len(h)] = t
    <3>1. Back(h, 0) = h[Len(h)] /\ 0 \in 0 .. Len(h) - 1
      BY <1>4, <2>1 DEF Back
    <3> QED
      BY <1>5, <1>6, <3>1
  <2>3. h[1] = Back(g, MaxFailures - 1)
    <3>1. Back(h, MaxFailures) = h[1] /\ MaxFailures \in 0 .. Len(h) - 1
      BY <1>4, <2>1 DEF Back
    <3> QED
      BY <1>5, <1>6, <2>1, <3>1
  <2>4. Back(g, MaxFailures - 1) < t - Age
    <3>1. ~(MaxFailures - 1 < Len(f))
      BY <1>1, <1>4
    <3> QED
      BY <2>1, <3>1 DEF Covered
  <2>5. Back(g, MaxFailures - 1) \in Nat
    <3>1. Len(g) - (MaxFailures - 1) \in 1 .. Len(g)
      BY <1>6, <2>1
    <3> QED
      BY <1>3, <3>1 DEF Back
  <2> QED
    BY <1>3, <2>2, <2>3, <2>4, <2>5, AgeIsNatural
<1> USE DEF h, e, k
<1> QED
  BY <1>5, <1>8, <1>9, <1>10

-----------------------------------------------------------------------------
(* The steps of the throttle.                                              *)

LEMMA NothingFailed ==
  ASSUME NEW t
  PROVE  /\ <<>> \in Seq(Times) /\ InOrder(<<>>, t) /\ Past(<<>>, t)
         /\ \A f : Covered(<<>>, f, t)
         /\ Spaced(<<>>)
<1>1. <<>> \in Seq(Times) /\ Len(<<>>) = 0
  BY EmptySeq
<1>2. 1 .. 0 = {} /\ 0 .. 0 - 1 = {}
  OBVIOUS
<1> QED
  BY <1>1, <1>2, LimitsAssumption DEF InOrder, Past, Covered, Spaced

LEMMA InitThrottleInv == ThrottleInit => ThrottleInv
<1> SUFFICES ASSUME ThrottleInit PROVE ThrottleInv
  OBVIOUS
<1>1. now \in Times
  BY LimitsAssumption DEF ThrottleInit, Times
<1> QED
  BY <1>1, NothingFailed DEF ThrottleInit, ThrottleInv, Callers

LEMMA TickKeeps ==
  ASSUME ThrottleInv, Tick PROVE ThrottleInv'
<1> USE DEF ThrottleInv
<1>1. now \in Nat /\ now' = now + 1 /\ now' \in Times /\ UNCHANGED <<fails, guesses>>
  BY LimitsAssumption DEF Tick, Times
<1>2. ASSUME NEW a \in Addresses PROVE InOrder(fails[a], now')
  <2>1. fails[a] \in Seq(Times) /\ InOrder(fails[a], now)
    OBVIOUS
  <2>2. \A i \in 1 .. Len(fails[a]) : fails[a][i] \in Nat
    BY <2>1, ElementOfSeq, LimitsAssumption DEF Times
  <2> QED
    BY <1>1, <2>1, <2>2 DEF InOrder
<1>3. ASSUME NEW a \in Callers PROVE Past(guesses[a], now') /\ Covered(guesses[a], fails[a], now')
  <2>1. guesses[a] \in Seq(Times) /\ Past(guesses[a], now) /\ Covered(guesses[a], fails[a], now)
    OBVIOUS
  <2>2. Len(guesses[a]) \in Nat /\ \A i \in 1 .. Len(guesses[a]) : guesses[a][i] \in Nat
    BY <2>1, ElementOfSeq, LenProperties, LimitsAssumption DEF Times
  <2>3. Past(guesses[a], now')
    BY <1>1, <2>1, <2>2 DEF Past
  <2>4. ASSUME NEW j \in 0 .. Len(guesses[a]) - 1, Back(guesses[a], j) < now - Age
        PROVE  Back(guesses[a], j) < now' - Age
    <3>1. Len(guesses[a]) - j \in 1 .. Len(guesses[a])
      BY <2>2
    <3>2. Back(guesses[a], j) \in Nat
      BY <2>2, <3>1 DEF Back
    <3> QED
      BY <1>1, <2>4, <3>2, AgeIsNatural
  <2> QED
    BY <2>1, <2>3, <2>4 DEF Covered
<1> QED
  BY <1>1, <1>2, <1>3

LEMMA RefuseKeeps ==
  ASSUME ThrottleInv, NEW ip, Refuse(ip), UNCHANGED now PROVE ThrottleInv'
<1> USE DEF ThrottleInv
<1>0. now \in Nat
  BY DEF Times
<1>1. ASSUME NEW a \in Addresses
      PROVE  /\ FreshAt(fails[a], now) \in Seq(Times)
             /\ InOrder(FreshAt(fails[a], now), now)
             /\ a \in Callers => Covered(guesses[a], FreshAt(fails[a], now), now)
  BY <1>0, FreshIsTheRest, FreshInOrder, FreshCovers
<1>2. fails' = [a \in Addresses |-> IF a = ip THEN FreshAt(fails[a], now) ELSE fails[a]]
  BY DEF Refuse, Fresh
<1>3. guesses' = guesses /\ now' = now /\ Callers \subseteq Addresses
  BY DEF Refuse, Callers
<1>4. fails' \in [Addresses -> Seq(Times)]
  BY <1>1, <1>2
<1> QED
  BY <1>1, <1>2, <1>3, <1>4

LEMMA SuccessKeeps ==
  ASSUME ThrottleInv, NEW ip, RecordSuccess(ip), UNCHANGED now PROVE ThrottleInv'
<1> USE DEF ThrottleInv
<1>1. Callers \subseteq Addresses /\ Junk \notin Callers /\ now' = now
  BY AddressesAssumption DEF Callers
<1>2. fails' = [a \in Addresses |-> IF a = ip THEN <<>> ELSE fails[a]]
  BY DEF RecordSuccess
<1>3. guesses' = [a \in Callers |-> IF a = ip THEN <<>> ELSE guesses[a]]
  BY <1>1 DEF RecordSuccess, Guessed
<1>4. fails' \in [Addresses -> Seq(Times)] /\ guesses' \in [Callers -> Seq(Times)]
  BY <1>2, <1>3, NothingFailed
<1>5. \A a \in Addresses : InOrder(fails'[a], now)
  BY <1>2, NothingFailed
<1>6. \A a \in Callers :
         Past(guesses'[a], now) /\ Covered(guesses'[a], fails'[a], now) /\ Spaced(guesses'[a])
  BY <1>1, <1>2, <1>3, NothingFailed
<1> QED
  BY <1>1, <1>4, <1>5, <1>6

LEMMA FailureKeeps ==
  ASSUME ThrottleInv, NEW caller \in Addresses, NEW ip \in CountedUnder(caller),
         ~Locked(ip), RecordFailure(ip, caller), UNCHANGED now
  PROVE  ThrottleInv'
<1> USE DEF ThrottleInv
<1> DEFINE fresh0 == FreshAt(fails[ip], now)
           gone == Evicted(ip)
           earlier(a) == IF a \in gone THEN <<>> ELSE guesses[a]
<1>1. /\ now' = now /\ now \in Times /\ now \in Nat
      /\ Callers \subseteq Addresses /\ MaxFailures \in Nat \ {0}
  BY LimitsAssumption DEF Callers, Times
<1>2. caller \in Callers => ip = caller
  BY CountedUnderItself
<1>3. fails' = [a \in Addresses |-> IF a = ip THEN Append(fresh0, now)
                                    ELSE IF a \in gone THEN <<>> ELSE fails[a]]
  BY DEF RecordFailure, Fresh
<1>4. guesses' = [a \in Callers |-> IF a = caller THEN Newest(Append(earlier(a), now), MaxFailures + 1)
                                    ELSE earlier(a)]
  BY DEF RecordFailure, Guessed
<1>5. ip \in Addresses =>
        /\ fresh0 \in Seq(Times) /\ InOrder(fresh0, now) /\ Len(fresh0) < MaxFailures
        /\ Append(fresh0, now) \in Seq(Times) /\ InOrder(Append(fresh0, now), now)
        /\ ip \in Callers => Covered(guesses[ip], fresh0, now)
  <2> SUFFICES ASSUME ip \in Addresses
               PROVE  /\ fresh0 \in Seq(Times) /\ InOrder(fresh0, now) /\ Len(fresh0) < MaxFailures
                      /\ Append(fresh0, now) \in Seq(Times) /\ InOrder(Append(fresh0, now), now)
                      /\ ip \in Callers => Covered(guesses[ip], fresh0, now)
    OBVIOUS
  <2>1. fresh0 \in Seq(Times) /\ InOrder(fresh0, now)
    BY <1>1, FreshIsTheRest, FreshInOrder
  <2>2. ip \in Callers => Covered(guesses[ip], fresh0, now)
    BY FreshCovers
  <2> HIDE DEF fresh0
  <2>3. Len(fresh0) < MaxFailures
    <3>1. ~(Len(fresh0) >= MaxFailures)
      BY DEF Locked, Fresh, fresh0
    <3>2. Len(fresh0) \in Nat
      BY <2>1, LenProperties
    <3> QED
      BY <1>1, <3>1, <3>2
  <2>4. Append(fresh0, now) \in Seq(Times) /\ InOrder(Append(fresh0, now), now)
    BY <1>1, <2>1, AppendInOrder
  <2> QED
    BY <2>1, <2>2, <2>3, <2>4
<1> HIDE DEF fresh0, gone
<1>6. ASSUME NEW a \in Addresses PROVE fails'[a] \in Seq(Times) /\ InOrder(fails'[a], now)
  BY <1>3, <1>5, NothingFailed
<1>7. ASSUME NEW a \in Callers
      PROVE  /\ guesses'[a] \in Seq(Times) /\ Past(guesses'[a], now)
             /\ Covered(guesses'[a], fails'[a], now) /\ Spaced(guesses'[a])
  <2>1. CASE a = caller
    <3>1. a = ip /\ ip \in Addresses /\ ip \in Callers
      BY <1>1, <1>2, <2>1
    <3>2. /\ earlier(a) \in Seq(Times) /\ Past(earlier(a), now)
          /\ Covered(earlier(a), fresh0, now) /\ Len(earlier(a)) <= MaxFailures + 1
      BY <1>5, <3>1, NothingFailed DEF Spaced
    <3>3. fails'[a] = Append(fresh0, now)
      BY <1>3, <3>1
    <3>4. guesses'[a] = Newest(Append(earlier(a), now), MaxFailures + 1)
      BY <1>4, <2>1
    <3>5. fresh0 \in Seq(Times) /\ Len(fresh0) < MaxFailures
      BY <1>5, <3>1
    <3> HIDE DEF earlier
    <3> QED
      BY <1>1, <3>2, <3>3, <3>4, <3>5, GuessCovers
  <2>2. CASE a # caller /\ a \in gone
    BY <1>4, <2>2, NothingFailed
  <2>3. CASE a # caller /\ a \notin gone
    <3>1. guesses'[a] = guesses[a]
      BY <1>4, <2>3
    <3>2. Covered(guesses[a], fails'[a], now)
      <4>1. CASE a = ip
        <5>1. fails'[a] = Append(fresh0, now)
          BY <1>1, <1>3, <4>1
        <5>2. fresh0 \in Seq(Times) /\ InOrder(fresh0, now) /\ Covered(guesses[a], fresh0, now)
          BY <1>1, <1>5, <4>1
        <5> QED
          BY <1>1, <5>1, <5>2, AppendCovers
      <4>2. CASE a # ip
        BY <1>1, <1>3, <2>3, <4>2
      <4> QED
        BY <4>1, <4>2
    <3> QED
      BY <3>1, <3>2
  <2> QED
    BY <2>1, <2>2, <2>3
<1>8. fails' \in [Addresses -> Seq(Times)] /\ guesses' \in [Callers -> Seq(Times)]
  <2>1. fails' = [a \in Addresses |-> fails'[a]] /\ guesses' = [a \in Callers |-> guesses'[a]]
    BY <1>3, <1>4
  <2> QED
    BY <1>6, <1>7, <2>1
<1> QED
  BY <1>1, <1>6, <1>7, <1>8

LEMMA LogInKeeps ==
  ASSUME ThrottleInv, NEW right, AnyLogin(right) PROVE ThrottleInv'
<1>1. PICK caller \in Addresses : \E ip \in CountedUnder(caller) : Login(ip, caller, right)
  BY DEF AnyLogin
<1>2. PICK ip \in CountedUnder(caller) : Login(ip, caller, right)
  BY <1>1
<1> QED
  BY <1>2, RefuseKeeps, SuccessKeeps, FailureKeeps DEF Login

LEMMA StepThrottleInv == ThrottleInv /\ [Next]_vars => ThrottleInv'
<1> SUFFICES ASSUME ThrottleInv, [Next]_vars PROVE ThrottleInv'
  OBVIOUS
<1>1. CASE LogIn
  BY <1>1, LogInKeeps DEF LogIn
<1>2. CASE TimePasses
  BY <1>2, TickKeeps DEF TimePasses
<1>3. CASE StartUp \/ UNCHANGED vars
  BY <1>3 DEF StartUp, vars, throttleVars, ThrottleInv
<1>4. CASE Die
  <2>1. now' = 0 /\ 0 \in Times
    BY <1>4, LimitsAssumption DEF Die, Times
  <2> QED
    BY <1>4, <2>1, NothingFailed DEF Die, ThrottleInv, Callers
<1> QED
  BY <1>1, <1>2, <1>3, <1>4 DEF Next

\* A caller that is not a proxy of ours gets at most MaxFailures wrong
\* passwords tested in any window, whatever the limits, the proxies and the
\* headers it forges.
THEOREM GuessesAreBounded == Spec => []GuessesBounded
<1>1. ThrottleInv => GuessesBounded
  BY DEF ThrottleInv, Spaced, GuessesBounded, Age
<1> QED
  BY <1>1, InitThrottleInv, StepThrottleInv, PTL DEF Spec, Init
-----------------------------------------------------------------------------
(* The table: who is tracked, in which order.                              *)

Holds(s, a) == \E i \in DOMAIN s : s[i] = a
Distinct(s) == \A i, j \in DOMAIN s : s[i] = s[j] => i = j

\* What stands in r in some order stands in s in that order.
KeepsOrder(r, s) ==
    \A i, j \in DOMAIN r : i <= j =>
        \E k, l \in DOMAIN s : k <= l /\ r[i] = s[k] /\ r[j] = s[l]

\* A sequence whose entries are distinct has as many as there are.
LEMMA DistinctCounts ==
  ASSUME NEW S, NEW s \in Seq(S), Distinct(s)
  PROVE  LET T == {a \in S : Holds(s, a)} IN
           IsFiniteSet(T) /\ Cardinality(T) = Len(s)
<1> DEFINE T == {a \in S : Holds(s, a)}
<1>1. Len(s) \in Nat /\ DOMAIN s = 1 .. Len(s) /\ s \in [1 .. Len(s) -> S]
  BY LenProperties
<1>2. s \in [1 .. Len(s) -> T]
  BY <1>1 DEF Holds
<1>3. s \in Bijection(1 .. Len(s), T)
  BY <1>1, <1>2 DEF Distinct, Holds, Bijection, Injection, Surjection, IsInjective
<1>4. ExistsBijection(1 .. Len(s), T)
  BY <1>3 DEF ExistsBijection
<1>5. IsFiniteSet(1 .. Len(s)) /\ Cardinality(1 .. Len(s)) = Len(s)
  <2>1. IsFiniteSet(1 .. Len(s))
        /\ Cardinality(1 .. Len(s)) = IF 1 > Len(s) THEN 0 ELSE Len(s) - 1 + 1
    BY <1>1, FS_Interval
  <2> QED
    BY <1>1, <2>1
<1> HIDE DEF T
<1>6. IsFiniteSet(T) /\ Cardinality(T) = Len(s)
  BY <1>4, <1>5, FS_Bijection
<1> QED
  BY <1>6 DEF T

\* Taking a key out of the table's order.
LEMMA WithoutRemoves ==
  ASSUME NEW s \in Seq(Addresses), Distinct(s), NEW ip
  PROVE  LET r == Without(s, ip) IN
           /\ r \in Seq(Addresses) /\ Distinct(r) /\ KeepsOrder(r, s)
           /\ \A a : Holds(r, a) <=> Holds(s, a) /\ a # ip
           /\ Len(r) = IF Holds(s, ip) THEN Len(s) - 1 ELSE Len(s)
<1> DEFINE r == Without(s, ip)
           n == Len(s)
<1>1. n \in Nat /\ DOMAIN s = 1 .. n /\ \A i \in 1 .. n : s[i] \in Addresses
  BY LenProperties, ElementOfSeq
<1>2. CASE ~Holds(s, ip)
  <2>1. r = s
    BY <1>2 DEF Without, Holds
  <2>2. KeepsOrder(s, s)
    BY DEF KeepsOrder
  <2> QED
    BY <1>2, <2>1, <2>2 DEF Holds
<1>3. CASE Holds(s, ip)
  <2> DEFINE p == CHOOSE i \in DOMAIN s : s[i] = ip
             at(k) == IF k < p THEN k ELSE k + 1
  <2>1. p \in 1 .. n /\ s[p] = ip
    BY <1>1, <1>3 DEF Holds
  <2>2. r = [k \in 1 .. n - 1 |-> s[at(k)]]
    BY <1>3 DEF Without, Holds
  <2> HIDE DEF p, r
  <2>3. n - 1 \in Nat /\ \A k \in 1 .. n - 1 : at(k) \in 1 .. n /\ at(k) # p
    BY <1>1, <2>1
  <2>4. /\ \A k, l \in 1 .. n - 1 : at(k) = at(l) => k = l
        /\ \A k, l \in 1 .. n - 1 : k <= l => at(k) <= at(l)
    BY <1>1, <2>1
  <2>5. ASSUME NEW i \in 1 .. n, i # p
        PROVE  \E k \in 1 .. n - 1 : at(k) = i
    <3>1. CASE i < p
      <4>1. i \in 1 .. n - 1 /\ at(i) = i
        BY <1>1, <2>1, <3>1
      <4> QED
        BY <4>1
    <3>2. CASE ~(i < p)
      <4>1. i - 1 \in 1 .. n - 1 /\ at(i - 1) = i
        BY <1>1, <2>1, <2>5, <3>2
      <4> QED
        BY <4>1
    <3> QED
      BY <3>1, <3>2
  <2> HIDE DEF at
  <2>6. r \in [1 .. n - 1 -> Addresses] /\ DOMAIN r = 1 .. n - 1
    BY <1>1, <2>2, <2>3
  <2>7. r \in Seq(Addresses) /\ Len(r) = n - 1
    <3>1. r \in UNION {[1 .. m -> Addresses] : m \in Nat}
      BY <2>3, <2>6
    <3>2. r \in Seq(Addresses)
      BY <3>1, SeqDef
    <3> QED
      BY <2>3, <2>6, <3>2, LenProperties
  <2>8. \A k \in DOMAIN r : r[k] = s[at(k)]
    BY <2>2, <2>6
  <2>9. Distinct(r)
    BY <1>1, <2>3, <2>4, <2>6, <2>8 DEF Distinct
  <2>10. KeepsOrder(r, s)
    BY <1>1, <2>3, <2>4, <2>6, <2>8 DEF KeepsOrder
  <2>11. ASSUME NEW a PROVE Holds(r, a) <=> Holds(s, a) /\ a # ip
    <3>1. ASSUME NEW k \in DOMAIN r, r[k] = a PROVE Holds(s, a) /\ a # ip
      <4>1. at(k) \in DOMAIN s /\ s[at(k)] = a /\ at(k) # p
        BY <1>1, <2>3, <2>6, <2>8, <3>1
      <4>2. p \in DOMAIN s
        BY <1>1, <2>1
      <4> QED
        BY <2>1, <4>1, <4>2 DEF Holds, Distinct
    <3>2. ASSUME NEW i \in DOMAIN s, s[i] = a, a # ip PROVE Holds(r, a)
      <4>1. PICK k \in 1 .. n - 1 : at(k) = i
        BY <1>1, <2>1, <2>5, <3>2
      <4> QED
        BY <2>6, <2>8, <3>2, <4>1 DEF Holds
    <3> QED
      BY <3>1, <3>2 DEF Holds
  <2> USE DEF r
  <2> QED
    BY <1>3, <2>7, <2>9, <2>10, <2>11
<1> QED
  BY <1>2, <1>3

\* Popping the least recently touched one.
LEMMA TailRemoves ==
  ASSUME NEW s \in Seq(Addresses), Distinct(s), s # <<>>
  PROVE  LET r == Tail(s) IN
           /\ r \in Seq(Addresses) /\ Distinct(r) /\ KeepsOrder(r, s)
           /\ \A a : Holds(r, a) <=> Holds(s, a) /\ a # Head(s)
           /\ Len(r) = Len(s) - 1
           /\ 1 \in DOMAIN s /\ Head(s) = s[1]
<1> DEFINE r == Tail(s)
           n == Len(s)
<1>1. n \in Nat \ {0} /\ DOMAIN s = 1 .. n /\ Head(s) = s[1]
  BY LenProperties, EmptySeq
<1>2. r \in Seq(Addresses) /\ Len(r) = n - 1 /\ \A i \in 1 .. n - 1 : r[i] = s[i + 1]
  BY HeadTailProperties
<1> HIDE DEF r
<1>3. DOMAIN r = 1 .. n - 1
  BY <1>2, LenProperties
<1>4. \A i \in DOMAIN r : i + 1 \in DOMAIN s /\ i + 1 # 1 /\ r[i] = s[i + 1]
  BY <1>1, <1>2, <1>3
<1>5. Distinct(r)
  <2> SUFFICES ASSUME NEW i \in DOMAIN r, NEW j \in DOMAIN r, r[i] = r[j] PROVE i = j
    BY DEF Distinct
  <2>1. i + 1 = j + 1
    BY <1>4 DEF Distinct
  <2> QED
    BY <1>3, <2>1
<1>6. KeepsOrder(r, s)
  <2> SUFFICES ASSUME NEW i \in DOMAIN r, NEW j \in DOMAIN r, i <= j
               PROVE  \E k, l \in DOMAIN s : k <= l /\ r[i] = s[k] /\ r[j] = s[l]
    BY DEF KeepsOrder
  <2>1. i + 1 <= j + 1
    BY <1>1, <1>3
  <2> QED
    BY <1>4, <2>1
<1>7. ASSUME NEW a PROVE Holds(r, a) <=> Holds(s, a) /\ a # Head(s)
  <2>1. ASSUME NEW i \in DOMAIN r, r[i] = a PROVE Holds(s, a) /\ a # Head(s)
    <3>1. 1 \in DOMAIN s
      BY <1>1
    <3> QED
      BY <1>1, <1>4, <2>1, <3>1 DEF Holds, Distinct
  <2>2. ASSUME NEW i \in DOMAIN s, s[i] = a, a # Head(s) PROVE Holds(r, a)
    <3>1. i - 1 \in DOMAIN r /\ i - 1 + 1 = i
      BY <1>1, <1>3, <2>2
    <3> QED
      BY <1>4, <2>2, <3>1 DEF Holds
  <2> QED
    BY <2>1, <2>2 DEF Holds
<1> USE DEF r
<1> QED
  BY <1>1, <1>2, <1>5, <1>6, <1>7
LastOf(f, a) == f[a][Len(f[a])]

\* The table's order is the order of the last failures.
Sorted(s, f) ==
    \A i, j \in DOMAIN s : i <= j => LastOf(f, s[i]) <= LastOf(f, s[j])

TableInv ==
    /\ order \in Seq(Addresses) /\ Distinct(order)
    /\ \A a \in Addresses : Holds(order, a) <=> fails[a] # <<>>
    /\ \A a \in Addresses : Len(fails[a]) <= MaxFailures
    /\ Len(order) <= MaxTracked
    /\ Sorted(order, fails)

LEMMA StaysSorted ==
  ASSUME NEW s, NEW f, Sorted(s, f), NEW r, KeepsOrder(r, s), NEW g,
         \A a : Holds(r, a) => g[a] = f[a]
  PROVE  Sorted(r, g)
<1> SUFFICES ASSUME NEW i \in DOMAIN r, NEW j \in DOMAIN r, i <= j
             PROVE  LastOf(g, r[i]) <= LastOf(g, r[j])
  BY DEF Sorted
<1>1. PICK k \in DOMAIN s, l \in DOMAIN s : k <= l /\ r[i] = s[k] /\ r[j] = s[l]
  BY DEF KeepsOrder
<1>2. g[r[i]] = f[s[k]] /\ g[r[j]] = f[s[l]]
  BY <1>1 DEF Holds
<1> QED
  BY <1>1, <1>2 DEF Sorted, LastOf

\* There are as many tracked addresses as the table's order has entries.
LEMMA TrackedCounts ==
  ASSUME TableInv
  PROVE  IsFiniteSet(Tracked) /\ Cardinality(Tracked) = Len(order)
<1>1. Tracked = {a \in Addresses : Holds(order, a)}
  BY DEF TableInv, Tracked
<1> QED
  BY <1>1, DistinctCounts DEF TableInv

LEMMA LastIsPast ==
  ASSUME ThrottleInv, NEW a \in Addresses, fails[a] # <<>>
  PROVE  LastOf(fails, a) \in Nat /\ LastOf(fails, a) <= now
<1>1. fails[a] \in Seq(Times) /\ InOrder(fails[a], now)
  BY DEF ThrottleInv
<1>2. Len(fails[a]) \in 1 .. Len(fails[a])
  BY <1>1, EmptySeq
<1> QED
  BY <1>1, <1>2, ElementOfSeq, LimitsAssumption DEF LastOf, InOrder, Times

\* What a failure leaves of the others: the order they had, and room for one.
\* Whoever is displaced failed before all of them, and they fill the table.
LEMMA OthersStay ==
  ASSUME ThrottleInv, TableInv, NEW ip \in Addresses
  PROVE  LET rest == Others(ip) IN
           /\ rest \in Seq(Addresses) /\ Distinct(rest) /\ KeepsOrder(rest, order)
           /\ \A a : Holds(rest, a) <=> Holds(order, a) /\ a # ip /\ a \notin Evicted(ip)
           /\ Len(rest) < MaxTracked
           /\ \A a \in Evicted(ip) :
                 /\ a \in Addresses /\ a # ip
                 /\ Len(rest) = MaxTracked - 1
                 /\ \A b : Holds(rest, b) => LastOf(fails, a) <= LastOf(fails, b)
<1> DEFINE left == Without(order, ip)
           full == Cardinality(Tracked \ {ip}) >= MaxTracked
<1>1. /\ left \in Seq(Addresses) /\ Distinct(left) /\ KeepsOrder(left, order)
      /\ \A a : Holds(left, a) <=> Holds(order, a) /\ a # ip
      /\ Len(left) = IF Holds(order, ip) THEN Len(order) - 1 ELSE Len(order)
  BY WithoutRemoves DEF TableInv
<1>2. /\ Len(order) \in Nat /\ Len(left) \in Nat /\ Len(left) <= Len(order)
      /\ Len(order) <= MaxTracked /\ MaxTracked \in Nat \ {0}
      /\ DOMAIN order = 1 .. Len(order)
  BY <1>1, LenProperties, LimitsAssumption DEF TableInv
<1>3. Cardinality(Tracked \ {ip}) = Len(left)
  <2>1. Tracked \ {ip} = {a \in Addresses : Holds(left, a)}
    BY <1>1 DEF TableInv, Tracked
  <2> QED
    BY <1>1, <2>1, DistinctCounts
<1>4. Evicted(ip) = IF Fresh(ip) = <<>> /\ full THEN {Head(left)} ELSE {}
  BY DEF Evicted
<1> HIDE DEF left
<1>5. CASE Fresh(ip) = <<>> /\ full
  <2>1. Evicted(ip) = {Head(left)} /\ Others(ip) = Tail(left)
    BY <1>4, <1>5 DEF Others, left
  <2>2. left # <<>> /\ Len(left) = MaxTracked
    <3>1. Len(left) = MaxTracked
      BY <1>2, <1>3, <1>5
    <3> QED
      BY <1>2, <3>1, EmptySeq
  <2>3. /\ Tail(left) \in Seq(Addresses) /\ Distinct(Tail(left)) /\ KeepsOrder(Tail(left), left)
        /\ \A a : Holds(Tail(left), a) <=> Holds(left, a) /\ a # Head(left)
        /\ Len(Tail(left)) = MaxTracked - 1
        /\ 1 \in DOMAIN left /\ Head(left) = left[1]
    BY <1>1, <2>2, TailRemoves
  <2>4. KeepsOrder(Tail(left), order)
    <3> SUFFICES ASSUME NEW i \in DOMAIN Tail(left), NEW j \in DOMAIN Tail(left), i <= j
                 PROVE  \E k, l \in DOMAIN order :
                           k <= l /\ Tail(left)[i] = order[k] /\ Tail(left)[j] = order[l]
      BY DEF KeepsOrder
    <3>1. PICK k \in DOMAIN left, l \in DOMAIN left :
             k <= l /\ Tail(left)[i] = left[k] /\ Tail(left)[j] = left[l]
      BY <2>3 DEF KeepsOrder
    <3>2. PICK m \in DOMAIN order, n \in DOMAIN order :
             m <= n /\ left[k] = order[m] /\ left[l] = order[n]
      BY <1>1, <3>1 DEF KeepsOrder
    <3> QED
      BY <3>1, <3>2
  <2>5. Holds(left, Head(left))
    BY <2>3 DEF Holds
  <2>6. Head(left) \in Addresses /\ Head(left) # ip
    BY <1>1, <2>2, <2>5, HeadTailProperties
  <2>7. ASSUME NEW b, Holds(left, b)
        PROVE  LastOf(fails, Head(left)) <= LastOf(fails, b)
    <3>1. PICK j \in DOMAIN left : left[j] = b
      BY <2>7 DEF Holds
    <3>2. 1 <= j
      BY <1>1, <3>1, LenProperties
    <3>3. PICK k \in DOMAIN order, l \in DOMAIN order :
             k <= l /\ left[1] = order[k] /\ left[j] = order[l]
      BY <1>1, <2>3, <3>1, <3>2 DEF KeepsOrder
    <3> QED
      BY <2>3, <3>1, <3>3 DEF TableInv, Sorted
  <2> DEFINE rest == Tail(left)
             oldest == Head(left)
  <2>8. \A a : Holds(rest, a) <=> Holds(order, a) /\ a # ip /\ a \notin {oldest}
    BY <1>1, <2>3
  <2>9. Len(rest) = MaxTracked - 1 /\ Len(rest) < MaxTracked
    BY <1>2, <2>3
  <2>10. \A b : Holds(rest, b) => LastOf(fails, oldest) <= LastOf(fails, b)
    BY <2>3, <2>7
  <2>11. rest \in Seq(Addresses) /\ Distinct(rest)
    BY <2>3
  <2> HIDE DEF rest, oldest
  <2>12. \A a \in {oldest} :
            /\ a \in Addresses /\ a # ip /\ Len(rest) = MaxTracked - 1
            /\ \A b : Holds(rest, b) => LastOf(fails, a) <= LastOf(fails, b)
    BY <2>6, <2>9, <2>10 DEF oldest
  <2>13. Others(ip) = rest /\ Evicted(ip) = {oldest} /\ KeepsOrder(rest, order)
    BY <2>1, <2>4 DEF rest, oldest
  <2> QED
    BY <2>8, <2>9, <2>11, <2>12, <2>13
<1>6. CASE ~(Fresh(ip) = <<>> /\ full)
  <2>1. Evicted(ip) = {} /\ Others(ip) = left
    BY <1>4, <1>6 DEF Others, left
  <2>2. Len(left) < MaxTracked
    <3>1. CASE Fresh(ip) # <<>>
      <4>1. fails[ip] \in Seq(Times) /\ now \in Nat
        BY DEF ThrottleInv, Times
      <4>2. Fresh(ip) \in Seq(Times) /\ Len(Fresh(ip)) <= Len(fails[ip])
        BY <4>1, FreshIsTheRest DEF Fresh
      <4>3. Len(Fresh(ip)) \in Nat \ {0} /\ Len(fails[ip]) \in Nat
        BY <3>1, <4>1, <4>2, EmptySeq, LenProperties
      <4>4. fails[ip] # <<>>
        <5>1. Len(fails[ip]) # 0
          BY <4>2, <4>3
        <5> QED
          BY <5>1, EmptySeq
      <4>5. Holds(order, ip)
        BY <4>4 DEF TableInv
      <4> QED
        BY <1>1, <1>2, <4>5
    <3>2. CASE ~full
      BY <1>2, <1>3, <3>2
    <3> QED
      BY <1>6, <3>1, <3>2
  <2> QED
    BY <1>1, <2>1, <2>2
<1> QED
  BY <1>5, <1>6
\* The steps of the table, each with what it does to a lock.
LEMMA RefuseTable ==
  ASSUME ThrottleInv, TableInv, NEW ip \in Addresses, Locked(ip), Refuse(ip), UNCHANGED now
  PROVE  TableInv' /\ LockKept
<1>0. now \in Times /\ now \in Nat /\ MaxFailures \in Nat \ {0} /\ now' = now
  BY LimitsAssumption DEF ThrottleInv, Times
<1>1. /\ fails[ip] \in Seq(Times) /\ InOrder(fails[ip], now)
      /\ fails \in [Addresses -> Seq(Times)]
  BY DEF ThrottleInv
<1> DEFINE r == FreshAt(fails[ip], now)
<1>2. /\ r \in Seq(Times) /\ Len(r) \in Nat /\ Len(r) <= Len(fails[ip]) /\ Len(fails[ip]) \in Nat
      /\ \A j \in 0 .. Len(r) - 1 : Back(r, j) = Back(fails[ip], j)
  BY <1>0, <1>1, FreshIsTheRest, LenProperties
<1>3. /\ fails' = [fails EXCEPT ![ip] = r] /\ order' = order
  BY DEF Refuse, Fresh
<1>4. Len(r) >= MaxFailures
  BY DEF Locked, Fresh
<1>5. Len(FreshAt(r, now)) = Len(r)
  BY <1>0, <1>1, FreshAgain
<1> HIDE DEF r
<1>6. r # <<>> /\ fails[ip] # <<>>
  <2>1. Len(r) # 0 /\ Len(fails[ip]) # 0
    BY <1>0, <1>2, <1>4
  <2> QED
    BY <2>1, EmptySeq
<1>7. LastOf(fails', ip) = LastOf(fails, ip)
  <2>1. 0 \in 0 .. Len(r) - 1
    BY <1>0, <1>2, <1>4
  <2>2. Back(r, 0) = Back(fails[ip], 0)
    BY <1>2, <2>1
  <2> QED
    BY <1>1, <1>2, <1>3, <2>2 DEF LastOf, Back
<1>8. \A a \in Addresses \ {ip} : fails'[a] = fails[a]
  BY <1>1, <1>3
<1>9. fails'[ip] = r
  BY <1>1, <1>3
<1>10. \A a \in Addresses : LastOf(fails', a) = LastOf(fails, a)
  BY <1>7, <1>8 DEF LastOf
<1>11. Sorted(order, fails')
  <2>1. \A i \in DOMAIN order : order[i] \in Addresses
    BY LenProperties, ElementOfSeq DEF TableInv
  <2> QED
    BY <1>10, <2>1 DEF TableInv, Sorted
<1>12. TableInv'
  <2>1. \A a \in Addresses : Len(fails'[a]) <= MaxFailures
    BY <1>0, <1>2, <1>8, <1>9 DEF TableInv
  <2>2. \A a \in Addresses : Holds(order, a) <=> fails'[a] # <<>>
    BY <1>6, <1>8, <1>9 DEF TableInv
  <2> QED
    BY <1>3, <1>11, <2>1, <2>2 DEF TableInv, Sorted, Distinct, Holds, LastOf
<1>13. \A a \in Addresses : Locked(a) => Locked(a)'
  BY <1>0, <1>4, <1>5, <1>8, <1>9 DEF Locked, Fresh
<1> QED
  BY <1>12, <1>13 DEF LockKept

LEMMA SuccessTable ==
  ASSUME ThrottleInv, TableInv, NEW ip \in Addresses, ~Locked(ip), RecordSuccess(ip), UNCHANGED now
  PROVE  TableInv' /\ LockKept
<1>1. /\ fails \in [Addresses -> Seq(Times)] /\ now' = now
      /\ fails' = [fails EXCEPT ![ip] = <<>>] /\ order' = Without(order, ip)
  BY DEF ThrottleInv, RecordSuccess
<1>2. \A a \in Addresses : fails'[a] = IF a = ip THEN <<>> ELSE fails[a]
  BY <1>1
<1>3. /\ order' \in Seq(Addresses) /\ Distinct(order') /\ KeepsOrder(order', order)
      /\ \A a : Holds(order', a) <=> Holds(order, a) /\ a # ip
      /\ Len(order') = IF Holds(order, ip) THEN Len(order) - 1 ELSE Len(order)
  BY <1>1, WithoutRemoves DEF TableInv
<1>4. \A i \in DOMAIN order' : order'[i] \in Addresses
  BY <1>3, LenProperties, ElementOfSeq
<1>5. \A a : Holds(order', a) => fails'[a] = fails[a]
  BY <1>2, <1>3, <1>4 DEF Holds
<1>6. Sorted(order', fails')
  BY <1>3, <1>5, StaysSorted DEF TableInv
<1>7. \A a \in Addresses : Holds(order', a) <=> fails'[a] # <<>>
  BY <1>2, <1>3 DEF TableInv
<1>8. \A a \in Addresses : Len(fails'[a]) <= MaxFailures
  <2>1. Len(<<>>) = 0 /\ MaxFailures \in Nat
    BY LimitsAssumption
  <2> QED
    BY <1>2, <2>1 DEF TableInv
<1>9. Len(order') <= MaxTracked
  <2>1. Len(order) \in Nat /\ Len(order) <= MaxTracked /\ MaxTracked \in Nat
    BY LenProperties, LimitsAssumption DEF TableInv
  <2> QED
    BY <1>3, <2>1
<1>10. TableInv'
  BY <1>3, <1>6, <1>7, <1>8, <1>9 DEF TableInv, Sorted, Distinct, Holds, LastOf
<1>11. \A a \in Addresses : Locked(a) => Locked(a)'
  BY <1>1, <1>2 DEF Locked, Fresh
<1> QED
  BY <1>10, <1>11 DEF LockKept

LEMMA FailureTable ==
  ASSUME ThrottleInv, TableInv, NEW ip \in Addresses, NEW caller, ~Locked(ip),
         RecordFailure(ip, caller), UNCHANGED now
  PROVE  TableInv' /\ LockKept
<1> DEFINE r == FreshAt(fails[ip], now)
           gone == Evicted(ip)
           rest == Others(ip)
<1>0. /\ now \in Times /\ now \in Nat /\ now' = now
      /\ MaxFailures \in Nat \ {0} /\ MaxTracked \in Nat \ {0}
  BY LimitsAssumption DEF ThrottleInv, Times
<1>1. /\ fails[ip] \in Seq(Times) /\ InOrder(fails[ip], now)
      /\ fails \in [Addresses -> Seq(Times)]
  BY DEF ThrottleInv
<1>2. r \in Seq(Times) /\ Len(r) \in Nat
  BY <1>0, <1>1, FreshIsTheRest, LenProperties
<1>3. Len(r) < MaxFailures
  <2>1. ~(Len(r) >= MaxFailures)
    BY DEF Locked, Fresh
  <2> QED
    BY <1>0, <1>2, <2>1
<1>4. /\ rest \in Seq(Addresses) /\ Distinct(rest) /\ KeepsOrder(rest, order)
      /\ \A a : Holds(rest, a) <=> Holds(order, a) /\ a # ip /\ a \notin gone
      /\ Len(rest) < MaxTracked
      /\ \A a \in gone : /\ a \in Addresses /\ a # ip
                         /\ Len(rest) = MaxTracked - 1
                         /\ \A b : Holds(rest, b) => LastOf(fails, a) <= LastOf(fails, b)
  BY OthersStay
<1>5. /\ fails' = [a \in Addresses |-> CASE a = ip -> Append(r, now)
                                         [] a \in gone \ {ip} -> <<>>
                                         [] OTHER -> fails[a]]
      /\ order' = Append(rest, ip)
  BY DEF RecordFailure, Fresh, Touch
<1> HIDE DEF r, gone, rest
<1>6. /\ fails'[ip] = Append(r, now)
      /\ \A a \in Addresses \ {ip} : fails'[a] = IF a \in gone THEN <<>> ELSE fails[a]
  BY <1>5
<1>7. /\ Append(r, now) \in Seq(Times) /\ Append(r, now) # <<>>
      /\ Len(Append(r, now)) = Len(r) + 1
      /\ Append(r, now)[Len(r) + 1] = now
  BY <1>0, <1>2, AppendProperties
<1>8. LastOf(fails', ip) = now
  BY <1>6, <1>7 DEF LastOf
<1> DEFINE n == Len(rest)
<1>9. /\ n \in Nat /\ DOMAIN rest = 1 .. n
      /\ order' \in Seq(Addresses) /\ Len(order') = n + 1 /\ DOMAIN order' = 1 .. n + 1
      /\ \A i \in 1 .. n : order'[i] = rest[i]
      /\ order'[n + 1] = ip
  <2>1. n \in Nat /\ DOMAIN rest = 1 .. n
    BY <1>4, LenProperties
  <2>2. /\ order' \in Seq(Addresses) /\ Len(order') = n + 1
        /\ \A i \in 1 .. n : order'[i] = rest[i]
        /\ order'[n + 1] = ip
    BY <1>4, <1>5, AppendProperties
  <2>3. DOMAIN order' = 1 .. n + 1
    BY <2>2, LenProperties
  <2> QED
    BY <2>1, <2>2, <2>3
<1> HIDE DEF n
<1>10. \A i \in 1 .. n : rest[i] \in Addresses /\ rest[i] # ip /\ rest[i] \notin gone
                         /\ Holds(rest, rest[i]) /\ fails'[rest[i]] = fails[rest[i]]
  <2> SUFFICES ASSUME NEW i \in 1 .. n
               PROVE  rest[i] \in Addresses /\ rest[i] # ip /\ rest[i] \notin gone
                      /\ Holds(rest, rest[i]) /\ fails'[rest[i]] = fails[rest[i]]
    OBVIOUS
  <2>1. Holds(rest, rest[i])
    BY <1>9 DEF Holds
  <2>2. rest[i] \in Addresses
    BY <1>4, ElementOfSeq DEF n
  <2> QED
    BY <1>4, <1>6, <2>1, <2>2
<1>11. \A a : Holds(order', a) <=> Holds(rest, a) \/ a = ip
  BY <1>9 DEF Holds
<1>12. Distinct(order')
  <2> SUFFICES ASSUME NEW i \in 1 .. n + 1, NEW j \in 1 .. n + 1, order'[i] = order'[j]
               PROVE  i = j
    BY <1>9 DEF Distinct
  <2>1. CASE i \in 1 .. n /\ j \in 1 .. n
    BY <1>4, <1>9, <2>1 DEF Distinct
  <2>2. CASE i \in 1 .. n /\ j = n + 1
    BY <1>9, <1>10, <2>2
  <2>3. CASE i = n + 1 /\ j \in 1 .. n
    BY <1>9, <1>10, <2>3
  <2> QED
    BY <1>9, <2>1, <2>2, <2>3
<1>13. Sorted(rest, fails')
  <2>1. \A a : Holds(rest, a) => fails'[a] = fails[a]
    BY <1>9, <1>10 DEF Holds
  <2> QED
    BY <1>4, <2>1, StaysSorted DEF TableInv
<1>14. \A i \in 1 .. n : LastOf(fails', rest[i]) <= now
  <2> SUFFICES ASSUME NEW i \in 1 .. n PROVE LastOf(fails', rest[i]) <= now
    OBVIOUS
  <2>1. rest[i] \in Addresses /\ Holds(order, rest[i]) /\ fails'[rest[i]] = fails[rest[i]]
    BY <1>4, <1>10
  <2>2. fails[rest[i]] # <<>>
    BY <2>1 DEF TableInv
  <2>3. LastOf(fails, rest[i]) <= now
    BY <2>1, <2>2, LastIsPast
  <2> QED
    BY <2>1, <2>3 DEF LastOf
<1>15. Sorted(order', fails')
  <2> SUFFICES ASSUME NEW i \in 1 .. n + 1, NEW j \in 1 .. n + 1, i <= j
               PROVE  LastOf(fails', order'[i]) <= LastOf(fails', order'[j])
    BY <1>9 DEF Sorted
  <2>1. CASE j \in 1 .. n
    <3>1. i \in 1 .. n
      BY <1>9, <2>1
    <3> QED
      BY <1>9, <1>13, <2>1, <3>1 DEF Sorted
  <2>2. CASE i \in 1 .. n /\ j = n + 1
    BY <1>8, <1>9, <1>14, <2>2
  <2>3. CASE i = n + 1 /\ j = n + 1
    BY <1>0, <1>8, <1>9, <2>3
  <2> QED
    BY <1>9, <2>1, <2>2, <2>3
<1>16. \A a \in Addresses : Holds(order', a) <=> fails'[a] # <<>>
  <2> SUFFICES ASSUME NEW a \in Addresses PROVE Holds(order', a) <=> fails'[a] # <<>>
    OBVIOUS
  <2>1. CASE a = ip
    BY <1>6, <1>7, <1>11, <2>1
  <2>2. CASE a # ip
    BY <1>4, <1>6, <1>11, <2>2 DEF TableInv
  <2> QED
    BY <2>1, <2>2
<1>17. \A a \in Addresses : Len(fails'[a]) <= MaxFailures
  <2> SUFFICES ASSUME NEW a \in Addresses PROVE Len(fails'[a]) <= MaxFailures
    OBVIOUS
  <2>1. Len(<<>>) = 0
    OBVIOUS
  <2> QED
    BY <1>0, <1>2, <1>3, <1>6, <1>7, <2>1 DEF TableInv
<1>18. Len(order') <= MaxTracked
  <2>1. n < MaxTracked
    BY <1>4 DEF n
  <2> QED
    BY <1>0, <1>9, <2>1
<1>19. TableInv'
  BY <1>9, <1>12, <1>15, <1>16, <1>17, <1>18 DEF TableInv, Sorted, Distinct, Holds, LastOf
<1>20. ASSUME NEW a \in Addresses, Locked(a), ~Locked(a)' PROVE Displaced(a)
  <2>1. a \in gone
    <3>1. a # ip
      BY <1>20
    <3> QED
      BY <1>0, <1>6, <1>20, <3>1 DEF Locked, Fresh
  <2>2. a # ip /\ n + 1 = MaxTracked /\ a \in Addresses
        /\ \A b : Holds(rest, b) => LastOf(fails, a) <= LastOf(fails, b)
    BY <1>0, <1>4, <2>1 DEF n
  <2>3. fails[a] # <<>>
    <3>1. fails[a] \in Seq(Times) /\ Len(Fresh(a)) >= MaxFailures
      BY <1>1, <1>20 DEF Locked
    <3>2. Len(Fresh(a)) <= Len(fails[a]) /\ Fresh(a) \in Seq(Times)
      BY <1>0, <3>1, FreshIsTheRest DEF Fresh
    <3>3. Len(fails[a]) # 0
      BY <1>0, <3>1, <3>2, LenProperties
    <3> QED
      BY <3>3, EmptySeq
  <2>4. LastOf(fails, a) \in Nat /\ LastOf(fails, a) <= now
    BY <2>3, LastIsPast
  <2> DEFINE later == {b \in Addresses \ {a} :
                          fails'[b] # <<>> /\ LastFailure(b)' >= LastFailure(a)}
             listed == {b \in Addresses : Holds(order', b)}
  <2>5. IsFiniteSet(listed) /\ Cardinality(listed) = MaxTracked
    BY <1>9, <1>12, <2>2, DistinctCounts
  <2>6. ASSUME NEW b \in listed PROVE b \in later
    <3>1. fails'[b] # <<>> /\ (Holds(rest, b) \/ b = ip)
      BY <1>11, <1>16
    <3>2. b # a
      BY <1>4, <2>1, <2>2, <3>1
    <3>3. LastFailure(b)' >= LastFailure(a)
      <4>1. CASE b = ip
        BY <1>0, <1>8, <2>4, <4>1 DEF LastOf, LastFailure
      <4>2. CASE Holds(rest, b)
        <5>1. LastOf(fails, a) <= LastOf(fails, b) /\ fails'[b] = fails[b]
              /\ fails[b] # <<>>
          BY <1>4, <1>6, <2>2, <4>2 DEF TableInv
        <5>2. LastOf(fails, b) \in Nat
          BY <5>1, LastIsPast
        <5> QED
          BY <2>4, <5>1, <5>2 DEF LastOf, LastFailure
      <4> QED
        BY <3>1, <4>1, <4>2
    <3> QED
      BY <3>1, <3>2, <3>3
  <2>7. later \subseteq listed
    BY <1>16
  <2> HIDE DEF later, listed
  <2>8. later = listed
    BY <2>6, <2>7
  <2>9. Cardinality(later) >= MaxTracked
    BY <1>0, <2>5, <2>8
  <2> QED
    BY <2>9 DEF Displaced, later
<1> QED
  BY <1>19, <1>20 DEF LockKept
LEMMA LogInTable ==
  ASSUME ThrottleInv, TableInv, NEW right, AnyLogin(right) PROVE TableInv' /\ LockKept
<1>1. PICK caller \in Addresses : \E ip \in CountedUnder(caller) : Login(ip, caller, right)
  BY DEF AnyLogin
<1>2. PICK ip \in CountedUnder(caller) : Login(ip, caller, right)
  BY <1>1
<1>3. ip \in Addresses
  BY CountedUnderAddress
<1> QED
  BY <1>2, <1>3, RefuseTable, SuccessTable, FailureTable DEF Login

LEMMA InitTableInv == ThrottleInit => TableInv
<1> SUFFICES ASSUME ThrottleInit PROVE TableInv
  OBVIOUS
<1>1. /\ order = <<>> /\ order \in Seq(Addresses) /\ Len(order) = 0 /\ DOMAIN order = {}
      /\ \A a \in Addresses : fails[a] = <<>>
  BY EmptySeq DEF ThrottleInit
<1> QED
  BY <1>1, LimitsAssumption DEF TableInv, Distinct, Holds, Sorted

\* A step of the process keeps the table in order, and its locks as long as
\* it runs.
LEMMA StepTable ==
  ASSUME ThrottleInv, TableInv, [Next]_vars
  PROVE  TableInv' /\ (phase' = "up" => LockKept)
<1>1. CASE LogIn
  BY <1>1, LogInTable DEF LogIn
<1>2. CASE TimePasses
  <2>1. UNCHANGED <<fails, order>> /\ now' # now
    BY <1>2 DEF TimePasses, Tick, ThrottleInv, Times
  <2> QED
    BY <2>1 DEF TableInv, Distinct, Holds, Sorted, LastOf, LockKept
<1>3. CASE StartUp \/ UNCHANGED vars
  <2>1. UNCHANGED <<now, fails, order>>
    BY <1>3 DEF StartUp, vars, throttleVars
  <2> QED
    BY <2>1 DEF TableInv, Distinct, Holds, Sorted, LastOf, LockKept, Locked, Fresh
<1>4. CASE Die
  <2>1. /\ order' = <<>> /\ order' \in Seq(Addresses) /\ Len(order') = 0 /\ DOMAIN order' = {}
        /\ \A a \in Addresses : fails'[a] = <<>>
        /\ phase' # "up"
    BY <1>4, EmptySeq DEF Die, Stop
  <2> QED
    BY <2>1, LimitsAssumption DEF TableInv, Distinct, Holds, Sorted
<1> QED
  BY <1>1, <1>2, <1>3, <1>4 DEF Next

LEMMA TableAlways == Spec => [](ThrottleInv /\ TableInv)
<1>1. Init => ThrottleInv /\ TableInv
  BY InitThrottleInv, InitTableInv DEF Init
<1>2. ThrottleInv /\ TableInv /\ [Next]_vars => (ThrottleInv /\ TableInv)'
  BY StepThrottleInv, StepTable
<1> QED
  BY <1>1, <1>2, PTL DEF Spec

\* Whatever the limits, the addresses and the headers: a lock lasts for its
\* time unless as many other addresses as the table holds failed later.
THEOREM LocksAreKept == Spec => LocksHold
<1>1. ThrottleInv /\ TableInv /\ [Next]_vars => [phase' = "up" => LockKept]_vars
  BY StepTable
<1> QED
  BY <1>1, TableAlways, PTL DEF Spec, LocksHold

-----------------------------------------------------------------------------
(* Retry-After.                                                            *)

LEMMA WholeSeconds ==
  ASSUME NEW d \in Nat, NEW s \in Nat \ {0}
  PROVE  d \div s \in Nat /\ s * (d \div s) <= d /\ d < s * (d \div s + 1)
  OBVIOUS

LEMMA TableIsTyped == ThrottleInv /\ TableInv => ThrottleTypeOK
<1> SUFFICES ASSUME ThrottleInv, TableInv PROVE ThrottleTypeOK
  OBVIOUS
<1>1. Len(order) = Cardinality(Tracked)
  BY TrackedCounts
<1>2. {order[i] : i \in DOMAIN order} = Tracked
  <2>1. \A i \in DOMAIN order : order[i] \in Addresses
    BY LenProperties, ElementOfSeq DEF TableInv
  <2> QED
    BY <2>1 DEF TableInv, Holds, Tracked
<1> QED
  BY <1>1, <1>2 DEF ThrottleTypeOK, ThrottleInv, TableInv, Times

\* A locked address has just MaxFailures failures, none of them older than the
\* window, and they are as many until the first of them is.
LEMMA LockLasts ==
  ASSUME ThrottleInv, TableInv, NEW ip \in Addresses, Locked(ip)
  PROVE  /\ Fresh(ip)[1] \in Nat /\ Fresh(ip)[1] <= now /\ Fresh(ip)[1] >= now - Age
         /\ \A t \in Nat : Len(FreshAt(fails[ip], t)) >= MaxFailures <=> Fresh(ip)[1] >= t - Age
<1> DEFINE f == fails[ip]
           r == FreshAt(f, now)
<1>1. /\ now \in Nat /\ MaxFailures \in Nat \ {0}
      /\ f \in Seq(Times) /\ InOrder(f, now) /\ Len(f) \in Nat /\ Len(f) <= MaxFailures
  BY LimitsAssumption, LenProperties DEF ThrottleInv, TableInv, Times
<1>2. Fresh(ip) = r /\ Len(r) >= MaxFailures
  BY DEF Locked, Fresh
<1> HIDE DEF f
<1>3. /\ r \in Seq(Times) /\ Len(r) \in Nat /\ Len(r) <= Len(f)
      /\ \A j \in 0 .. Len(r) - 1 : Back(r, j) = Back(f, j)
  BY <1>1, FreshIsTheRest, LenProperties
<1>4. \A t \in Nat : Len(FreshAt(f, t)) >= MaxFailures
                        <=> MaxFailures <= Len(f) /\ Back(f, MaxFailures - 1) >= t - Age
  BY <1>1, FreshCounts
<1> HIDE DEF r
<1>5. Len(r) = MaxFailures /\ Len(f) = MaxFailures
  BY <1>1, <1>2, <1>3
<1>6. r[1] = Back(f, MaxFailures - 1) /\ r[1] = f[1] /\ 1 \in 1 .. Len(f)
  <2>1. MaxFailures - 1 \in 0 .. Len(r) - 1 /\ Len(r) - (MaxFailures - 1) = 1
    BY <1>1, <1>5
  <2>2. Back(r, MaxFailures - 1) = r[1] /\ Back(f, MaxFailures - 1) = f[1]
    BY <1>5, <2>1 DEF Back
  <2> QED
    BY <1>1, <1>3, <1>5, <2>1, <2>2
<1>7. r[1] \in Nat /\ r[1] <= now
  BY <1>1, <1>6, ElementOfSeq, LimitsAssumption DEF InOrder, Times
<1>8. \A t \in Nat : Len(FreshAt(f, t)) >= MaxFailures <=> r[1] >= t - Age
  BY <1>1, <1>4, <1>5, <1>6
<1>9. r[1] >= now - Age
  BY <1>1, <1>2, <1>8 DEF r
<1> QED
  BY <1>2, <1>7, <1>8, <1>9 DEF f

\* Whatever the limits, the length of a second and the failures: Retry-After
\* is the number of seconds after which the lock is over, and not one more.
THEOREM RetryAfterIsHonest == Spec => []RetryAfterHonest
<1>1. ASSUME ThrottleInv, TableInv, NEW ip \in Addresses, Locked(ip)
      PROVE  /\ Len(FreshAt(fails[ip], now + Second * RetryAfter(ip))) < MaxFailures
             /\ Len(FreshAt(fails[ip], now + Second * (RetryAfter(ip) - 1))) >= MaxFailures
  <2> DEFINE x == Fresh(ip)[1]
             d == Age - (now - x)
             q == d \div Second
             early == now + Second * q
             late == now + Second * (q + 1)
  <2>1. /\ x \in Nat /\ x <= now /\ x >= now - Age
        /\ \A t \in Nat : Len(FreshAt(fails[ip], t)) >= MaxFailures <=> x >= t - Age
    BY <1>1, LockLasts
  <2>2. RetryAfter(ip) = q + 1
    BY DEF RetryAfter, Age
  <2>3. now \in Nat /\ Age \in Nat /\ Second \in Nat \ {0} /\ MaxFailures \in Nat
        /\ fails[ip] \in Seq(Times)
    BY <1>1, AgeIsNatural, LimitsAssumption DEF ThrottleInv, Times
  <2> HIDE DEF x
  <2>4. d \in Nat
    BY <2>1, <2>3
  <2> HIDE DEF d
  <2>5. q \in Nat /\ Second * q <= d /\ d < Second * (q + 1)
    BY <2>3, <2>4, WholeSeconds
  <2> HIDE DEF q
  <2>6. Second * q \in Nat /\ Second * (q + 1) \in Nat
    BY <2>3, <2>5
  <2>7. early \in Nat /\ late \in Nat
    BY <2>3, <2>6
  <2>8. x >= early - Age /\ ~(x >= late - Age)
    BY <2>1, <2>3, <2>5, <2>6 DEF d
  <2>9. RetryAfter(ip) - 1 = q
    BY <2>2, <2>5
  <2> HIDE DEF early, late
  <2>10. Len(FreshAt(fails[ip], early)) >= MaxFailures
    BY <2>1, <2>7, <2>8
  <2>11. Len(FreshAt(fails[ip], late)) < MaxFailures
    <3>1. ~(Len(FreshAt(fails[ip], late)) >= MaxFailures)
      BY <2>1, <2>7, <2>8
    <3>2. Len(FreshAt(fails[ip], late)) \in Nat
      BY <2>3, <2>7, FreshIsTheRest, LenProperties
    <3> QED
      BY <2>3, <3>1, <3>2
  <2> QED
    BY <2>2, <2>9, <2>10, <2>11 DEF early, late
<1>2. ThrottleInv /\ TableInv => RetryAfterHonest
  BY <1>1, TableIsTyped DEF RetryAfterHonest
<1> QED
  BY <1>2, TableAlways, PTL
=============================================================================
