-------------------------- MODULE TenantPoolProofs --------------------------
(***************************************************************************)
(* Proofs about TenantPool, for any replicas, requests in flight and       *)
(* changes at the catalog: a client never pairs a credential with an       *)
(* address newer than the catalog did, and a directory that does not call itself stale is as new  *)
(* as its last refresh.                                                    *)
(***************************************************************************)
EXTENDS TenantPool, TLAPS

\* The entry of an enrolled tenant names its newest enrolment.
RowIsNewest == row.address \in {0, row.epoch}

\* The credential the catalog has is the one it recorded beside that entry.
KeyIsBeside == key # 0 => row.address # 0 /\ beside[key] = row.address

\* Nothing that was recorded, and nothing the replicas and their requests
\* have read, is newer than the entry.
NothingNewer ==
    /\ \A n \in 1 .. MaxEpoch : beside[n] <= row.epoch
    /\ \A p \in Replicas : listed[p].address <= row.epoch
    /\ \A s \in Slots : seen[s].address <= row.epoch /\ begun[s] <= row.epoch

\* What a request has in its hands when it goes on after an await.
KnowsAddress ==
    \A s \in Slots : pc[s] \in {"fetching", "building", "recording"} => seen[s].address # 0
FetchedLater ==
    \A s \in Slots : pc[s] = "building" =>
        fetched[s] # 0 /\ beside[fetched[s]] >= seen[s].address
ListedLater == \A s \in Slots : pc[s] = "listed" => seen[s].epoch >= begun[s]

ClientsFollow ==
    \A p \in Replicas :
        client[p] # NoClient => beside[client[p].credential] >= client[p].address

PoolInv ==
    /\ TypeOK /\ RowIsNewest /\ KeyIsBeside /\ NothingNewer
    /\ KnowsAddress /\ FetchedLater /\ ListedLater
    /\ ClientsFollow /\ StaleIsHonest

LEMMA InitPoolInv == Init => PoolInv
<1> SUFFICES ASSUME Init PROVE PoolInv
  OBVIOUS
<1>1. NoRow \in Row /\ 0 \in 0 .. MaxEpoch
  BY MaxEpochAssumption DEF NoRow, Row
<1>2. TypeOK
  BY <1>1 DEF Init, TypeOK
<1>3. RowIsNewest /\ KeyIsBeside /\ NothingNewer
  BY MaxEpochAssumption DEF Init, RowIsNewest, KeyIsBeside, NothingNewer, NoRow
<1>4. KnowsAddress /\ FetchedLater /\ ListedLater /\ ClientsFollow /\ StaleIsHonest
  BY DEF Init, KnowsAddress, FetchedLater, ListedLater, ClientsFollow, StaleIsHonest, NoRow
<1> QED
  BY <1>2, <1>3, <1>4 DEF PoolInv

-----------------------------------------------------------------------------
(* get.                                                                    *)

LEMMA GetKeeps ==
  ASSUME PoolInv, NEW s \in Slots, NEW p \in Replicas, Get(s, p) PROVE PoolInv'
<1> USE DEF PoolInv
<1>1. /\ listed[p].address # 0
      /\ at' = [at EXCEPT ![s] = p]
      /\ seen' = [seen EXCEPT ![s] = listed[p]]
      /\ pc' = [pc EXCEPT ![s] = "fetching"]
      /\ UNCHANGED <<row, key, beside, listed, stale, client, open, asOf, recorded, fetched, begun>>
  BY DEF Get, Goto, catalogVars, replicaVars
<1>2. TypeOK'
  BY <1>1, NowhereAssumption DEF TypeOK
<1>3. RowIsNewest' /\ KeyIsBeside' /\ NothingNewer' /\ StaleIsHonest'
  BY <1>1 DEF RowIsNewest, KeyIsBeside, NothingNewer, StaleIsHonest, TypeOK
<1>4. KnowsAddress' /\ FetchedLater' /\ ListedLater'
  BY <1>1 DEF KnowsAddress, FetchedLater, ListedLater, TypeOK
<1> QED
  BY <1>1, <1>2, <1>3, <1>4 DEF ClientsFollow

LEMMA AnswerCredentialKeeps ==
  ASSUME PoolInv, NEW s \in Slots, AnswerCredential(s) PROVE PoolInv'
<1> USE DEF PoolInv
<1>1. /\ pc[s] = "fetching"
      /\ \/ /\ key # 0
            /\ fetched' = [fetched EXCEPT ![s] = key]
            /\ pc' = [pc EXCEPT ![s] = "building"]
         \/ /\ pc' = [pc EXCEPT ![s] = "idle"]
            /\ UNCHANGED fetched
      /\ UNCHANGED <<row, key, beside, listed, stale, client, open, asOf, recorded, at, seen, begun>>
  BY DEF AnswerCredential, Goto, WhenUnanswered, catalogVars, replicaVars
<1>2. key \in 0 .. MaxEpoch /\ row.epoch \in Nat
  BY DEF TypeOK, Row
<1>3. TypeOK'
  BY <1>1, <1>2 DEF TypeOK
<1>4. RowIsNewest' /\ KeyIsBeside' /\ NothingNewer' /\ StaleIsHonest' /\ KnowsAddress' /\ ListedLater'
  BY <1>1 DEF RowIsNewest, KeyIsBeside, NothingNewer, StaleIsHonest, KnowsAddress, ListedLater, TypeOK
<1>5. FetchedLater'
  BY <1>1, <1>2 DEF FetchedLater, RowIsNewest, KeyIsBeside, NothingNewer, TypeOK
<1> QED
  BY <1>1, <1>3, <1>4, <1>5 DEF ClientsFollow

LEMMA BuildKeeps ==
  ASSUME PoolInv, NEW s \in Slots, Build(s) PROVE PoolInv'
<1> USE DEF PoolInv
<1> DEFINE c == [address |-> seen[s].address, credential |-> fetched[s]]
<1>1. /\ pc[s] = "building"
      /\ client' = [client EXCEPT ![at[s]] = c]
      /\ open' = [open EXCEPT ![at[s]] = @ + 1]
      /\ pc' = [pc EXCEPT ![s] = "idle"]
      /\ UNCHANGED <<row, key, beside, listed, stale, asOf, recorded, at, seen, fetched, begun>>
  BY DEF Build, Built, Goto, catalogVars
<1>2. at[s] \in Replicas
  BY <1>1 DEF TypeOK
<1>3. c \in Client /\ beside[c.credential] >= c.address
  <2>1. seen[s].address \in 0 .. MaxEpoch /\ fetched[s] \in 0 .. MaxEpoch
    BY DEF TypeOK, Row
  <2>2. seen[s].address # 0 /\ fetched[s] # 0 /\ beside[fetched[s]] >= seen[s].address
    BY <1>1 DEF KnowsAddress, FetchedLater
  <2> QED
    BY <2>1, <2>2, MaxEpochAssumption DEF Client
<1> HIDE DEF c
<1>4. TypeOK'
  <2>1. client' \in [Replicas -> Client \cup {NoClient}]
    BY <1>1, <1>3 DEF TypeOK
  <2>2. open' \in [Replicas -> Nat]
    BY <1>1, <1>2 DEF TypeOK
  <2> QED
    BY <1>1, <2>1, <2>2 DEF TypeOK
<1>5. RowIsNewest' /\ KeyIsBeside' /\ NothingNewer' /\ StaleIsHonest'
  BY <1>1 DEF RowIsNewest, KeyIsBeside, NothingNewer, StaleIsHonest
<1>6. KnowsAddress' /\ FetchedLater' /\ ListedLater'
  BY <1>1 DEF KnowsAddress, FetchedLater, ListedLater, TypeOK
<1>7. ClientsFollow'
  BY <1>1, <1>3 DEF ClientsFollow, TypeOK
<1> QED
  BY <1>4, <1>5, <1>6, <1>7

-----------------------------------------------------------------------------
(* refresh.                                                                *)

LEMMA ListKeeps ==
  ASSUME PoolInv, NEW s \in Slots, NEW p \in Replicas, List(s, p) PROVE PoolInv'
<1> USE DEF PoolInv
<1>1. /\ at' = [at EXCEPT ![s] = p]
      /\ begun' = [begun EXCEPT ![s] = row.epoch]
      /\ pc' = [pc EXCEPT ![s] = "listing"]
      /\ UNCHANGED <<row, key, beside, listed, stale, client, open, asOf, recorded, seen, fetched>>
  BY DEF List, Goto, catalogVars, replicaVars
<1>2. row.epoch \in 0 .. MaxEpoch
  BY DEF TypeOK, Row
<1>3. TypeOK'
  BY <1>1, <1>2, NowhereAssumption DEF TypeOK
<1>4. RowIsNewest' /\ KeyIsBeside' /\ NothingNewer' /\ StaleIsHonest'
  BY <1>1, <1>2 DEF RowIsNewest, KeyIsBeside, NothingNewer, StaleIsHonest, TypeOK
<1>5. KnowsAddress' /\ FetchedLater' /\ ListedLater'
  BY <1>1 DEF KnowsAddress, FetchedLater, ListedLater, TypeOK
<1> QED
  BY <1>1, <1>3, <1>4, <1>5 DEF ClientsFollow

LEMMA AnswerListKeeps ==
  ASSUME PoolInv, NEW s \in Slots, AnswerList(s) PROVE PoolInv'
<1> USE DEF PoolInv
<1>1. /\ pc[s] = "listing"
      /\ seen' = [seen EXCEPT ![s] = row]
      /\ pc' = [pc EXCEPT ![s] = "listed"]
      /\ UNCHANGED <<row, key, beside, listed, stale, client, open, asOf, recorded, at, fetched, begun>>
  BY DEF AnswerList, Goto, catalogVars, replicaVars
<1>2. row.epoch \in 0 .. MaxEpoch /\ row.address <= row.epoch
  BY DEF TypeOK, Row, RowIsNewest
<1>3. TypeOK'
  BY <1>1 DEF TypeOK
<1>4. RowIsNewest' /\ KeyIsBeside' /\ NothingNewer' /\ StaleIsHonest'
  BY <1>1, <1>2 DEF RowIsNewest, KeyIsBeside, NothingNewer, StaleIsHonest, TypeOK
<1>5. KnowsAddress' /\ FetchedLater' /\ ListedLater'
  BY <1>1 DEF KnowsAddress, FetchedLater, ListedLater, NothingNewer, TypeOK
<1> QED
  BY <1>1, <1>3, <1>4, <1>5 DEF ClientsFollow

LEMMA RefreshRaisesKeeps ==
  ASSUME PoolInv, NEW s \in Slots, RefreshRaises(s) PROVE PoolInv'
<1> USE DEF PoolInv
<1>1. /\ pc' = [pc EXCEPT ![s] = "idle"]
      /\ UNCHANGED <<row, key, beside, listed, stale, client, open, asOf, recorded, at, seen, fetched, begun>>
  BY DEF RefreshRaises, Goto, catalogVars, replicaVars
<1>2. TypeOK'
  BY <1>1 DEF TypeOK
<1>3. RowIsNewest' /\ KeyIsBeside' /\ NothingNewer' /\ StaleIsHonest' /\ ClientsFollow'
  BY <1>1 DEF RowIsNewest, KeyIsBeside, NothingNewer, StaleIsHonest, ClientsFollow
<1>4. KnowsAddress' /\ FetchedLater' /\ ListedLater'
  BY <1>1 DEF KnowsAddress, FetchedLater, ListedLater, TypeOK
<1> QED
  BY <1>2, <1>3, <1>4

\* Refreshed and RefreshFails.
LEMMA RefreshKeeps ==
  ASSUME PoolInv, NEW s \in Slots, Refreshed(s) \/ RefreshFails(s) PROVE PoolInv'
<1> USE DEF PoolInv
<1>1. /\ pc[s] \in {"listing", "listed"}
      /\ \/ /\ pc[s] = "listed"
            /\ listed' = [listed EXCEPT ![at[s]] = seen[s]]
            /\ stale' = [stale EXCEPT ![at[s]] = FALSE]
         \/ /\ stale' = [stale EXCEPT ![at[s]] = TRUE]
            /\ UNCHANGED listed
      /\ asOf' = [asOf EXCEPT ![at[s]] = begun[s]]
      /\ pc' = [pc EXCEPT ![s] = "idle"]
      /\ UNCHANGED <<row, key, beside, client, open, recorded, at, seen, fetched, begun>>
  BY DEF Refreshed, RefreshFails, Failed, Goto, catalogVars
<1>2. at[s] \in Replicas
  BY <1>1 DEF TypeOK
<1>3. TypeOK'
  BY <1>1 DEF TypeOK
<1>4. RowIsNewest' /\ KeyIsBeside' /\ NothingNewer'
  BY <1>1, <1>2 DEF RowIsNewest, KeyIsBeside, NothingNewer, TypeOK
<1>5. StaleIsHonest'
  BY <1>1, <1>2 DEF StaleIsHonest, ListedLater, TypeOK
<1>6. KnowsAddress' /\ FetchedLater' /\ ListedLater'
  BY <1>1 DEF KnowsAddress, FetchedLater, ListedLater, TypeOK
<1> QED
  BY <1>1, <1>3, <1>4, <1>5, <1>6 DEF ClientsFollow

-----------------------------------------------------------------------------
(* redeem and the catalog.                                                 *)

\* The catalog's listing changes, to an entry of the address e or to none:
\* the credential goes, and whatever was read before stays older.
LEMMA NewEntryKeeps ==
  ASSUME PoolInv, row.epoch < MaxEpoch, NEW e \in {0, row.epoch + 1},
         row' = [epoch |-> row.epoch + 1, address |-> e], key' = 0, UNCHANGED beside,
         UNCHANGED <<listed, stale, client, open, asOf, recorded, begun, fetched>>
  PROVE  /\ row.epoch \in Nat /\ row' \in Row /\ row'.epoch = row.epoch + 1
         /\ RowIsNewest' /\ KeyIsBeside' /\ ClientsFollow' /\ StaleIsHonest'
         /\ \A n \in 1 .. MaxEpoch : beside'[n] <= row'.epoch
         /\ \A p \in Replicas : listed'[p].address <= row'.epoch
         /\ \A s \in Slots : seen[s].address <= row'.epoch /\ begun'[s] <= row'.epoch
<1> USE DEF PoolInv
<1>1. row.epoch \in Nat /\ row' \in Row /\ row'.epoch = row.epoch + 1 /\ RowIsNewest'
  BY MaxEpochAssumption DEF TypeOK, Row, RowIsNewest
<1>2. KeyIsBeside' /\ ClientsFollow' /\ StaleIsHonest'
  BY DEF KeyIsBeside, ClientsFollow, StaleIsHonest
<1>3. \A n \in 1 .. MaxEpoch : beside[n] \in Nat
  BY MaxEpochAssumption DEF TypeOK
<1>4. \A p \in Replicas : listed[p].address \in Nat
  BY DEF TypeOK, Row
<1>5. \A s \in Slots : seen[s].address \in Nat /\ begun[s] \in Nat
  BY DEF TypeOK, Row
<1> QED
  BY <1>1, <1>2, <1>3, <1>4, <1>5 DEF NothingNewer

LEMMA RedeemKeeps ==
  ASSUME PoolInv, NEW s \in Slots, NEW p \in Replicas, Redeem(s, p) PROVE PoolInv'
<1>1. /\ row.epoch < MaxEpoch
      /\ row' = [epoch |-> row.epoch + 1, address |-> row.epoch + 1]
      /\ key' = 0
      /\ at' = [at EXCEPT ![s] = p]
      /\ seen' = [seen EXCEPT ![s] = row']
      /\ pc' = [pc EXCEPT ![s] = "recording"]
      /\ UNCHANGED <<beside, listed, stale, client, open, asOf, recorded, fetched, begun>>
  BY DEF Redeem, Goto, replicaVars
<1>2. /\ row.epoch \in Nat /\ row' \in Row /\ row'.epoch = row.epoch + 1
      /\ RowIsNewest' /\ KeyIsBeside' /\ ClientsFollow' /\ StaleIsHonest'
      /\ \A n \in 1 .. MaxEpoch : beside'[n] <= row'.epoch
      /\ \A q \in Replicas : listed'[q].address <= row'.epoch
      /\ \A u \in Slots : seen[u].address <= row'.epoch /\ begun'[u] <= row'.epoch
  BY <1>1, NewEntryKeeps
<1> USE DEF PoolInv
<1>3. TypeOK'
  BY <1>1, <1>2, MaxEpochAssumption, NowhereAssumption DEF TypeOK
<1>4. NothingNewer'
  BY <1>1, <1>2 DEF NothingNewer, TypeOK
<1>5. KnowsAddress' /\ FetchedLater' /\ ListedLater'
  BY <1>1, <1>2 DEF KnowsAddress, FetchedLater, ListedLater, TypeOK
<1> QED
  BY <1>2, <1>3, <1>4, <1>5

\* The withdrawal, of an attempt or of someone else.
LEMMA WithdrawnKeeps ==
  ASSUME PoolInv, Withdrawn,
         UNCHANGED <<listed, stale, client, open, asOf, recorded, at, seen, fetched, begun>>,
         \/ UNCHANGED pc
         \/ \E s \in Slots : pc' = [pc EXCEPT ![s] = "idle"]
  PROVE  PoolInv'
<1>1. /\ row.epoch < MaxEpoch
      /\ row' = [epoch |-> row.epoch + 1, address |-> 0]
      /\ key' = 0
      /\ UNCHANGED beside
  BY DEF Withdrawn
<1>2. /\ row.epoch \in Nat /\ row' \in Row /\ row'.epoch = row.epoch + 1
      /\ RowIsNewest' /\ KeyIsBeside' /\ ClientsFollow' /\ StaleIsHonest'
      /\ \A n \in 1 .. MaxEpoch : beside'[n] <= row'.epoch
      /\ \A q \in Replicas : listed'[q].address <= row'.epoch
      /\ \A u \in Slots : seen[u].address <= row'.epoch /\ begun'[u] <= row'.epoch
  BY <1>1, NewEntryKeeps
<1> USE DEF PoolInv
<1>3. TypeOK'
  <2>1. pc' \in [Slots -> {"idle", "fetching", "building", "listing", "listed", "recording", "invalidating"}]
    BY DEF TypeOK
  <2>2. \A s \in Slots : pc'[s] # "idle" => pc[s] # "idle"
    BY DEF TypeOK
  <2>3. key' \in 0 .. MaxEpoch
    BY <1>1, MaxEpochAssumption
  <2> QED
    BY <1>1, <1>2, <2>1, <2>2, <2>3 DEF TypeOK
<1>4. NothingNewer'
  BY <1>2 DEF NothingNewer
<1>5. KnowsAddress' /\ FetchedLater' /\ ListedLater'
  BY <1>1 DEF KnowsAddress, FetchedLater, ListedLater, TypeOK
<1> QED
  BY <1>2, <1>3, <1>4, <1>5

LEMMA WithdrawKeeps ==
  ASSUME PoolInv, Withdraw PROVE PoolInv'
BY WithdrawnKeeps DEF Withdraw, replicaVars, slotVars

LEMMA RecordKeeps ==
  ASSUME PoolInv, NEW s \in Slots, Record(s) PROVE PoolInv'
<1> USE DEF PoolInv
<1>1. /\ pc[s] = "recording" /\ row.address # 0
      /\ key' = seen[s].address
      /\ beside' = [beside EXCEPT ![seen[s].address] = row.address]
      /\ \/ pc' = [pc EXCEPT ![s] = "invalidating"]
         \/ pc' = [pc EXCEPT ![s] = "idle"]
      /\ UNCHANGED <<row, listed, stale, client, open, asOf, recorded, at, seen, fetched, begun>>
  BY DEF Record, Goto, replicaVars
<1>2. seen[s].address \in 1 .. MaxEpoch /\ row.address \in 0 .. MaxEpoch /\ row.epoch = row.address
  BY <1>1, MaxEpochAssumption DEF TypeOK, Row, KnowsAddress, RowIsNewest
<1>3. TypeOK'
  <2>1. key' \in 0 .. MaxEpoch /\ beside' \in [1 .. MaxEpoch -> 0 .. MaxEpoch]
    BY <1>1, <1>2 DEF TypeOK
  <2>2. pc' \in [Slots -> {"idle", "fetching", "building", "listing", "listed", "recording", "invalidating"}]
    BY <1>1 DEF TypeOK
  <2>3. \A u \in Slots : pc'[u] # "idle" => at[u] # Nowhere
    BY <1>1 DEF TypeOK
  <2> QED
    BY <1>1, <2>1, <2>2, <2>3 DEF TypeOK
\* what is recorded now is recorded beside the newest address
<1>4. \A n \in 1 .. MaxEpoch : beside'[n] \in Nat /\ beside[n] \in Nat /\ beside'[n] >= beside[n]
  BY <1>1, <1>2 DEF TypeOK, NothingNewer
<1>5. RowIsNewest' /\ KeyIsBeside' /\ NothingNewer' /\ StaleIsHonest'
  BY <1>1, <1>2 DEF RowIsNewest, KeyIsBeside, NothingNewer, StaleIsHonest, TypeOK
<1>6. ClientsFollow'
  <2> SUFFICES ASSUME NEW p \in Replicas, client[p] # NoClient
               PROVE  beside'[client[p].credential] >= client[p].address
    BY <1>1 DEF ClientsFollow
  <2>1. client[p].credential \in 1 .. MaxEpoch /\ client[p].address \in Nat
    BY DEF TypeOK, Client
  <2> QED
    BY <2>1, <1>4 DEF ClientsFollow
<1>7. FetchedLater'
  <2> SUFFICES ASSUME NEW u \in Slots, pc'[u] = "building"
               PROVE  fetched[u] # 0 /\ beside'[fetched[u]] >= seen[u].address
    BY <1>1 DEF FetchedLater
  <2>1. pc[u] = "building"
    BY <1>1 DEF TypeOK
  <2>2. fetched[u] \in 0 .. MaxEpoch /\ fetched[u] # 0 /\ beside[fetched[u]] >= seen[u].address
    BY <2>1 DEF FetchedLater, TypeOK
  <2>3. fetched[u] \in 1 .. MaxEpoch /\ seen[u].address \in Nat
    BY <2>2, MaxEpochAssumption DEF TypeOK, Row
  <2> QED
    BY <2>2, <2>3, <1>4
<1>8. KnowsAddress' /\ ListedLater'
  BY <1>1 DEF KnowsAddress, ListedLater, TypeOK
<1> QED
  BY <1>3, <1>5, <1>6, <1>7, <1>8

LEMMA AbandonKeeps ==
  ASSUME PoolInv, NEW s \in Slots, Abandon(s) PROVE PoolInv'
<1>1. /\ pc' = [pc EXCEPT ![s] = "idle"]
      /\ UNCHANGED <<listed, stale, client, open, asOf, recorded, at, seen, fetched, begun>>
      /\ Withdrawn \/ UNCHANGED <<row, key, beside>>
  BY DEF Abandon, Goto, replicaVars, catalogVars
<1>2. CASE Withdrawn
  BY <1>1, <1>2, WithdrawnKeeps
<1>3. CASE UNCHANGED <<row, key, beside>>
  <2> USE DEF PoolInv
  <2>1. TypeOK'
    BY <1>1, <1>3 DEF TypeOK
  <2>2. RowIsNewest' /\ KeyIsBeside' /\ NothingNewer' /\ StaleIsHonest' /\ ClientsFollow'
    BY <1>1, <1>3 DEF RowIsNewest, KeyIsBeside, NothingNewer, StaleIsHonest, ClientsFollow
  <2>3. KnowsAddress' /\ FetchedLater' /\ ListedLater'
    BY <1>1, <1>3 DEF KnowsAddress, FetchedLater, ListedLater, TypeOK
  <2> QED
    BY <2>1, <2>2, <2>3
<1> QED
  BY <1>1, <1>2, <1>3

LEMMA InvalidateKeeps ==
  ASSUME PoolInv, NEW s \in Slots, Invalidate(s) PROVE PoolInv'
<1> USE DEF PoolInv
<1>1. /\ pc[s] = "invalidating"
      /\ client' = [client EXCEPT ![at[s]] = NoClient]
      /\ recorded' = [recorded EXCEPT ![at[s]] = seen[s].address]
      /\ begun' = [begun EXCEPT ![s] = row.epoch]
      /\ pc' = [pc EXCEPT ![s] = "listing"]
      /\ UNCHANGED <<row, key, beside, listed, stale, open, asOf, at, seen, fetched>>
  BY DEF Invalidate, Invalidated, Goto, catalogVars
<1>2. row.epoch \in 0 .. MaxEpoch /\ seen[s].address \in 0 .. MaxEpoch
  BY DEF TypeOK, Row
<1>3. TypeOK'
  BY <1>1, <1>2 DEF TypeOK
<1>4. RowIsNewest' /\ KeyIsBeside' /\ NothingNewer' /\ StaleIsHonest'
  BY <1>1, <1>2 DEF RowIsNewest, KeyIsBeside, NothingNewer, StaleIsHonest, TypeOK
<1>5. KnowsAddress' /\ FetchedLater' /\ ListedLater'
  BY <1>1 DEF KnowsAddress, FetchedLater, ListedLater, TypeOK
<1>6. ClientsFollow'
  BY <1>1 DEF ClientsFollow, TypeOK
<1> QED
  BY <1>3, <1>4, <1>5, <1>6

LEMMA RestartKeeps ==
  ASSUME PoolInv, NEW p \in Replicas, Restart(p) PROVE PoolInv'
<1> USE DEF PoolInv
<1>1. /\ listed' = [listed EXCEPT ![p] = NoRow]
      /\ stale' = [stale EXCEPT ![p] = FALSE]
      /\ client' = [client EXCEPT ![p] = NoClient]
      /\ open' = [open EXCEPT ![p] = 0]
      /\ asOf' = [asOf EXCEPT ![p] = 0]
      /\ recorded' = [recorded EXCEPT ![p] = 0]
      /\ pc' = [s \in Slots |-> IF at[s] = p THEN "idle" ELSE pc[s]]
      /\ UNCHANGED <<row, key, beside, at, seen, fetched, begun>>
  BY DEF Restart, catalogVars
<1>2. NoRow \in Row /\ NoRow.address = 0 /\ NoRow.epoch = 0 /\ 0 \in 0 .. MaxEpoch
  BY MaxEpochAssumption DEF NoRow, Row
<1>3. TypeOK'
  BY <1>1, <1>2 DEF TypeOK
<1>4. RowIsNewest' /\ KeyIsBeside' /\ NothingNewer' /\ StaleIsHonest'
  <2>1. row.epoch \in Nat
    BY DEF TypeOK, Row
  <2> QED
    BY <1>1, <1>2, <2>1 DEF RowIsNewest, KeyIsBeside, NothingNewer, StaleIsHonest, TypeOK
<1>5. KnowsAddress' /\ FetchedLater' /\ ListedLater'
  BY <1>1 DEF KnowsAddress, FetchedLater, ListedLater, TypeOK
<1>6. ClientsFollow'
  BY <1>1 DEF ClientsFollow, TypeOK
<1> QED
  BY <1>3, <1>4, <1>5, <1>6

-----------------------------------------------------------------------------
(* The theorems.                                                           *)

LEMMA StepPoolInv == PoolInv /\ [Next]_vars => PoolInv'
<1> SUFFICES ASSUME PoolInv, [Next]_vars PROVE PoolInv'
  OBVIOUS
<1>1. CASE Next
  BY <1>1, GetKeeps, ListKeeps, RedeemKeeps, AnswerCredentialKeeps, BuildKeeps, AnswerListKeeps,
     RefreshKeeps, RefreshRaisesKeeps, RecordKeeps, AbandonKeeps, InvalidateKeeps, WithdrawKeeps,
     RestartKeeps DEF Next
<1>2. CASE UNCHANGED vars
  BY <1>2 DEF vars, catalogVars, replicaVars, slotVars, PoolInv, TypeOK, RowIsNewest, KeyIsBeside,
              NothingNewer, KnowsAddress, FetchedLater, ListedLater, ClientsFollow, StaleIsHonest
<1> QED
  BY <1>1, <1>2

\* No pool ever holds a client with an address newer than the one the catalog
\* recorded its credential beside, for any replicas, redemptions that cross,
\* restarts and withdrawals.
THEOREM PoolFollowsCatalog == Spec => []CredentialFollowsCatalog
<1>1. PoolInv => CredentialFollowsCatalog
  BY DEF PoolInv, ClientsFollow, CredentialFollowsCatalog
<1> QED
  BY <1>1, InitPoolInv, StepPoolInv, PTL DEF Spec

\* A directory that does not say it is stale is no older than its last refresh,
\* whichever order the answers of refreshes come in.
THEOREM DirectoryIsHonest == Spec => []StaleIsHonest
<1>1. PoolInv => StaleIsHonest
  BY DEF PoolInv
<1> QED
  BY <1>1, InitPoolInv, StepPoolInv, PTL DEF Spec
=============================================================================
