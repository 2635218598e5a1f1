-------------------------- MODULE AuditChainProofs --------------------------
(***************************************************************************)
(* Proofs about AuditChain, for any writers, records and faults: an honest *)
(* log verifies, and one that is damaged or lacks a record does not.       *)
(***************************************************************************)
EXTENDS AuditChain, WellFoundedInduction, TLAPS

WellFormed(r) ==
    /\ r = [instance |-> r.instance, seq |-> r.seq, prev |-> r.prev,
            body |-> r.body, hash |-> r.hash]
    /\ r.instance \in Writers
    /\ r.seq \in 0 .. MaxSeq - 1

\* What every log is, damaged by faults or not: a writer's records have
\* increasing numbers, and those before and after a record are found.
Ordered(l) ==
    /\ \E S : l \in Seq(S)
    /\ \A i \in DOMAIN l : WellFormed(l[i])
    /\ \A i, j \in DOMAIN l : i < j /\ l[i].instance = l[j].instance => l[i].seq < l[j].seq
    /\ \A i, j \in DOMAIN l : i < j /\ l[i].instance = l[j].instance =>
          /\ \E k \in DOMAIN l : Follows(l, i, k)
          /\ \E k \in DOMAIN l : Follows(l, k, j)
    /\ \A w \in Writers : Positions(l, w) # {} => \E i \in DOMAIN l : IsLast(l, w, i)

\* Appending a record with a number above its writer's keeps a log ordered.
LEMMA AppendOrdered ==
    ASSUME NEW l, NEW r, Ordered(l), WellFormed(r),
           \A i \in Positions(l, r.instance) : l[i].seq < r.seq
    PROVE  Ordered(Append(l, r))
<1> DEFINE m == Append(l, r)
           n == Len(l) + 1
<1>1. PICK S : l \in Seq(S)
  BY DEF Ordered
<1>2. /\ m \in Seq(S \cup {r})
      /\ DOMAIN m = 1 .. n /\ DOMAIN l = 1 .. Len(l) /\ Len(l) \in Nat
      /\ \A i \in DOMAIN l : m[i] = l[i]
      /\ m[n] = r
  BY <1>1
<1> HIDE DEF m, n
<1>n. n = Len(l) + 1 /\ n \in DOMAIN m /\ n \notin DOMAIN l /\ DOMAIN m = DOMAIN l \cup {n}
      /\ \A i \in DOMAIN l : i \in Nat /\ i < n
  BY <1>2 DEF n
<1>3. \A i \in DOMAIN m : WellFormed(m[i])
  BY <1>2, <1>n DEF Ordered
<1>4. \A i, j \in DOMAIN m : i < j /\ m[i].instance = m[j].instance => m[i].seq < m[j].seq
  BY <1>2, <1>n DEF Ordered, Positions
<1>5. \A i, k \in DOMAIN l : Follows(l, i, k) => Follows(m, i, k)
  BY <1>2, <1>n DEF Follows
<1>6. ASSUME NEW i \in DOMAIN l, IsLast(l, r.instance, i)
      PROVE  Follows(m, i, n)
  BY <1>2, <1>n, <1>6 DEF Follows, IsLast, Positions
<1>7. ASSUME NEW i \in DOMAIN m, NEW j \in DOMAIN m, i < j, m[i].instance = m[j].instance
      PROVE  /\ \E k \in DOMAIN m : Follows(m, i, k)
             /\ \E k \in DOMAIN m : Follows(m, k, j)
  <2>1. CASE j \in DOMAIN l
    <3>1. i \in DOMAIN l
      BY <2>1, <1>7, <1>2, <1>n
    <3>2. l[i].instance = l[j].instance
      BY <3>1, <2>1, <1>7, <1>2
    <3>3. PICK k \in DOMAIN l : Follows(l, i, k)
      BY <3>1, <3>2, <2>1, <1>7 DEF Ordered
    <3>4. PICK h \in DOMAIN l : Follows(l, h, j)
      BY <3>1, <3>2, <2>1, <1>7 DEF Ordered
    <3>5. Follows(m, i, k) /\ Follows(m, h, j)
      BY <3>1, <3>3, <3>4, <2>1, <1>5
    <3>6. k \in DOMAIN m /\ h \in DOMAIN m
      BY <3>3, <3>4, <1>n
    <3> QED BY <3>5, <3>6, Zenon
  <2>2. CASE j = n
    <3>1. i \in DOMAIN l /\ l[i].instance = r.instance /\ i \in Positions(l, r.instance)
      BY <2>2, <1>7, <1>2, <1>n DEF Positions
    <3>2. PICK last \in DOMAIN l : IsLast(l, r.instance, last)
      BY <3>1 DEF Ordered, WellFormed
    <3>3. Follows(m, last, n)
      BY <3>2, <1>6
    <3>4. i <= last /\ l[last].instance = r.instance
      BY <3>1, <3>2 DEF IsLast, Positions
    <3>5. CASE i = last
      BY <3>3, <3>5, <2>2, <1>n
    <3>6. CASE i < last
      <4>1. PICK k \in DOMAIN l : Follows(l, i, k)
        BY <3>1, <3>4, <3>6 DEF Ordered
      <4>2. Follows(m, i, k) /\ Follows(m, last, j)
        BY <4>1, <3>1, <3>3, <2>2, <1>5
      <4>3. k \in DOMAIN m /\ last \in DOMAIN m
        BY <1>n
      <4> QED BY <4>2, <4>3, Zenon
    <3> QED BY <3>1, <3>4, <3>5, <3>6, <1>n
  <2> QED BY <2>1, <2>2, <1>n
<1>8. ASSUME NEW w \in Writers, Positions(m, w) # {}
      PROVE  \E i \in DOMAIN m : IsLast(m, w, i)
  <2>1. CASE r.instance = w
    <3>1. IsLast(m, w, n)
      BY <2>1, <1>2, <1>n DEF IsLast, Positions
    <3> QED BY <3>1, <1>n
  <2>2. CASE r.instance # w
    <3>1. Positions(m, w) = Positions(l, w)
      BY <2>2, <1>2, <1>n DEF Positions
    <3>2. PICK i \in DOMAIN l : IsLast(l, w, i)
      BY <3>1, <1>8 DEF Ordered
    <3>3. IsLast(m, w, i)
      BY <3>1, <3>2 DEF IsLast
    <3> QED BY <3>3, <1>n
  <2> QED BY <2>1, <2>2
<1> QED
  <2>1. \E T : m \in Seq(T)
    BY <1>2
  <2>2. Ordered(m)
    BY <2>1, <1>3, <1>4, <1>7, <1>8 DEF Ordered
  <2> QED BY <2>2 DEF m

\* So does dropping the last record.
LEMMA DropOrdered ==
    ASSUME NEW l, Ordered(l), Len(l) > 0
    PROVE  Ordered(SubSeq(l, 1, Len(l) - 1))
<1> DEFINE m == SubSeq(l, 1, Len(l) - 1)
           n == Len(l)
<1>1. PICK S : l \in Seq(S)
  BY DEF Ordered
<1>2. /\ m \in Seq(S)
      /\ DOMAIN m = 1 .. n - 1 /\ DOMAIN l = 1 .. n /\ n \in Nat
      /\ \A i \in DOMAIN m : m[i] = l[i]
  BY <1>1
<1>0. n > 0
  OBVIOUS
<1> HIDE DEF m, n
<1>n. n \in DOMAIN l /\ n \notin DOMAIN m /\ DOMAIN l = DOMAIN m \cup {n}
      /\ \A i \in DOMAIN m : i \in Nat /\ i < n
  BY <1>0, <1>2
<1>3. \A i \in DOMAIN m : WellFormed(m[i])
  BY <1>2, <1>n DEF Ordered
<1>4. \A i, j \in DOMAIN m : i < j /\ m[i].instance = m[j].instance => m[i].seq < m[j].seq
  BY <1>2, <1>n DEF Ordered
<1>5. \A i, k \in DOMAIN m : Follows(l, i, k) => Follows(m, i, k)
  BY <1>2, <1>n DEF Follows
<1>6. ASSUME NEW i \in DOMAIN m, NEW j \in DOMAIN m, i < j, m[i].instance = m[j].instance
      PROVE  /\ \E k \in DOMAIN m : Follows(m, i, k)
             /\ \E k \in DOMAIN m : Follows(m, k, j)
  <2>1. i \in DOMAIN l /\ j \in DOMAIN l /\ l[i].instance = l[j].instance
    BY <1>2, <1>n, <1>6
  <2>2. PICK k \in DOMAIN l : Follows(l, i, k)
    BY <2>1, <1>6 DEF Ordered
  <2>3. k # n
    BY <2>1, <2>2, <1>6, <1>n DEF Follows
  <2>4. PICK h \in DOMAIN l : Follows(l, h, j)
    BY <2>1, <1>6 DEF Ordered
  <2>5. h # n
    BY <2>4, <1>2, <1>n DEF Follows
  <2> QED BY <2>2, <2>3, <2>4, <2>5, <1>5, <1>n
<1>7. ASSUME NEW w \in Writers, Positions(m, w) # {}
      PROVE  \E i \in DOMAIN m : IsLast(m, w, i)
  <2>1. PICK j \in DOMAIN m : m[j].instance = w
    BY <1>7 DEF Positions
  <2>2. PICK last \in DOMAIN l : IsLast(l, w, last)
    BY <2>1, <1>2, <1>n DEF Ordered, Positions
  <2>3. CASE last # n
    <3>1. IsLast(m, w, last)
      BY <2>2, <2>3, <1>2, <1>n DEF IsLast, Positions
    <3> QED BY <3>1, <2>3, <1>n
  <2>4. CASE last = n
    <3>1. j < n /\ l[j].instance = l[n].instance /\ j \in DOMAIN l
      BY <2>1, <2>2, <2>4, <1>2, <1>n DEF IsLast, Positions
    <3>2. PICK k \in DOMAIN l : Follows(l, k, n)
      BY <3>1, <1>n DEF Ordered
    <3>3. k \in DOMAIN m
      BY <3>2, <1>n DEF Follows
    <3>4. IsLast(m, w, k)
      <4>1. m[k].instance = w
        BY <3>2, <3>3, <2>2, <2>4, <1>2 DEF Follows, IsLast, Positions
      <4>2. ASSUME NEW i \in DOMAIN m, m[i].instance = w PROVE i <= k
        BY <4>2, <4>1, <3>2, <3>3, <1>2, <1>n DEF Follows
      <4> QED BY <4>1, <4>2, <3>3 DEF IsLast, Positions
    <3> QED BY <3>3, <3>4
  <2> QED BY <2>3, <2>4
<1> QED
  <2>1. Ordered(m)
    BY <1>2, <1>3, <1>4, <1>6, <1>7 DEF Ordered
  <2> QED BY <2>1 DEF m

\* A log that verifies still does with a record that commits to its writer's
\* last one.
LEMMA AppendVerifies ==
    ASSUME NEW l, NEW r, Ordered(l), Verifies(l), Unaltered(r),
           \A i \in DOMAIN l : IsLast(l, r.instance, i) => Links(l[i], r)
    PROVE  Verifies(Append(l, r))
<1> DEFINE m == Append(l, r)
           n == Len(l) + 1
<1>1. PICK S : l \in Seq(S)
  BY DEF Ordered
<1>2. /\ DOMAIN m = 1 .. n /\ DOMAIN l = 1 .. Len(l) /\ Len(l) \in Nat
      /\ \A i \in DOMAIN l : m[i] = l[i]
      /\ m[n] = r
  BY <1>1
<1> HIDE DEF m, n
<1>n. n = Len(l) + 1 /\ n \in DOMAIN m /\ n \notin DOMAIN l /\ DOMAIN m = DOMAIN l \cup {n}
      /\ \A i \in DOMAIN l : i \in Nat /\ i < n
  BY <1>2 DEF n
<1>3. \A i \in DOMAIN m : Unaltered(m[i])
  BY <1>2, <1>n DEF Verifies
<1>4. ASSUME NEW i \in DOMAIN m, NEW j \in DOMAIN m, Follows(m, i, j)
      PROVE  Links(m[i], m[j])
  <2>1. i \in DOMAIN l
    BY <1>2, <1>n, <1>4 DEF Follows
  <2>2. CASE j \in DOMAIN l
    <3>1. Follows(l, i, j)
      BY <2>1, <2>2, <1>2, <1>n, <1>4 DEF Follows
    <3> QED BY <3>1, <2>1, <2>2, <1>2 DEF Verifies
  <2>3. CASE j = n
    <3>1. IsLast(l, r.instance, i)
      <4>1. l[i].instance = r.instance
        BY <2>1, <2>3, <1>2, <1>4 DEF Follows
      <4>2. ASSUME NEW k \in DOMAIN l, l[k].instance = r.instance PROVE k <= i
        BY <4>1, <4>2, <2>1, <2>3, <1>2, <1>n, <1>4 DEF Follows
      <4> QED BY <4>1, <4>2, <2>1 DEF IsLast, Positions
    <3> QED BY <3>1, <2>1, <2>3, <1>2
  <2> QED BY <2>2, <2>3, <1>n
<1> QED
  <2>1. Verifies(m)
    BY <1>3, <1>4 DEF Verifies
  <2> QED BY <2>1 DEF m

-----------------------------------------------------------------------------
(* The writers.                                                            *)

\* A running writer's next number is above those it has in the file, and as
\* long as nothing is missing its next record links to its last.
AheadOfLog ==
    \A w \in Writers : up[w] =>
        \A i \in Positions(log, w) : log[i].seq < chain[w].seq
AtHead ==
    missing = {} => \A w \in Writers : up[w] =>
        \A i \in DOMAIN log : IsLast(log, w, i) =>
            chain[w] = Successor(log[i].seq, log[i].hash)

ChainInv == TypeOK /\ Ordered(log) /\ AheadOfLog /\ AtHead /\ HonestLogVerifies

LEMMA SealedFits ==
    ASSUME ChainInv, NEW w \in Writers, NEW body, up[w], chain[w].seq < MaxSeq
    PROVE  /\ WellFormed(Sealed(w, body))
           /\ Unaltered(Sealed(w, body))
           /\ Sealed(w, body).instance = w
           /\ Sealed(w, body).seq = chain[w].seq
           /\ \A i \in Positions(log, w) : log[i].seq < Sealed(w, body).seq
           /\ missing = {} => \A i \in DOMAIN log :
                 IsLast(log, w, i) => Links(log[i], Sealed(w, body))
<1>1. chain[w].seq \in Nat /\ chain[w] = [seq |-> chain[w].seq, prev |-> chain[w].prev]
  BY MaxSeqAssumption DEF ChainInv, TypeOK
<1>2. /\ WellFormed(Sealed(w, body)) /\ Unaltered(Sealed(w, body))
      /\ Sealed(w, body).instance = w
      /\ Sealed(w, body).seq = chain[w].seq
      /\ Sealed(w, body).prev = chain[w].prev
  BY <1>1, MaxSeqAssumption DEF WellFormed, Unaltered, Sealed
<1>3. \A i \in Positions(log, w) : log[i].seq < chain[w].seq
  BY DEF ChainInv, AheadOfLog
<1>4. ASSUME missing = {}, NEW i \in DOMAIN log, IsLast(log, w, i)
      PROVE  Links(log[i], Sealed(w, body))
  <2>1. chain[w] = Successor(log[i].seq, log[i].hash)
    BY <1>4 DEF ChainInv, AtHead
  <2> QED BY <2>1, <1>1, <1>2 DEF Links
<1> QED BY <1>2, <1>3, <1>4

LEMMA InitChain == Init => ChainInv
<1> SUFFICES ASSUME Init PROVE ChainInv
  OBVIOUS
<1>1. log = <<>> /\ DOMAIN log = {} /\ log \in Seq({})
  BY DEF Init
<1>2. TypeOK
  BY <1>1, MaxSeqAssumption DEF Init, TypeOK, Fresh
<1>3. Ordered(log)
  BY <1>1 DEF Ordered, Positions
<1>4. AheadOfLog /\ AtHead /\ HonestLogVerifies
  BY <1>1 DEF Init, AheadOfLog, AtHead, HonestLogVerifies, Verifies, Positions
<1> QED BY <1>2, <1>3, <1>4 DEF ChainInv

\* The file after a writer's call: as it was, with the new record, or
\* garbled, when something is missing.
LEMMA FileStep ==
    ASSUME ChainInv, NEW w \in Writers, NEW body, up[w], chain[w].seq < MaxSeq,
           NEW live \in BOOLEAN,
           \/ Write(Sealed(w, body)) \/ Refuse(Sealed(w, body)) \/ Cut(Sealed(w, body), live)
    PROVE  /\ \/ log' = Append(log, Sealed(w, body)) /\ missing' = missing
              \/ log' = log /\ missing' # {}
              \/ log' = SubSeq(log, 1, Len(log) - 1) /\ Len(log) > 0 /\ missing' # {}
           /\ missing' \subseteq [writer : Writers, seq : 0 .. MaxSeq - 1, live : BOOLEAN]
           /\ tail' \in {"whole", "torn", "unended"}
           /\ tail' = "unended" => \/ log' = log /\ tail = "unended"
                                   \/ log' = Append(log, Sealed(w, body))
<1> DEFINE rec == Sealed(w, body)
<1>1. /\ rec.instance \in Writers /\ rec.seq \in 0 .. MaxSeq - 1
  BY SealedFits DEF WellFormed
<1> HIDE DEF rec
<1>2. PICK S : log \in Seq(S)
  BY DEF ChainInv, Ordered
<1>3. Len(log) \in Nat /\ DOMAIN log = 1 .. Len(log) /\ (tail = "unended" => Len(log) > 0)
  BY <1>2 DEF ChainInv, TypeOK
<1>4. ASSUME NEW b \in BOOLEAN, Garble(rec, b)
      PROVE  /\ \/ log' = log
                \/ log' = SubSeq(log, 1, Len(log) - 1) /\ Len(log) > 0
             /\ missing' # {}
             /\ missing' \subseteq [writer : Writers, seq : 0 .. MaxSeq - 1, live : BOOLEAN]
  <2>1. \/ log' = log
        \/ log' = SubSeq(log, 1, Len(log) - 1) /\ Len(log) > 0
    BY <1>3, <1>4 DEF Garble, Kept
  <2>2. Len(Kept) \in Nat
    BY <1>2, <1>3 DEF Kept
  <2>3. \A i \in Len(Kept) + 1 .. Len(log) : i \in DOMAIN log
    BY <2>2, <1>3
  <2>4. Lost(rec, b) \in [writer : Writers, seq : 0 .. MaxSeq - 1, live : BOOLEAN]
    BY <1>1 DEF Lost
  <2>5. ASSUME NEW i \in DOMAIN log
        PROVE  Lost(log[i], up[log[i].instance]) \in
                 [writer : Writers, seq : 0 .. MaxSeq - 1, live : BOOLEAN]
    BY DEF ChainInv, TypeOK, Lost
  <2>6. missing' # {}
    BY <1>4 DEF Garble
  <2> QED BY <2>1, <2>3, <2>4, <2>5, <2>6, <1>4 DEF Garble, ChainInv, TypeOK
<1>5. CASE Write(rec)
  <2>1. CASE Garble(rec, TRUE) /\ tail' = "whole"
    BY <2>1, <1>4
  <2>2. CASE log' = Append(log, rec) /\ missing' = missing /\ tail' = "whole"
    BY <2>2 DEF rec, ChainInv, TypeOK
  <2> QED BY <2>1, <2>2, <1>5 DEF Write
<1>6. CASE Refuse(rec)
  <2>1. Lost(rec, TRUE) \in [writer : Writers, seq : 0 .. MaxSeq - 1, live : BOOLEAN]
    BY <1>1 DEF Lost
  <2> QED BY <2>1, <1>6 DEF Refuse, ChainInv, TypeOK
<1>7. CASE Cut(rec, live)
  <2>1. CASE Garble(rec, live) /\ tail' = "torn"
    BY <2>1, <1>4
  <2>2. CASE log' = Append(log, rec) /\ missing' = missing /\ tail' = "unended"
    BY <2>2 DEF rec, ChainInv, TypeOK
  <2> QED BY <2>1, <2>2, <1>7 DEF Cut
<1> QED BY <1>5, <1>6, <1>7 DEF rec

\* A step that leaves the running writers alone but for w, which either stops
\* or goes on with the record it wrote.
LEMMA WritingStep ==
    ASSUME ChainInv, NEW w \in Writers, NEW body, up[w], chain[w].seq < MaxSeq,
           NEW live \in BOOLEAN,
           \/ Write(Sealed(w, body)) \/ Refuse(Sealed(w, body)) \/ Cut(Sealed(w, body), live),
           \/ /\ up' = up
              /\ chain' = [chain EXCEPT ![w] =
                     Successor(Sealed(w, body).seq, Sealed(w, body).hash)]
           \/ /\ up' = [up EXCEPT ![w] = FALSE]
              /\ chain' = [chain EXCEPT ![w] = Fresh]
    PROVE  ChainInv'
<1> DEFINE rec == Sealed(w, body)
<1>1. /\ WellFormed(rec) /\ Unaltered(rec) /\ rec.instance = w /\ rec.seq = chain[w].seq
      /\ \A i \in Positions(log, w) : log[i].seq < rec.seq
      /\ missing = {} => \A i \in DOMAIN log : IsLast(log, w, i) => Links(log[i], rec)
  BY SealedFits
<1>2. /\ \/ log' = Append(log, rec) /\ missing' = missing
         \/ log' = log /\ missing' # {}
         \/ log' = SubSeq(log, 1, Len(log) - 1) /\ Len(log) > 0 /\ missing' # {}
      /\ missing' \subseteq [writer : Writers, seq : 0 .. MaxSeq - 1, live : BOOLEAN]
      /\ tail' \in {"whole", "torn", "unended"}
      /\ tail' = "unended" => (log' = log /\ tail = "unended") \/ log' = Append(log, rec)
  BY FileStep
<1>3. rec.seq \in Nat /\ rec.seq < MaxSeq
  BY <1>1, MaxSeqAssumption DEF WellFormed
<1>4. \/ /\ up' = up
         /\ chain' = [chain EXCEPT ![w] = [seq |-> rec.seq + 1, prev |-> rec.hash]]
      \/ /\ up' = [up EXCEPT ![w] = FALSE]
         /\ chain' = [chain EXCEPT ![w] = [seq |-> 0, prev |-> Genesis]]
  BY DEF Successor, Fresh
<1>5. PICK S : log \in Seq(S)
  BY DEF ChainInv, Ordered
<1>6. Len(log) \in Nat /\ DOMAIN log = 1 .. Len(log)
  BY <1>5
<1> HIDE DEF rec
<1>7. ASSUME log' = Append(log, rec)
      PROVE  /\ DOMAIN log' = DOMAIN log \cup {Len(log) + 1}
             /\ \A i \in DOMAIN log : log'[i] = log[i] /\ i < Len(log) + 1
             /\ log'[Len(log) + 1] = rec
             /\ log' # <<>>
  BY <1>5, <1>6, <1>7
<1>8. ASSUME log' = SubSeq(log, 1, Len(log) - 1), Len(log) > 0
      PROVE  /\ DOMAIN log' \subseteq DOMAIN log
             /\ \A i \in DOMAIN log' : log'[i] = log[i]
  BY <1>5, <1>6, <1>8
<1>9. Ordered(log)'
  <2>1. Ordered(log')
    <3>0. Ordered(log)
      BY DEF ChainInv
    <3>1. CASE log' = Append(log, rec)
      <4>1. \A i \in Positions(log, rec.instance) : log[i].seq < rec.seq
        BY <1>1
      <4>2. Ordered(Append(log, rec))
        BY <3>0, <4>1, <1>1, AppendOrdered
      <4> QED BY <3>1, <4>2
    <3>2. CASE log' = log
      BY <3>0, <3>2
    <3>3. CASE log' = SubSeq(log, 1, Len(log) - 1) /\ Len(log) > 0
      <4>1. Ordered(SubSeq(log, 1, Len(log) - 1))
        BY <3>0, <3>3, DropOrdered
      <4> QED BY <3>3, <4>1
    <3> QED BY <3>1, <3>2, <3>3, <1>2
  <2> QED BY <2>1 DEF Ordered, Follows, IsLast, Positions, WellFormed
<1>10. \A i \in DOMAIN log' : log'[i].instance \in Writers /\ log'[i].seq \in 0 .. MaxSeq - 1
  <2>1. \A i \in DOMAIN log : log[i].instance \in Writers /\ log[i].seq \in 0 .. MaxSeq - 1
    BY DEF ChainInv, TypeOK
  <2> QED BY <2>1, <1>1, <1>2, <1>7, <1>8 DEF WellFormed
<1>11. /\ up' \in [Writers -> BOOLEAN]
       /\ chain' \in [Writers -> [seq : 0 .. MaxSeq, prev : {chain'[v].prev : v \in Writers}]]
  <2>1. up \in [Writers -> BOOLEAN]
        /\ chain \in [Writers -> [seq : 0 .. MaxSeq, prev : {chain[v].prev : v \in Writers}]]
    BY DEF ChainInv, TypeOK
  <2>2. rec.seq + 1 \in 0 .. MaxSeq /\ 0 \in 0 .. MaxSeq
    BY <1>3, MaxSeqAssumption
  <2>3. DOMAIN chain' = Writers /\ chain' = [v \in Writers |-> chain'[v]]
    BY <2>1, <1>4
  <2>4. ASSUME NEW v \in Writers
        PROVE  chain'[v] \in [seq : 0 .. MaxSeq, prev : {chain'[u].prev : u \in Writers}]
    <3>1. CASE v = w
      BY <3>1, <2>1, <2>2, <1>4
    <3>2. CASE v # w
      <4>1. chain'[v] = chain[v]
        BY <3>2, <2>1, <1>4
      <4>2. chain[v].seq \in 0 .. MaxSeq
            /\ chain[v] = [seq |-> chain[v].seq, prev |-> chain[v].prev]
        BY <2>1
      <4> QED BY <4>1, <4>2
    <3> QED BY <3>1, <3>2
  <2> QED BY <2>1, <2>3, <2>4, <1>4
<1>12. TypeOK'
  <2>1. tail' = "unended" => log' # <<>>
    BY <1>2, <1>7 DEF ChainInv, TypeOK
  <2> QED BY <2>1, <1>2, <1>10, <1>11 DEF TypeOK
<1>13. ASSUME NEW v \in Writers, up'[v]
       PROVE  \/ v = w /\ chain'[v] = [seq |-> rec.seq + 1, prev |-> rec.hash]
              \/ v # w /\ up[v] /\ chain'[v] = chain[v]
  BY <1>4, <1>13 DEF ChainInv, TypeOK
<1>14. AheadOfLog'
  <2> SUFFICES ASSUME NEW v \in Writers, up'[v], NEW i \in DOMAIN log', log'[i].instance = v
               PROVE  log'[i].seq < chain'[v].seq
    BY DEF AheadOfLog, Positions
  <2>1. CASE i \in DOMAIN log /\ log'[i] = log[i]
    <3>1. i \in Positions(log, v) /\ log[i].seq \in Nat
      BY <2>1 DEF Positions, ChainInv, TypeOK
    <3>2. CASE v = w /\ chain'[v] = [seq |-> rec.seq + 1, prev |-> rec.hash]
      <4>1. log[i].seq < rec.seq
        BY <3>1, <3>2, <1>1
      <4> QED BY <4>1, <3>1, <3>2, <2>1, <1>3
    <3>3. CASE v # w /\ up[v] /\ chain'[v] = chain[v]
      BY <3>1, <3>3, <2>1 DEF ChainInv, AheadOfLog
    <3> QED BY <3>2, <3>3, <1>13
  <2>2. CASE log'[i] = rec
    BY <2>2, <1>1, <1>3, <1>13
  <2> QED BY <2>1, <2>2, <1>2, <1>7, <1>8
<1>15. AtHead'
  <2> SUFFICES ASSUME missing' = {}, NEW v \in Writers, up'[v], NEW i \in DOMAIN log',
                      IsLast(log', v, i)
               PROVE  chain'[v] = Successor(log'[i].seq, log'[i].hash)
    BY DEF AtHead, IsLast, Positions
  <2>1. log' = Append(log, rec) /\ missing = {}
    BY <1>2
  <2>2. CASE v = w /\ chain'[v] = [seq |-> rec.seq + 1, prev |-> rec.hash]
    <3>1. i = Len(log) + 1
      BY <2>1, <2>2, <1>1, <1>6, <1>7 DEF IsLast, Positions
    <3> QED BY <3>1, <2>1, <2>2, <1>7 DEF Successor
  <2>3. CASE v # w /\ up[v] /\ chain'[v] = chain[v]
    <3>1. i \in DOMAIN log /\ IsLast(log, v, i)
      BY <2>1, <2>3, <1>1, <1>7 DEF IsLast, Positions
    <3> QED BY <3>1, <2>1, <2>3, <1>7 DEF ChainInv, AtHead
  <2> QED BY <2>2, <2>3, <1>13
<1>16. HonestLogVerifies'
  <2> SUFFICES ASSUME missing' = {} PROVE Verifies(log')
    BY DEF HonestLogVerifies, Verifies, Follows, Links, Unaltered
  <2>1. log' = Append(log, rec) /\ missing = {}
    BY <1>2
  <2> QED BY <2>1, <1>1, AppendVerifies DEF ChainInv, HonestLogVerifies
<1> QED BY <1>9, <1>12, <1>14, <1>15, <1>16 DEF ChainInv

LEMMA StopStep ==
    ASSUME ChainInv, NEW w \in Writers, Stop(w)
    PROVE  ChainInv'
<1>1. /\ up' = [up EXCEPT ![w] = FALSE] /\ chain' = [chain EXCEPT ![w] = Fresh]
      /\ log' = log /\ tail' = tail /\ missing' = missing
      /\ \A v \in Writers : up'[v] => v # w /\ up[v] /\ chain'[v] = chain[v]
  BY DEF Stop, ChainInv, TypeOK
<1>2. TypeOK'
  <2>1. up' \in [Writers -> BOOLEAN]
    BY <1>1 DEF ChainInv, TypeOK
  <2>2. chain \in [Writers -> [seq : 0 .. MaxSeq, prev : {chain[v].prev : v \in Writers}]]
    BY DEF ChainInv, TypeOK
  <2>3. DOMAIN chain' = Writers /\ chain' = [v \in Writers |-> chain'[v]]
    BY <2>2, <1>1
  <2>4. ASSUME NEW v \in Writers
        PROVE  chain'[v] \in [seq : 0 .. MaxSeq, prev : {chain'[u].prev : u \in Writers}]
    <3>1. CASE v = w
      BY <3>1, <2>2, <1>1, MaxSeqAssumption DEF Fresh
    <3>2. CASE v # w
      <4>1. chain'[v] = chain[v]
        BY <3>2, <2>2, <1>1
      <4>2. chain[v].seq \in 0 .. MaxSeq
            /\ chain[v] = [seq |-> chain[v].seq, prev |-> chain[v].prev]
        BY <2>2
      <4> QED BY <4>1, <4>2
    <3> QED BY <3>1, <3>2
  <2> QED BY <2>1, <2>3, <2>4, <1>1 DEF ChainInv, TypeOK
<1>3. AheadOfLog' /\ AtHead'
  BY <1>1 DEF ChainInv, AheadOfLog, AtHead, Positions, IsLast
<1>4. Ordered(log)' /\ HonestLogVerifies'
  BY <1>1 DEF ChainInv, HonestLogVerifies
<1> QED BY <1>2, <1>3, <1>4 DEF ChainInv

LEMMA StartStep ==
    ASSUME ChainInv, NEW w \in Writers, Start(w)
    PROVE  ChainInv'
<1>1. /\ up' = [up EXCEPT ![w] = TRUE] /\ log' = log /\ tail' = tail
      /\ missing' = {[m EXCEPT !.live = @ /\ m.writer # w] : m \in missing}
  BY DEF Start
<1>2. PICK head \in [seq : 0 .. MaxSeq, prev : {chain'[w].prev}] :
         /\ chain' = [chain EXCEPT ![w] = head]
         /\ \A i \in DOMAIN log : IsLast(log, w, i) =>
               head = Successor(log[i].seq, log[i].hash)
         /\ \A i \in Positions(log, w) : log[i].seq < head.seq
  <2>1. chain \in [Writers -> [seq : 0 .. MaxSeq, prev : {chain[v].prev : v \in Writers}]]
    BY DEF ChainInv, TypeOK
  <2>2. CASE Positions(log, w) = {} /\ chain' = [chain EXCEPT ![w] = Fresh]
    <3>1. Fresh \in [seq : 0 .. MaxSeq, prev : {chain'[w].prev}]
      BY <2>1, <2>2, MaxSeqAssumption DEF Fresh
    <3> QED BY <3>1, <2>2 DEF IsLast
  <2>3. ASSUME NEW i \in DOMAIN log, IsLast(log, w, i),
               chain' = [chain EXCEPT ![w] = Successor(log[i].seq, log[i].hash)]
        PROVE  \E head \in [seq : 0 .. MaxSeq, prev : {chain'[w].prev}] :
         /\ chain' = [chain EXCEPT ![w] = head]
         /\ \A k \in DOMAIN log : IsLast(log, w, k) =>
               head = Successor(log[k].seq, log[k].hash)
         /\ \A k \in Positions(log, w) : log[k].seq < head.seq
    <3> DEFINE head == Successor(log[i].seq, log[i].hash)
    <3>1. log[i].seq \in 0 .. MaxSeq - 1 /\ \A k \in DOMAIN log : k \in Nat
      BY DEF ChainInv, TypeOK, Ordered
    <3>2. head.seq = log[i].seq + 1 /\ head.seq \in 0 .. MaxSeq
      BY <3>1, MaxSeqAssumption DEF Successor
    <3>3. head \in [seq : 0 .. MaxSeq, prev : {chain'[w].prev}]
      BY <2>1, <2>3, <3>2 DEF Successor
    <3>4. ASSUME NEW k \in DOMAIN log, IsLast(log, w, k) PROVE k = i
      BY <2>3, <3>1, <3>4 DEF IsLast, Positions
    <3>5. ASSUME NEW k \in Positions(log, w) PROVE log[k].seq < head.seq
      <4>1. k \in DOMAIN log /\ k <= i /\ log[k].instance = log[i].instance
            /\ log[k].seq \in Nat
        BY <2>3 DEF IsLast, Positions, ChainInv, TypeOK
      <4>2. CASE k = i
        BY <4>2, <3>1, <3>2
      <4>3. CASE k < i
        <5>1. log[k].seq < log[i].seq
          BY <4>1, <4>3 DEF ChainInv, Ordered
        <5> QED BY <5>1, <4>1, <3>1, <3>2
      <4> QED BY <4>1, <4>2, <4>3, <3>1
    <3> QED BY <2>3, <3>3, <3>4, <3>5
  <2> QED BY <2>2, <2>3 DEF Start, SeedFromTail
<1>3. \A v \in Writers : up'[v] =>
         (v = w /\ chain'[v] = head) \/ (v # w /\ up[v] /\ chain'[v] = chain[v])
  <2>1. DOMAIN up = Writers /\ DOMAIN chain = Writers
    BY DEF ChainInv, TypeOK
  <2>2. up' = [up EXCEPT ![w] = TRUE] /\ chain' = [chain EXCEPT ![w] = head]
    BY <1>1, <1>2
  <2>3. chain'[w] = head
    BY <2>1, <2>2
  <2>4. \A v \in Writers \ {w} : up'[v] = up[v] /\ chain'[v] = chain[v]
    BY <2>1, <2>2
  <2> QED BY <2>3, <2>4
<1>4. TypeOK'
  <2>1. up' \in [Writers -> BOOLEAN]
    BY <1>1 DEF ChainInv, TypeOK
  <2>2. chain \in [Writers -> [seq : 0 .. MaxSeq, prev : {chain[v].prev : v \in Writers}]]
    BY DEF ChainInv, TypeOK
  <2>3. DOMAIN chain' = Writers /\ chain' = [v \in Writers |-> chain'[v]]
    BY <2>2, <1>2
  <2>4. ASSUME NEW v \in Writers
        PROVE  chain'[v] \in [seq : 0 .. MaxSeq, prev : {chain'[u].prev : u \in Writers}]
    <3>1. CASE v = w
      BY <3>1, <2>2, <1>2
    <3>2. CASE v # w
      <4>1. chain'[v] = chain[v]
        BY <3>2, <2>2, <1>2
      <4>2. chain[v].seq \in 0 .. MaxSeq
            /\ chain[v] = [seq |-> chain[v].seq, prev |-> chain[v].prev]
        BY <2>2
      <4> QED BY <4>1, <4>2
    <3> QED BY <3>1, <3>2
  <2>5. missing' \subseteq [writer : Writers, seq : 0 .. MaxSeq - 1, live : BOOLEAN]
    <3>1. missing \subseteq [writer : Writers, seq : 0 .. MaxSeq - 1, live : BOOLEAN]
      BY DEF ChainInv, TypeOK
    <3> QED BY <3>1, <1>1
  <2> QED BY <2>1, <2>3, <2>4, <2>5, <1>1 DEF ChainInv, TypeOK
<1>5. missing' = {} => missing = {}
  BY <1>1
<1>6. AheadOfLog'
  BY <1>1, <1>2, <1>3 DEF ChainInv, AheadOfLog, Positions
<1>7. AtHead'
  <2> SUFFICES ASSUME missing' = {}, NEW v \in Writers, up'[v], NEW i \in DOMAIN log,
                      IsLast(log, v, i)
               PROVE  chain'[v] = Successor(log[i].seq, log[i].hash)
    BY <1>1 DEF AtHead, IsLast, Positions
  <2> QED BY <1>2, <1>3, <1>5 DEF ChainInv, AtHead
<1>8. Ordered(log)' /\ HonestLogVerifies'
  BY <1>1, <1>5 DEF ChainInv, HonestLogVerifies
<1> QED BY <1>4, <1>6, <1>7, <1>8 DEF ChainInv

LEMMA NextChain == ChainInv /\ [Next]_vars => ChainInv'
<1> SUFFICES ASSUME ChainInv, [Next]_vars PROVE ChainInv'
  OBVIOUS
<1>1. ASSUME NEW w \in Writers, NEW body \in Bodies, Record(w, body)
      PROVE  ChainInv'
  BY <1>1, WritingStep DEF Record
<1>2. ASSUME NEW w \in Writers, NEW body \in Bodies, CrashWriting(w, body)
      PROVE  ChainInv'
  BY <1>2, WritingStep DEF CrashWriting
<1>3. CASE UNCHANGED vars
  <2>1. log' = log /\ tail' = tail /\ up' = up /\ chain' = chain /\ missing' = missing
    BY <1>3 DEF vars
  <2>2. TypeOK'
    BY <2>1 DEF ChainInv, TypeOK
  <2>3. Ordered(log)' /\ HonestLogVerifies'
    BY <2>1 DEF ChainInv, HonestLogVerifies
  <2>4. AheadOfLog' /\ AtHead'
    BY <2>1 DEF ChainInv, AheadOfLog, AtHead
  <2> QED BY <2>2, <2>3, <2>4 DEF ChainInv
<1> QED BY <1>1, <1>2, <1>3, StopStep, StartStep DEF Next

\* Whatever the writers, records and faults: every state is well typed.
THEOREM TypeCorrect == Spec => []TypeOK
<1>1. ChainInv => TypeOK
  BY DEF ChainInv
<1> QED BY <1>1, InitChain, NextChain, PTL DEF Spec

\* Whatever the writers, records and faults: while nothing is missing, the
\* file verifies.
THEOREM HonestVerifies == Spec => []HonestLogVerifies
<1>1. ChainInv => HonestLogVerifies
  BY DEF ChainInv
<1> QED BY <1>1, InitChain, NextChain, PTL DEF Spec

-----------------------------------------------------------------------------
(* Damage.                                                                 *)

\* Linked records of a log that verifies have consecutive numbers.
LEMMA LinkedNumbers ==
    ASSUME NEW l, Verifies(l), NEW i \in DOMAIN l, NEW j \in DOMAIN l, Follows(l, i, j)
    PROVE  l[j].seq = l[i].seq + 1
<1>1. Links(l[i], l[j])
  BY DEF Verifies
<1>2. [seq |-> l[j].seq, prev |-> l[j].prev].seq = [seq |-> l[i].seq + 1, prev |-> l[i].hash].seq
  BY <1>1 DEF Links, Successor
<1> QED BY <1>2

LEMMA AlterationShows ==
    ASSUME ChainInv, Verifies(log), NEW i \in DOMAIN log, NEW body, body # log[i].body
    PROVE  ~Verifies(Altered(i, body))
<1>1. PICK S : log \in Seq(S)
  BY DEF ChainInv, Ordered
<1>2. Unaltered(log[i])
  BY DEF Verifies
<1>3. WellFormed(log[i])
  BY DEF ChainInv, Ordered
<1>4. i \in DOMAIN Altered(i, body) /\ Altered(i, body)[i] = [log[i] EXCEPT !.body = body]
  BY <1>1 DEF Altered
<1>5. /\ [log[i] EXCEPT !.body = body].body = body
      /\ [log[i] EXCEPT !.body = body].seq = log[i].seq
      /\ [log[i] EXCEPT !.body = body].prev = log[i].prev
      /\ [log[i] EXCEPT !.body = body].hash = log[i].hash
  BY <1>3 DEF WellFormed
<1>6. ~Unaltered([log[i] EXCEPT !.body = body])
  BY <1>2, <1>5 DEF Unaltered, Digest
<1> QED BY <1>4, <1>6 DEF Verifies

LEMMA ExchangeShows ==
    ASSUME ChainInv, Verifies(log), NEW i \in DOMAIN log, NEW j \in DOMAIN log,
           i < j, log[i].instance = log[j].instance
    PROVE  ~Verifies([log EXCEPT ![i] = log[j], ![j] = log[i]])
<1> DEFINE m == [log EXCEPT ![i] = log[j], ![j] = log[i]]
<1>1. PICK S : log \in Seq(S)
  BY DEF ChainInv, Ordered
<1>2. /\ DOMAIN log = 1 .. Len(log) /\ Len(log) \in Nat /\ DOMAIN m = DOMAIN log
      /\ m[i] = log[j] /\ m[j] = log[i]
      /\ \A k \in DOMAIN log \ {i, j} : m[k] = log[k]
  BY <1>1
<1> HIDE DEF m
<1>3. PICK k \in DOMAIN log : Follows(log, i, k)
  BY DEF ChainInv, Ordered
<1>4. k <= j /\ i < k /\ log[k].instance = log[i].instance
  <2>1. i < k /\ log[i].instance = log[k].instance /\ ~(i < j /\ j < k)
    BY <1>3 DEF Follows
  <2>2. i \in Nat /\ j \in Nat /\ k \in Nat
    BY <1>2
  <2> QED BY <2>1, <2>2
<1>5. \A h \in DOMAIN log : log[h].seq \in Nat
  BY DEF ChainInv, TypeOK
<1>6. log[i].seq < log[j].seq /\ (k < j => log[k].seq < log[j].seq)
  BY <1>4 DEF ChainInv, Ordered
<1>7. \A h \in DOMAIN log : i < h /\ h < k => log[h].instance # log[i].instance
  BY <1>3 DEF Follows
<1>8. Follows(m, i, k)
  BY <1>2, <1>4, <1>7 DEF Follows
<1>9. m[i].seq = log[j].seq /\ m[k].seq <= log[j].seq
  BY <1>2, <1>4, <1>5, <1>6
<1>10. ~Verifies(m)
  <2> SUFFICES ASSUME Verifies(m) PROVE FALSE
    OBVIOUS
  <2>1. m[k].seq = m[i].seq + 1
    BY <1>2, <1>8, LinkedNumbers
  <2>2. m[k].seq \in Nat
    BY <1>2, <1>5
  <2> QED BY <2>1, <2>2, <1>5, <1>9
<1> QED BY <1>10 DEF m

LEMMA HoleShows ==
    ASSUME ChainInv, Verifies(log), NEW i \in DOMAIN log,
           NEW h \in DOMAIN log, NEW j \in DOMAIN log, h < i, i < j,
           log[h].instance = log[i].instance, log[j].instance = log[i].instance
    PROVE  ~Verifies(Without(i))
<1> DEFINE m == Without(i)
<1>1. PICK S : log \in Seq(S)
  BY DEF ChainInv, Ordered
<1>2. DOMAIN log = 1 .. Len(log) /\ Len(log) \in Nat
  BY <1>1
<1>3. /\ DOMAIN m = 1 .. Len(log) - 1
      /\ \A k \in DOMAIN m : m[k] = log[IF k < i THEN k ELSE k + 1]
  BY DEF Without
<1> HIDE DEF m
<1>4. PICK before \in DOMAIN log : Follows(log, before, i)
  BY DEF ChainInv, Ordered
<1>5. PICK after \in DOMAIN log : Follows(log, i, after)
  BY DEF ChainInv, Ordered
<1>6. /\ before < i /\ i < after
      /\ log[before].instance = log[i].instance /\ log[after].instance = log[i].instance
      /\ \A k \in DOMAIN log : before < k /\ k < after /\ k # i =>
            log[k].instance # log[i].instance
  BY <1>2, <1>4, <1>5 DEF Follows
<1>7. /\ before \in DOMAIN m /\ m[before] = log[before]
      /\ after - 1 \in DOMAIN m /\ m[after - 1] = log[after]
  BY <1>2, <1>3, <1>6
<1>8. ASSUME NEW k \in DOMAIN m, before < k, k < after - 1
      PROVE  m[k].instance # log[i].instance
  <2>1. k \in 1 .. Len(log) - 1 /\ i \in 1 .. Len(log) /\ after \in 1 .. Len(log) /\ before \in 1 .. Len(log)
    BY <1>2, <1>3, <1>5
  <2>2. CASE k < i
    <3>1. k \in DOMAIN log /\ before < k /\ k < after /\ k # i
      BY <1>2, <1>6, <1>8, <2>1, <2>2
    <3>2. m[k] = log[k]
      BY <1>3, <2>2
    <3> QED
      BY <1>6, <3>1, <3>2
  <2>3. CASE ~(k < i)
    <3>1. k + 1 \in DOMAIN log /\ before < k + 1 /\ k + 1 < after /\ k + 1 # i
      BY <1>2, <1>6, <1>8, <2>1, <2>3
    <3>2. m[k] = log[k + 1]
      BY <1>3, <2>3
    <3> QED
      BY <1>6, <3>1, <3>2
  <2> QED
    BY <2>2, <2>3
<1>9. Follows(m, before, after - 1)
  BY <1>2, <1>6, <1>7, <1>8 DEF Follows
<1>10. log[i].seq = log[before].seq + 1 /\ log[after].seq = log[i].seq + 1
  BY <1>4, <1>5, LinkedNumbers
<1>11. log[before].seq \in Nat
  BY DEF ChainInv, TypeOK
<1>12. ~Verifies(m)
  <2> SUFFICES ASSUME Verifies(m) PROVE FALSE
    OBVIOUS
  <2>1. m[after - 1].seq = m[before].seq + 1
    BY <1>7, <1>9, LinkedNumbers
  <2> QED BY <2>1, <1>7, <1>10, <1>11
<1> QED BY <1>12 DEF m

\* Whatever the writers, records and faults: damage to a file that verifies
\* shows.
THEOREM DamageIsShown == Spec => []DamageShows
<1>1. ChainInv => DamageShows
  <2> SUFFICES ASSUME ChainInv, Verifies(log), NEW i \in DOMAIN log PROVE
            /\ \A body \in Bodies \ {log[i].body} : ~Verifies(Altered(i, body))
            /\ \A j \in Positions(log, log[i].instance) \ {i} : ~Verifies(Exchanged(i, j))
            /\ (\E h, j \in Positions(log, log[i].instance) : h < i /\ i < j)
                  => ~Verifies(Without(i))
    BY DEF DamageShows
  <2>1. \A k \in DOMAIN log : k \in Nat
    BY DEF ChainInv, Ordered
  <2>2. ASSUME NEW j \in Positions(log, log[i].instance) \ {i}
        PROVE  ~Verifies(Exchanged(i, j))
    <3>1. j \in DOMAIN log /\ log[i].instance = log[j].instance /\ j # i
      BY DEF Positions
    <3>2. CASE i < j
      BY <3>1, <3>2, ExchangeShows DEF Exchanged
    <3>3. CASE j < i
      <4>1. ~Verifies([log EXCEPT ![j] = log[i], ![i] = log[j]])
        BY <3>1, <3>3, ExchangeShows
      <4>2. [log EXCEPT ![j] = log[i], ![i] = log[j]] = [log EXCEPT ![i] = log[j], ![j] = log[i]]
        <5>1. PICK S : log \in Seq(S)
          BY DEF ChainInv, Ordered
        <5> QED BY <5>1, <3>1
      <4> QED BY <4>1, <4>2 DEF Exchanged
    <3> QED BY <3>1, <3>2, <3>3, <2>1
  <2> QED BY <2>2, AlterationShows, HoleShows DEF Positions
<1> QED BY <1>1, InitChain, NextChain, PTL DEF Spec

-----------------------------------------------------------------------------
(* Loss.                                                                   *)

\* The number of a record that was lost is not given twice: it is below its
\* writer's next number as long as the process runs, and no record in the file
\* has it until the process is started again.
NumberIsSpent(m) ==
    m.live => /\ up[m.writer] => m.seq < chain[m.writer].seq
              /\ \A i \in Positions(log, m.writer) : log[i].seq # m.seq

LossInv == ChainInv /\ \A m \in missing : NumberIsSpent(m)

\* What a writer's call does to the file: it adds nothing but its record, and
\* what it loses is its record or the last one in the file.
LEMMA CallLoses ==
    ASSUME ChainInv, NEW w \in Writers, NEW body, up[w], chain[w].seq < MaxSeq,
           NEW live \in BOOLEAN,
           \/ Write(Sealed(w, body)) \/ Refuse(Sealed(w, body)) \/ Cut(Sealed(w, body), live)
    PROVE  /\ \A i \in DOMAIN log' :
                 \/ i \in DOMAIN log /\ log'[i] = log[i]
                 \/ log'[i] = Sealed(w, body) /\ missing' = missing
           /\ \A m \in missing' \ missing :
                 \/ \E b \in BOOLEAN : m = Lost(Sealed(w, body), b)
                 \/ \E n \in DOMAIN log : /\ m = Lost(log[n], up[log[n].instance])
                                          /\ \A i \in DOMAIN log' : i \in DOMAIN log /\ i < n
<1> DEFINE rec == Sealed(w, body)
<1>1. PICK S : log \in Seq(S)
  BY DEF ChainInv, Ordered
<1>2. Len(log) \in Nat /\ DOMAIN log = 1 .. Len(log) /\ (tail = "unended" => Len(log) > 0)
  BY <1>1 DEF ChainInv, TypeOK
<1> HIDE DEF rec
<1>3. CASE log' = Append(log, rec) /\ missing' = missing
  BY <1>1, <1>2, <1>3 DEF rec
<1>4. ASSUME NEW b \in BOOLEAN, Garble(rec, b)
      PROVE  /\ \A i \in DOMAIN log' : i \in DOMAIN log /\ log'[i] = log[i]
             /\ \A m \in missing' \ missing :
                   \/ m = Lost(rec, b)
                   \/ \E n \in DOMAIN log : /\ m = Lost(log[n], up[log[n].instance])
                                            /\ \A i \in DOMAIN log' : i \in DOMAIN log /\ i < n
  <2>1. CASE tail = "unended"
    <3>1. Kept = SubSeq(log, 1, Len(log) - 1) /\ log' = Kept
      BY <1>4, <2>1 DEF Garble, Kept
    <3>2. /\ Len(Kept) = Len(log) - 1 /\ DOMAIN log' = 1 .. Len(log) - 1
          /\ \A i \in 1 .. Len(log) - 1 : log'[i] = log[i]
      BY <1>1, <1>2, <2>1, <3>1
    <3>3. Len(Kept) + 1 .. Len(log) = {Len(log)}
      BY <1>2, <2>1, <3>2
    <3>4. missing' = missing \cup {Lost(rec, b)}
                        \cup {Lost(log[Len(log)], up[log[Len(log)].instance])}
      BY <1>4, <3>3 DEF Garble
    <3>5. Len(log) \in DOMAIN log /\ \A i \in DOMAIN log' : i \in DOMAIN log /\ i < Len(log)
      BY <1>2, <2>1, <3>2
    <3> QED
      BY <3>2, <3>4, <3>5
  <2>2. CASE tail # "unended"
    <3>1. Kept = log /\ log' = log
      BY <1>4, <2>2 DEF Garble, Kept
    <3>2. Len(Kept) + 1 .. Len(log) = {}
      BY <1>2, <3>1
    <3>3. missing' = missing \cup {Lost(rec, b)}
      BY <1>4, <3>2 DEF Garble
    <3> QED
      BY <3>1, <3>3
  <2> QED
    BY <2>1, <2>2
<1>5. CASE \E b \in BOOLEAN : Garble(rec, b)
  BY <1>4, <1>5 DEF rec
<1>6. CASE Refuse(rec)
  BY <1>6 DEF Refuse, rec
<1> QED
  BY <1>3, <1>5, <1>6 DEF Write, Cut, rec

LEMMA WritingSpends ==
    ASSUME LossInv, NEW w \in Writers, NEW body, up[w], chain[w].seq < MaxSeq,
           NEW live \in BOOLEAN,
           \/ Write(Sealed(w, body)) \/ Refuse(Sealed(w, body)) \/ Cut(Sealed(w, body), live),
           \/ /\ up' = up
              /\ chain' = [chain EXCEPT ![w] =
                     Successor(Sealed(w, body).seq, Sealed(w, body).hash)]
           \/ /\ up' = [up EXCEPT ![w] = FALSE]
              /\ chain' = [chain EXCEPT ![w] = Fresh]
    PROVE  \A m \in missing' : NumberIsSpent(m)'
<1> DEFINE rec == Sealed(w, body)
<1>0. ChainInv /\ \A m \in missing : NumberIsSpent(m)
  BY DEF LossInv
<1>1. /\ rec.instance = w /\ rec.seq = chain[w].seq
      /\ \A i \in Positions(log, w) : log[i].seq < rec.seq
  BY <1>0, SealedFits
<1>2. /\ \A i \in DOMAIN log' :
            \/ i \in DOMAIN log /\ log'[i] = log[i]
            \/ log'[i] = rec /\ missing' = missing
      /\ \A m \in missing' \ missing :
            \/ \E b \in BOOLEAN : m = Lost(rec, b)
            \/ \E n \in DOMAIN log : /\ m = Lost(log[n], up[log[n].instance])
                                     /\ \A i \in DOMAIN log' : i \in DOMAIN log /\ i < n
  BY <1>0, CallLoses
<1>3. \/ /\ up' = up
         /\ chain' = [chain EXCEPT ![w] = Successor(rec.seq, rec.hash)]
      \/ /\ up' = [up EXCEPT ![w] = FALSE]
         /\ chain' = [chain EXCEPT ![w] = Fresh]
  OBVIOUS
<1> HIDE DEF rec
<1>4. /\ \A v \in Writers : chain[v].seq \in Nat
      /\ \A i \in DOMAIN log : log[i].seq \in Nat /\ log[i].instance \in Writers
      /\ missing \subseteq [writer : Writers, seq : Nat, live : BOOLEAN]
      /\ up \in [Writers -> BOOLEAN] /\ DOMAIN chain = Writers
  BY <1>0 DEF ChainInv, TypeOK
<1>5. ASSUME NEW v \in Writers, up'[v]
      PROVE  /\ up[v] /\ chain'[v].seq \in Nat
             /\ chain[v].seq <= chain'[v].seq
             /\ v = w => chain[v].seq < chain'[v].seq
  BY <1>1, <1>3, <1>4, <1>5 DEF Successor
<1> SUFFICES ASSUME NEW m \in missing', m.live
             PROVE  /\ up'[m.writer] => m.seq < chain'[m.writer].seq
                    /\ \A i \in Positions(log', m.writer) : log'[i].seq # m.seq
  BY DEF NumberIsSpent, Positions
<1>6. CASE m \in missing
  <2>1. /\ m.writer \in Writers /\ m.seq \in Nat
        /\ up[m.writer] => m.seq < chain[m.writer].seq
        /\ \A i \in Positions(log, m.writer) : log[i].seq # m.seq
    BY <1>0, <1>4, <1>6 DEF NumberIsSpent
  <2>2. up'[m.writer] => m.seq < chain'[m.writer].seq
    BY <1>4, <1>5, <2>1
  <2>3. ASSUME NEW i \in DOMAIN log', log'[i].instance = m.writer
        PROVE  log'[i].seq # m.seq
    <3>1. CASE i \in DOMAIN log /\ log'[i] = log[i]
      BY <2>1, <2>3, <3>1 DEF Positions
    <3>2. CASE log'[i] = rec
      BY <1>1, <1>4, <2>1, <2>3, <3>2
    <3> QED
      BY <1>2, <3>1, <3>2
  <2> QED
    BY <2>2, <2>3 DEF Positions
<1>7. CASE m \notin missing
  <2>0. \A i \in DOMAIN log' : i \in DOMAIN log /\ log'[i] = log[i]
    BY <1>2, <1>7
  <2>1. CASE \E b \in BOOLEAN : m = Lost(rec, b)
    <3>1. m.writer = w /\ m.seq = chain[w].seq
      BY <1>1, <2>1 DEF Lost
    <3> QED
      BY <1>1, <1>4, <1>5, <2>0, <3>1 DEF Positions
  <2>2. CASE \E n \in DOMAIN log : /\ m = Lost(log[n], up[log[n].instance])
                                   /\ \A i \in DOMAIN log' : i \in DOMAIN log /\ i < n
    <3>1. PICK n \in DOMAIN log : /\ m = Lost(log[n], up[log[n].instance])
                                  /\ \A i \in DOMAIN log' : i \in DOMAIN log /\ i < n
      BY <2>2
    <3>2. m.writer = log[n].instance /\ m.seq = log[n].seq /\ up[m.writer]
      BY <3>1 DEF Lost
    <3>3. m.writer \in Writers /\ m.seq \in Nat /\ m.seq < chain[m.writer].seq
      BY <1>0, <1>4, <3>2 DEF ChainInv, AheadOfLog, Positions
    <3>4. ASSUME NEW i \in DOMAIN log', log'[i].instance = m.writer
          PROVE  log'[i].seq # m.seq
      <4>1. /\ i \in DOMAIN log /\ i < n /\ log'[i] = log[i]
            /\ log[i].instance = log[n].instance
        BY <2>0, <3>1, <3>2, <3>4
      <4>2. log[i].seq < log[n].seq
        BY <1>0, <4>1 DEF ChainInv, Ordered
      <4> QED
        BY <1>4, <3>2, <4>1, <4>2
    <3> QED
      BY <1>4, <1>5, <3>3, <3>4 DEF Positions
  <2> QED
    BY <1>2, <1>7, <2>1, <2>2
<1> QED
  BY <1>6, <1>7

LEMMA NextLoss == LossInv /\ [Next]_vars => LossInv'
<1> SUFFICES ASSUME LossInv, [Next]_vars PROVE LossInv'
  OBVIOUS
<1>0. ChainInv /\ (\A m \in missing : NumberIsSpent(m)) /\ ChainInv'
  BY NextChain DEF LossInv
<1>1. ASSUME NEW w \in Writers, NEW body \in Bodies, Record(w, body)
      PROVE  \A m \in missing' : NumberIsSpent(m)'
  <2>1. /\ up[w] /\ chain[w].seq < MaxSeq /\ up' = up
        /\ chain' = [chain EXCEPT ![w] = Successor(Sealed(w, body).seq, Sealed(w, body).hash)]
        /\ Write(Sealed(w, body)) \/ Refuse(Sealed(w, body)) \/ Cut(Sealed(w, body), TRUE)
    BY <1>1 DEF Record
  <2> QED
    BY <2>1, WritingSpends
<1>2. ASSUME NEW w \in Writers, NEW body \in Bodies, CrashWriting(w, body)
      PROVE  \A m \in missing' : NumberIsSpent(m)'
  <2>1. /\ up[w] /\ chain[w].seq < MaxSeq
        /\ up' = [up EXCEPT ![w] = FALSE] /\ chain' = [chain EXCEPT ![w] = Fresh]
        /\ Cut(Sealed(w, body), FALSE)
    BY <1>2 DEF CrashWriting
  <2> QED
    BY <2>1, WritingSpends
<1>3. ASSUME NEW w \in Writers, Stop(w)
      PROVE  \A m \in missing' : NumberIsSpent(m)'
  <2>1. /\ log' = log /\ missing' = missing
        /\ \A v \in Writers : up'[v] => up[v] /\ chain'[v] = chain[v]
    BY <1>0, <1>3 DEF Stop, ChainInv, TypeOK
  <2>2. \A m \in missing : m.writer \in Writers
    BY <1>0 DEF ChainInv, TypeOK
  <2> QED
    BY <1>0, <2>1, <2>2 DEF NumberIsSpent, Positions
<1>4. ASSUME NEW w \in Writers, Start(w)
      PROVE  \A m \in missing' : NumberIsSpent(m)'
  <2>1. /\ log' = log /\ missing' = {[m EXCEPT !.live = @ /\ m.writer # w] : m \in missing}
        /\ \A v \in Writers \ {w} : up'[v] = up[v] /\ chain'[v] = chain[v]
    BY <1>0, <1>4 DEF Start, SeedFromTail, ChainInv, TypeOK
  <2>2. \A m \in missing : m \in [writer : Writers, seq : 0 .. MaxSeq - 1, live : BOOLEAN]
    BY <1>0 DEF ChainInv, TypeOK
  <2>3. ASSUME NEW m \in missing', m.live
        PROVE  m \in missing /\ m.writer \in Writers \ {w}
    <3>1. PICK o \in missing : m = [o EXCEPT !.live = @ /\ o.writer # w]
      BY <2>1
    <3>2. o.live /\ o.writer # w /\ m.writer = o.writer /\ m.seq = o.seq /\ m.live = TRUE
      BY <2>2, <2>3, <3>1
    <3>3. m = o
      BY <2>2, <3>1, <3>2
    <3> QED
      BY <2>2, <3>2, <3>3
  <2> QED
    BY <1>0, <2>1, <2>3 DEF NumberIsSpent, Positions
<1>5. CASE UNCHANGED vars
  <2>1. log' = log /\ up' = up /\ chain' = chain /\ missing' = missing
    BY <1>5 DEF vars
  <2> QED
    BY <1>0, <2>1 DEF LossInv, NumberIsSpent, Positions
<1> QED
  BY <1>0, <1>1, <1>2, <1>3, <1>4, <1>5 DEF Next, LossInv

LEMMA LeastExists ==
    ASSUME NEW T \in SUBSET Nat, T # {}
    PROVE  \E x \in T : \A y \in T : x <= y
<1> DEFINE R == {ss \in Nat \X Nat : ss[1] < ss[2]}
<1>1. IsWellFoundedOn(R, Nat)
  BY NatLessThanWellFounded DEF OpToRel
<1>2. PICK x \in T : \A y \in T : ~(<<y, x>> \in R)
  BY <1>1, WFMin
<1>3. ASSUME NEW y \in T PROVE x <= y
  <2>1. ~(<<y, x>> \in R) /\ x \in Nat /\ y \in Nat
    BY <1>2
  <2>2. <<y, x>> \in Nat \X Nat /\ <<y, x>>[1] = y /\ <<y, x>>[2] = x
    BY <2>1
  <2> QED
    BY <2>1, <2>2
<1> QED
  BY <1>2, <1>3

\* Between a lower and a higher number of one writer, a file that verifies has
\* every number.
LEMMA NoNumberIsSkipped ==
    ASSUME ChainInv, Verifies(log), NEW w \in Writers, NEW n \in Nat,
           NEW i \in Positions(log, w), NEW j \in Positions(log, w),
           log[i].seq < n, n < log[j].seq
    PROVE  \E k \in Positions(log, w) : log[k].seq = n
<1>1. /\ \A k \in DOMAIN log : k \in Nat /\ log[k].seq \in Nat
      /\ \A k, l \in Positions(log, w) : k < l => log[k].seq < log[l].seq
  BY DEF ChainInv, TypeOK, Ordered, Positions
<1> DEFINE Below == {k \in Positions(log, w) : log[k].seq < n}
           Gaps == {n - log[k].seq : k \in Below}
<1>2. Gaps \in SUBSET Nat /\ Gaps # {}
  BY <1>1 DEF Positions
<1>3. PICK g \in Gaps : \A h \in Gaps : g <= h
  <2> HIDE DEF Gaps
  <2> QED
    BY <1>2, LeastExists
<1>4. PICK k \in Below : g = n - log[k].seq
  BY <1>3
<1>5. k \in DOMAIN log /\ log[k].instance = w /\ log[k].seq < n /\ log[k].seq \in Nat
  BY <1>1, <1>4 DEF Positions
<1>6. j \in DOMAIN log /\ log[j].instance = w /\ log[j].seq \in Nat /\ k < j
  <2>1. j \in DOMAIN log /\ log[j].instance = w
    BY DEF Positions
  <2>2. ~(j < k) /\ j # k
    <3>1. CASE j < k
      BY <1>1, <1>4, <1>5, <2>1, <3>1
    <3>2. CASE j = k
      BY <1>1, <1>5, <2>1, <3>2
    <3> QED
      BY <3>1, <3>2
  <2> QED
    BY <1>1, <1>5, <2>1, <2>2
<1>7. PICK l \in DOMAIN log : Follows(log, k, l)
  BY <1>5, <1>6 DEF ChainInv, Ordered
<1>8. log[l].seq = log[k].seq + 1 /\ l \in Positions(log, w)
  BY <1>5, <1>7, LinkedNumbers DEF Follows, Positions
<1>9. ~(log[l].seq < n)
  <2> SUFFICES ASSUME log[l].seq < n PROVE FALSE
    OBVIOUS
  <2>1. n - log[l].seq \in Gaps
    BY <1>8
  <2>2. n - log[k].seq <= n - log[l].seq
    BY <1>3, <1>4, <2>1
  <2> QED
    BY <1>5, <1>8, <2>2
<1>10. log[l].seq = n
  BY <1>5, <1>8, <1>9
<1> QED
  BY <1>8, <1>10

\* Whatever the writers, records and faults: a record that cannot be read
\* shows, as long as its process runs on and the file has records around it.
THEOREM LossIsShown == Spec => []LossShows
<1>1. Init => LossInv
  BY InitChain DEF Init, LossInv
<1>2. LossInv => LossShows
  <2> SUFFICES ASSUME LossInv, NEW m \in missing, m.live, Surrounded(m), Verifies(log)
               PROVE  FALSE
    BY DEF LossShows
  <2>1. m.writer \in Writers /\ m.seq \in Nat
    BY DEF LossInv, ChainInv, TypeOK
  <2>2. PICK i \in Positions(log, m.writer), j \in Positions(log, m.writer) :
           log[i].seq < m.seq /\ m.seq < log[j].seq
    BY DEF Surrounded
  <2>3. \E k \in Positions(log, m.writer) : log[k].seq = m.seq
    BY <2>1, <2>2, NoNumberIsSkipped DEF LossInv
  <2> QED
    BY <2>3 DEF LossInv, NumberIsSpent
<1> QED
  BY <1>1, <1>2, NextLoss, PTL DEF Spec
=============================================================================
