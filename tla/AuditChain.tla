----------------------------- MODULE AuditChain -----------------------------
(***************************************************************************)
(* The console's hash-chained audit (audit.py): replicas that append to    *)
(* one file, each a chain of its own, with writes that fail, crashes in    *)
(* the middle of a write, restarts that continue the chain from the file's *)
(* tail, and the replay that verifies the file.                            *)
(*                                                                         *)
(* The hash is taken to be injective: a digest is what it was computed     *)
(* from.  A record's sealed content is a value of Bodies.                  *)
(***************************************************************************)
EXTENDS Naturals, Sequences

CONSTANTS
    Writers,    \* instance ids, each with one process at a time
    Bodies,
    Faults,     \* what may befall a write: "refused", "cut" (a part of the
                \* line is written, as on a full disk), "crash"
    MaxSeq      \* bound: records a chain may hold

ASSUME MaxSeqAssumption == MaxSeq \in Nat
ASSUME FaultsAssumption == Faults \subseteq {"refused", "cut", "crash"}

VARIABLES
    log,        \* the records a reader finds in the file, in file order
    tail,       \* how the file ends: "whole" lines, a "torn" one that is no
                \* record, or a record "unended" by a newline
    up,         \* which writers run
    chain,      \* a running writer's next sequence number and last digest
    missing     \* history: records that were accepted and cannot be read

vars == <<log, tail, up, chain, missing>>

Genesis == <<>>
Digest(seq, prev, instance, body) == <<seq, prev, instance, body>>

Fresh == [seq |-> 0, prev |-> Genesis]
Successor(seq, digest) == [seq |-> seq + 1, prev |-> digest]

Sealed(w, body) ==
    [instance |-> w, seq |-> chain[w].seq, prev |-> chain[w].prev, body |-> body,
     hash |-> Digest(chain[w].seq, chain[w].prev, w, body)]

Positions(records, w) == {i \in DOMAIN records : records[i].instance = w}

Init ==
    /\ log = <<>>
    /\ tail = "whole"
    /\ up = [w \in Writers |-> FALSE]
    /\ chain = [w \in Writers |-> Fresh]
    /\ missing = {}

-----------------------------------------------------------------------------
(* The file.                                                               *)

\* live says whether the process that wrote the record has run ever since.
Lost(rec, live) == [writer |-> rec.instance, seq |-> rec.seq, live |-> live]

\* What is written behind an unfinished line becomes a part of that line.
Kept == IF tail = "unended" THEN SubSeq(log, 1, Len(log) - 1) ELSE log

Garble(rec, live) ==
    /\ log' = Kept
    /\ missing' = missing \cup {Lost(rec, live)}
                    \cup {Lost(log[i], up[log[i].instance]) : i \in Len(Kept) + 1 .. Len(log)}

Write(rec) ==
    /\ tail' = "whole"
    /\ \/ tail = "whole" /\ log' = Append(log, rec) /\ UNCHANGED missing
       \/ tail # "whole" /\ Garble(rec, TRUE)

\* A part of the line, perhaps all of it but the newline.
Cut(rec, live) ==
    \/ /\ tail = "whole"
       /\ tail' = "unended"
       /\ log' = Append(log, rec)
       /\ UNCHANGED missing
    \/ tail' = "torn" /\ Garble(rec, live)

Refuse(rec) ==
    /\ missing' = missing \cup {Lost(rec, TRUE)}
    /\ UNCHANGED <<log, tail>>

-----------------------------------------------------------------------------
(* The writers.                                                            *)

\* AuditLog.record: the chain advances, then the line is written; an error
\* is printed and the chain stays advanced.
Record(w, body) ==
    /\ up[w]
    /\ chain[w].seq < MaxSeq
    /\ LET rec == Sealed(w, body) IN
       /\ chain' = [chain EXCEPT ![w] = Successor(rec.seq, rec.hash)]
       /\ \/ Write(rec)
          \/ "refused" \in Faults /\ Refuse(rec)
          \/ "cut" \in Faults /\ Cut(rec, TRUE)
    /\ UNCHANGED up

\* The process dies in the middle of a write.
CrashWriting(w, body) ==
    /\ "crash" \in Faults
    /\ up[w]
    /\ chain[w].seq < MaxSeq
    /\ up' = [up EXCEPT ![w] = FALSE]
    /\ chain' = [chain EXCEPT ![w] = Fresh]
    /\ Cut(Sealed(w, body), FALSE)

\* The process stops or dies between writes.
Stop(w) ==
    /\ up[w]
    /\ up' = [up EXCEPT ![w] = FALSE]
    /\ chain' = [chain EXCEPT ![w] = Fresh]
    /\ UNCHANGED <<log, tail, missing>>

\* _last_record: the last complete record with the writer's own id.
IsLast(records, w, i) ==
    /\ i \in Positions(records, w)
    /\ \A j \in Positions(records, w) : j <= i

CountingMutant(w) == chain' = [chain EXCEPT ![w] = Successor(Len(log), Genesis)]
UnseededMutant(w) == chain' = [chain EXCEPT ![w] = Fresh]
SeedFromTail(w) ==
    \/ Positions(log, w) = {} /\ chain' = [chain EXCEPT ![w] = Fresh]
    \/ \E i \in DOMAIN log :
          /\ IsLast(log, w, i)
          /\ chain' = [chain EXCEPT ![w] = Successor(log[i].seq, log[i].hash)]

Start(w) ==
    /\ ~up[w]
    /\ up' = [up EXCEPT ![w] = TRUE]
    /\ SeedFromTail(w)
    /\ missing' = {[m EXCEPT !.live = @ /\ m.writer # w] : m \in missing}
    /\ UNCHANGED <<log, tail>>

Next == \E w \in Writers :
    \/ \E body \in Bodies : Record(w, body) \/ CrashWriting(w, body)
    \/ Stop(w)
    \/ Start(w)

Spec == Init /\ [][Next]_vars

-----------------------------------------------------------------------------
(* Verification: the replay of verify_chain.                               *)

SelfTrustingMutant(rec) == TRUE
Unaltered(rec) == rec.hash = Digest(rec.seq, rec.prev, rec.instance, rec.body)

\* The record at j is the next of its writer after the one at i.
Follows(records, i, j) ==
    /\ i < j
    /\ records[i].instance = records[j].instance
    /\ \A k \in DOMAIN records :
          i < k /\ k < j => records[k].instance # records[i].instance

IncreasingMutant(earlier, later) == later.seq > earlier.seq
Links(earlier, later) ==
    [seq |-> later.seq, prev |-> later.prev] = Successor(earlier.seq, earlier.hash)

Verifies(records) ==
    /\ \A i \in DOMAIN records : Unaltered(records[i])
    /\ \A i, j \in DOMAIN records :
          Follows(records, i, j) => Links(records[i], records[j])

-----------------------------------------------------------------------------
(* Properties.                                                             *)

TypeOK ==
    /\ \A i \in DOMAIN log : log[i].instance \in Writers /\ log[i].seq \in 0 .. MaxSeq - 1
    /\ tail \in {"whole", "torn", "unended"}
    /\ up \in [Writers -> BOOLEAN]
    /\ chain \in [Writers -> [seq : 0 .. MaxSeq, prev : {chain[w].prev : w \in Writers}]]
    /\ missing \subseteq [writer : Writers, seq : 0 .. MaxSeq - 1, live : BOOLEAN]
    /\ tail = "unended" => log # <<>>

\* While every accepted record reached the file, the file verifies, however
\* replicas interleave and restart ("interleaved replicas are not mistaken
\* for tampering", "a restart continues the sub-chain").
HonestLogVerifies == missing = {} => Verifies(log)

Surrounded(m) ==
    \E i, j \in Positions(log, m.writer) : log[i].seq < m.seq /\ m.seq < log[j].seq

\* A record that cannot be read shows, if records of its writer with lower and
\* higher numbers are in the file and the process never restarted: the later
\* ones commit to it.
LossShows == \A m \in missing : m.live /\ Surrounded(m) => ~Verifies(log)

Altered(i, body) == [log EXCEPT ![i].body = body]
Without(i) == [k \in 1 .. Len(log) - 1 |-> log[IF k < i THEN k ELSE k + 1]]
Exchanged(i, j) == [log EXCEPT ![i] = log[j], ![j] = log[i]]

\* The replay of a file that verified fails once a record's content was
\* altered, a record between two of its writer was taken out, or two records
\* of a writer were exchanged (the verify_chain docstring).
DamageShows ==
    Verifies(log) =>
        \A i \in DOMAIN log :
            /\ \A body \in Bodies \ {log[i].body} : ~Verifies(Altered(i, body))
            /\ \A j \in Positions(log, log[i].instance) \ {i} : ~Verifies(Exchanged(i, j))
            /\ (\E h, j \in Positions(log, log[i].instance) : h < i /\ i < j)
                  => ~Verifies(Without(i))

-----------------------------------------------------------------------------
(* What the texts promise and the code does not keep in general (README).  *)

\* A restart continues the sub-chain "instead of looking like a reset": the
\* file verifies whatever happened to the processes.
LogVerifies == Verifies(log)

\* "editing, deleting or reordering any record is detectable by replay".
AnyDeletionShows ==
    Verifies(log) => \A i \in DOMAIN log : ~Verifies(Without(i))
=============================================================================
