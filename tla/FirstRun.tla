------------------------------ MODULE FirstRun ------------------------------
(***************************************************************************)
(* The first-run bootstrap of a home deployment (bootstrap.py): what the   *)
(* operator does not provide in the environment is taken from a file under *)
(* BFF_STATE_DIR, or generated and written there, before create_app        *)
(* (main.py) starts to serve with it.                                      *)
(*                                                                         *)
(* The file is truncated and then written, the login is announced after    *)
(* that; a start may be killed between any two of these, the disk may be   *)
(* full and the directory may be missing.  The environment of one start is *)
(* not that of the next.  A secret is a number, given out in the order the *)
(* secrets are generated; None stands for one that is not there.           *)
(***************************************************************************)
EXTENDS Integers, FiniteSets

CONSTANTS
    Secrets,        \* the secrets the bootstrap fills in
    Password,       \* of these, the admin password
    CookieSecret,   \* and the one that signs the cookie
    Earlier,        \* and those an earlier version kept already
    ShortWrites,    \* BOOLEAN: os.write may write a part and raise nothing
    MaxBoots        \* bound on the starts of the process

ASSUME SecretsAssumption ==
    /\ Password \in Secrets
    /\ CookieSecret \in Secrets
    /\ Earlier \subseteq Secrets
    /\ IsFiniteSet(Secrets)
ASSUME BoundAssumption == MaxBoots \in Nat
ASSUME ShortWritesAssumption == ShortWrites \in BOOLEAN

None == 0
Operators == -1             \* a value the operator chose
Generated(v) == v > 0

NoFile == [s \in Secrets |-> None]   \* also a cut file: it has no JSON object

VARIABLES
    phase,      \* "down" or the next step of the start; "up" when it serves
    file,       \* what bootstrap.json holds
    settings,   \* the secrets of this start
    toPersist,  \* _bootstrap's to_persist
    fresh,      \* the secrets this start generated
    issued,     \* how many secrets have been generated
    announced,  \* the password of the last banner
    boots,      \* starts so far
    seen        \* history: the generated secrets served with since the file
                \* was last cut, deleted or could not be read

bootVars == <<phase, file, settings, toPersist, fresh, issued, announced, boots, seen>>

Forgotten == [s \in Secrets |-> None]

\* New secrets, each a number of its own.
Numbering(new, last) ==
    CHOOSE f \in [new -> last + 1 .. last + Cardinality(new)] :
        \A s, t \in new : s # t => f[s] # f[t]

\* A directory that is new, or one whose file an earlier version wrote.
BootInit ==
    /\ phase = "down"
    /\ \E kept \in {{}, Earlier} :
           /\ issued = Cardinality(kept)
           /\ file = [s \in Secrets |-> IF s \in kept THEN Numbering(kept, 0)[s] ELSE None]
    /\ settings = Forgotten
    /\ toPersist = NoFile
    /\ fresh = {}
    /\ announced = file[Password]
    /\ boots = 0
    /\ seen = file

\* _bootstrap's choice for each secret: the environment, the file, a new one.
Missing(given, stored) == {s \in Secrets \ given : stored[s] = None}
Resolved(given, stored) ==
    [s \in Secrets |-> IF s \in given THEN Operators
                       ELSE IF stored[s] # None THEN stored[s]
                       ELSE Numbering(Missing(given, stored), issued)[s]]

\* to_persist: everything that was stored and what is new.
OnlyNewMutant(given, stored) ==
    [s \in Secrets |-> IF s \in Missing(given, stored) THEN Resolved(given, stored)[s] ELSE None]
ToPersist(given, stored) ==
    [s \in Secrets |-> IF s \in Missing(given, stored) THEN Resolved(given, stored)[s] ELSE stored[s]]

\* load_settings and _load.  The file may be there and not be readable, which
\* _load takes for a file without secrets.
Boot ==
    /\ phase = "down"
    /\ boots < MaxBoots
    /\ \E given \in SUBSET Secrets, stored \in {file, NoFile} :
           /\ settings' = Resolved(given, stored)
           /\ toPersist' = ToPersist(given, stored)
           /\ fresh' = Missing(given, stored)
           /\ issued' = issued + Cardinality(Missing(given, stored))
           /\ phase' = IF toPersist' = stored THEN "start" ELSE "truncate"
           /\ seen' = IF stored = file THEN seen ELSE Forgotten
    /\ boots' = boots + 1
    /\ UNCHANGED <<file, announced>>

\* load_settings: what the environment provides and nothing else.
FromEnvironment(given) == [s \in Secrets |-> IF s \in given THEN Operators ELSE None]

\* What a start goes on with when the directory or the file fails it: the
\* environment alone.
KeepGeneratedMutant == settings
AfterOSError == FromEnvironment({s \in Secrets : settings[s] = Operators})

\* The directory is not there at all, or cannot be searched.
BootWithoutState ==
    /\ phase = "down"
    /\ boots < MaxBoots
    /\ \E given \in SUBSET Secrets : settings' = FromEnvironment(given)
    /\ fresh' = {}
    /\ phase' = "start"
    /\ boots' = boots + 1
    /\ UNCHANGED <<file, toPersist, issued, announced, seen>>

\* _save opens the file, which empties it.
Truncate ==
    /\ phase = "truncate"
    /\ file' = NoFile
    /\ phase' = "write"
    /\ UNCHANGED <<settings, toPersist, fresh, issued, announced, boots, seen>>

\* os.write, whose count nobody looks at.
Write ==
    /\ phase = "write"
    /\ file' \in {toPersist} \cup (IF ShortWrites THEN {NoFile} ELSE {})
    /\ phase' = "announce"
    /\ UNCHANGED <<settings, toPersist, fresh, issued, announced, boots, seen>>

\* What was served with is lost with a file that stays cut.
CutNow == seen' = IF phase = "write" THEN Forgotten ELSE seen

\* The file cannot be opened (it stays as it is) or the disk is full (it
\* stays empty).
SaveFails ==
    /\ phase \in {"truncate", "write"}
    /\ settings' = AfterOSError
    /\ fresh' = {}
    /\ CutNow
    /\ phase' = "start"
    /\ UNCHANGED <<file, toPersist, issued, announced, boots>>

\* _announce_login.
Announce ==
    /\ phase = "announce"
    /\ announced' = IF Password \in fresh THEN settings[Password] ELSE announced
    /\ phase' = "start"
    /\ UNCHANGED <<file, settings, toPersist, fresh, issued, boots, seen>>

\* create_app refuses the default cookie secret where COOKIE_SECURE is set.
Start ==
    /\ phase = "start"
    /\ phase' \in IF settings[CookieSecret] = None THEN {"down", "up"} ELSE {"up"}
    /\ seen' = IF phase' = "up"
               THEN [s \in Secrets |-> IF Generated(settings[s]) THEN settings[s] ELSE seen[s]]
               ELSE seen
    /\ settings' = IF phase' = "up" THEN settings ELSE Forgotten
    /\ toPersist' = NoFile
    /\ fresh' = {}
    /\ UNCHANGED <<file, issued, announced, boots>>

\* The process is stopped or killed.
Stop ==
    /\ phase # "down"
    /\ phase' = "down"
    /\ CutNow
    /\ settings' = Forgotten
    /\ toPersist' = NoFile
    /\ fresh' = {}
    /\ UNCHANGED <<file, issued, announced, boots>>

\* The operator deletes the file, "to generate a new one" (143).
DeleteFile ==
    /\ phase = "down"
    /\ file # NoFile
    /\ file' = NoFile
    /\ seen' = Forgotten
    /\ UNCHANGED <<phase, settings, toPersist, fresh, issued, announced, boots>>

BootStep ==
    \/ Boot \/ BootWithoutState \/ Truncate \/ Write \/ SaveFails
    \/ Announce \/ Start \/ DeleteFile

BootNext == BootStep \/ Stop

BootSpec == BootInit /\ [][BootNext]_bootVars

-----------------------------------------------------------------------------
(* Properties.                                                             *)

Values == {None, Operators} \cup 1 .. issued

BootTypeOK ==
    /\ phase \in {"down", "truncate", "write", "announce", "start", "up"}
    /\ file \in [Secrets -> Values]
    /\ settings \in [Secrets -> Values]
    /\ toPersist \in [Secrets -> Values]
    /\ fresh \subseteq Secrets
    /\ issued \in Nat
    /\ announced \in Values
    /\ boots \in 0 .. MaxBoots
    /\ seen \in [Secrets -> Values]

\* No process serves with a generated secret that the file does not hold,
\* whatever failed on the way: it could not be told to the operator, and
\* records sealed with it could not be opened after a restart (47-54, 114).
\* It does after a short write, which is why a run with ShortWrites refutes it.
RunsOnStoredSecrets ==
    BootTypeOK /\ (phase \in {"announce", "start", "up"} =>
        \A s \in Secrets : Generated(settings[s]) => file[s] = settings[s])

\* A generated secret that was served with is served with again, over
\* restarts that take it from the environment or add others to the file,
\* until the file is deleted, unreadable or cut (bootstrap.py, 19-20).
SecretsSurvive ==
    [][phase' = "up" =>
           \A s \in Secrets :
               Generated(settings[s]) /\ seen[s] # None => settings[s] = seen[s]]_bootVars

\* A start that was writing does not leave the file without what it held
\* ("a previously persisted value is reused", bootstrap.py, 18-19).  It does
\* when the disk is full or the process killed once the file is cut.
FileIsNotLeftCut == [][phase = "write" /\ phase' # "write" => file' # NoFile]_bootVars

\* A console that serves with a password it generated has told it to the
\* operator (bootstrap.py, 116-119).  A start killed between saving and telling
\* leaves it to the file alone: the next one finds it there and is silent.
PasswordIsAnnounced ==
    phase = "up" /\ Generated(settings[Password]) => announced = settings[Password]
=============================================================================
