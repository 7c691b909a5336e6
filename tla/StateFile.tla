------------------------------ MODULE StateFile -----------------------------
(***************************************************************************)
(* A JSON state file between processes: the crawler's stats and the        *)
(* indexer's timeline are written to a temporary file and renamed over the *)
(* old one; threads of the API read them through _cached_json, which keeps *)
(* a parse with the identity of the file it was made from.  One process    *)
(* writes a file, so versions are numbers; the identity (modification time *)
(* in nanoseconds, size, inode) tells any two apart.                       *)
(***************************************************************************)
EXTENDS Naturals

CONSTANTS
    Reader,        \* threads of the API
    MaxVersions    \* bound: files written

ASSUME StateFileAssumption == MaxVersions \in Nat

VARIABLES
    onDisk,        \* version under the file's name, 0 while there is none
    temporary,     \* the temporary file: [version, whole]
    lastVersion,   \* versions begun
    parsed,        \* _parse_cache: [identity, version], identity 0 for none
    reading        \* reader -> [at, identity, version, since]

stateFileVars == <<onDisk, temporary, lastVersion, parsed, reading>>

NoTemporary == [version |-> 0, whole |-> FALSE]
Resting == [at |-> "idle", identity |-> 0, version |-> 0, since |-> 0]

StateFileInit ==
    /\ onDisk = 0 /\ temporary = NoTemporary /\ lastVersion = 0
    /\ parsed = [identity |-> 0, version |-> 0]
    /\ reading = [r \in Reader |-> Resting]

\* fs::write creates or truncates the temporary file, then fills it; a writer
\* that is killed, or whose disk is full, leaves it for the next to truncate.
BeginTemporary ==
    /\ lastVersion < MaxVersions
    /\ lastVersion' = lastVersion + 1
    /\ temporary' = [version |-> lastVersion + 1, whole |-> FALSE]
    /\ UNCHANGED <<onDisk, parsed, reading>>

FillTemporary ==
    /\ temporary # NoTemporary /\ ~temporary.whole
    /\ temporary' = [temporary EXCEPT !.whole = TRUE]
    /\ UNCHANGED <<onDisk, lastVersion, parsed, reading>>

Rename ==
    /\ temporary.whole
    /\ onDisk' = temporary.version
    /\ temporary' = NoTemporary
    /\ UNCHANGED <<lastVersion, parsed, reading>>

-----------------------------------------------------------------------------
\* A call begins: stat; no file is no reading.
Stat(r) ==
    /\ reading[r].at \in {"idle", "returned"} /\ onDisk # 0
    /\ reading' = [reading EXCEPT ![r] =
          [at |-> "statted", identity |-> onDisk, version |-> 0, since |-> onDisk]]
    /\ UNCHANGED <<onDisk, temporary, lastVersion, parsed>>

\* Under the lock: the parse of this very file is returned.
Hit(r) ==
    /\ reading[r].at = "statted" /\ parsed.identity = reading[r].identity
    /\ reading' = [reading EXCEPT ![r].at = "returned", ![r].version = parsed.version]
    /\ UNCHANGED <<onDisk, temporary, lastVersion, parsed>>

Miss(r) ==
    /\ reading[r].at = "statted" /\ parsed.identity # reading[r].identity
    /\ reading' = [reading EXCEPT ![r].at = "missed"]
    /\ UNCHANGED <<onDisk, temporary, lastVersion, parsed>>

\* An open file stays what it is when another takes its name.
ReadText(r) ==
    /\ reading[r].at = "missed"
    /\ reading' = [reading EXCEPT ![r].at = "read", ![r].version = onDisk]
    /\ UNCHANGED <<onDisk, temporary, lastVersion, parsed>>

\* (mutant: the identity is taken when the parse is stored)
StatToStore(r) == onDisk
IdentityToStore(r) == reading[r].identity

Store(r) ==
    /\ reading[r].at = "read"
    /\ parsed' = [identity |-> IdentityToStore(r), version |-> reading[r].version]
    /\ reading' = [reading EXCEPT ![r].at = "returned"]
    /\ UNCHANGED <<onDisk, temporary, lastVersion>>

StateFileNext ==
    \/ BeginTemporary \/ FillTemporary \/ Rename
    \/ \E r \in Reader : Stat(r) \/ Hit(r) \/ Miss(r) \/ ReadText(r) \/ Store(r)

StateFileSpec == StateFileInit /\ [][StateFileNext]_stateFileVars

-----------------------------------------------------------------------------
(***************************************************************************)
(* A call of _cached_json returns a version no older than the file that    *)
(* was there when it began, whatever was renamed over it between stat,     *)
(* lookup, read and store, and whichever threads store in which order; and *)
(* so an old parse is never served once the file has changed.              *)
(***************************************************************************)
ReadsAreFresh ==
    /\ \A r \in Reader : reading[r].at = "returned" =>
          reading[r].version \in reading[r].since .. onDisk
    /\ parsed.version >= parsed.identity

(***************************************************************************)
(* Why: versions are renamed in the order they are begun, and what a       *)
(* reader or the cache holds was read after its identity was taken.        *)
(***************************************************************************)
StateFileTypeOK ==
    /\ onDisk \in Nat /\ lastVersion \in Nat
    /\ temporary \in [version : Nat, whole : BOOLEAN]
    /\ parsed \in [identity : Nat, version : Nat]
    /\ reading \in [Reader -> [at : {"idle", "statted", "missed", "read", "returned"},
                               identity : Nat, version : Nat, since : Nat]]

RenamesAscend ==
    /\ onDisk <= lastVersion /\ temporary.version <= lastVersion
    /\ temporary # NoTemporary => onDisk < temporary.version

ReadAfterStat ==
    /\ parsed.version \in parsed.identity .. onDisk
    /\ \A r \in Reader :
          /\ reading[r].at # "idle" =>
                reading[r].identity = reading[r].since /\ reading[r].since <= onDisk
          /\ reading[r].at \in {"read", "returned"} =>
                reading[r].version \in reading[r].since .. onDisk

StateFileIInv == StateFileTypeOK /\ RenamesAscend /\ ReadAfterStat
=============================================================================
