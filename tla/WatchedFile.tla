---------------------------- MODULE WatchedFile ----------------------------
(***************************************************************************)
(* One file that a workload watches: bundle.json or key.pem, as its writers *)
(* leave it and as os.stat and a read show it.  The contents are numbered:  *)
(* version v is the v-th complete document the file has held.  A writer     *)
(* either renames a finished file over the old one (a Kubernetes secret     *)
(* sync) or truncates the file and fills it again, which is what            *)
(* write_text and write_bytes do in the provisioning code.  The file may    *)
(* also be removed, as remove_service removes key.pem, and come back.       *)
(***************************************************************************)
EXTENDS Naturals

CONSTANTS
  MaxVersion,  \* bound: how many complete documents the file ever holds
  SizeOf,      \* the size in bytes of each version
  Coarse,      \* TRUE: two writes may fall into one tick of the mtime clock
  InPlace      \* TRUE: some writers truncate and fill instead of renaming

ASSUME MaxVersionAssumption == MaxVersion \in Nat \ {0}
ASSUME SizeOfAssumption == SizeOf \in [1..MaxVersion -> Nat \ {0}]
ASSUME FlagsAssumption == Coarse \in BOOLEAN /\ InPlace \in BOOLEAN

VARIABLES
  version,  \* the newest complete document
  there,    \* FALSE while the file is removed
  intact,   \* there, and not between a truncation and the fill that follows it
  mtime     \* the modification time

fileVars == <<version, there, intact, mtime>>

Versions == 1..MaxVersion
NoVersion == 0

FileTypeOK ==
  /\ version \in Versions
  /\ there \in BOOLEAN
  /\ intact \in BOOLEAN
  /\ intact => there
  /\ mtime \in Nat

FileInit ==
  /\ version = 1
  /\ there = TRUE
  /\ intact = TRUE
  /\ mtime = 0

\* A mistake to be caught: a change of size is not looked at.
StampWithoutSize == <<mtime, 0>>

\* What a stat returns of the file: its mtime and its size.
FileStamp == <<mtime, IF intact THEN SizeOf[version] ELSE 0>>

\* A stat taken now would return s.
Shows(s) == there /\ s = FileStamp

\* Every write sets the mtime.  With a coarse clock the new mtime may be the
\* one the file already had.
Touch == \/ mtime' = mtime + 1
         \/ Coarse /\ mtime' = mtime

Replace ==
  /\ version < MaxVersion
  /\ version' = version + 1
  /\ there' = TRUE
  /\ intact' = TRUE
  /\ Touch

\* A removed file is created, empty; a complete one is emptied.
Truncate ==
  /\ InPlace
  /\ there => intact
  /\ version < MaxVersion
  /\ there' = TRUE
  /\ intact' = FALSE
  /\ Touch
  /\ UNCHANGED version

Fill ==
  /\ there /\ ~intact
  /\ version < MaxVersion
  /\ intact' = TRUE
  /\ version' = version + 1
  /\ Touch
  /\ UNCHANGED there

\* Bound: an empty file is not removed.
Remove ==
  /\ intact
  /\ there' = FALSE
  /\ intact' = FALSE
  /\ UNCHANGED <<version, mtime>>

FileNext == Replace \/ Truncate \/ Fill \/ Remove

\* Two different documents never carry the same stamp: either the clock
\* separates any two writes, or every document has a size of its own and
\* arrives by rename.
StampsDistinguish ==
  \/ ~Coarse
  \/ /\ ~InPlace
     /\ \A v, w \in Versions : SizeOf[v] = SizeOf[w] => v = w
=============================================================================
