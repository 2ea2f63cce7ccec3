----------------------------- MODULE Provision -----------------------------
(***************************************************************************)
(* The provisioning directory and the four operations on it: init_root,     *)
(* add_service, rotate_service and remove_service.  An operation is a       *)
(* sequence of file-system calls without a lock; it may be cut short        *)
(* between any two of them, and several producers may run at once.          *)
(*                                                                         *)
(* bundle.json is a map from names to sets of public keys, the empty set    *)
(* for a name without an entry; a public key is identified with its private *)
(* key.  Both files are written in place: a truncation, then a fill.        *)
(***************************************************************************)
CONSTANTS
  Names,      \* service names
  Below,      \* Below[n]: the names nested under n, as a/b is under a
  Producers,  \* processes that may run a provisioning operation
  Keys,       \* bound: the key pairs that can ever be generated
  NoName,     \* the owner of a key that has not been written
  NoKey,      \* no key file
  TornKey,    \* a key file truncated and not filled
  Recursive   \* TRUE: remove deletes the whole tree (Go, TypeScript);
              \* FALSE: it unlinks two files and a directory (Python)

ASSUME NamesAssumption == Names # {}
ASSUME BelowAssumption ==
  Below \in [Names -> SUBSET Names] /\ \A n \in Names : n \notin Below[n]
ASSUME KeysAssumption == {NoKey, TornKey} \cap Keys = {} /\ NoKey # TornKey
ASSUME NoNameAssumption == NoName \notin Names
ASSUME RecursiveAssumption == Recursive \in BOOLEAN

VARIABLES
  status,   \* of bundle.json: "missing", "torn" or "complete"
  listed,   \* its content when complete, and when torn what it last was
  keyFile,  \* services/<name>/key.pem
  idFile,   \* whether services/<name>/id is there
  dir,      \* whether the directory services/<name> is there
  pc,       \* per producer: the next file-system call
  job,      \* per producer: the operation and what it has read
  last,     \* per producer: history only, how its last operation ended
  owner,    \* history only: the service each key was made for once written
  revoked   \* history only: the keys that a complete bundle has ceased to list

files == <<status, listed, keyFile, idFile, dir>>
history == <<last, owner, revoked>>
vars == <<files, pc, job, history>>

Ops == {"init", "add", "rotate", "remove"}
Docs == [Names -> SUBSET Keys]
EmptyDoc == [n \in Names |-> {}]

Keyed == {"add", "rotate"}
Jobs ==
  [op : Keyed, name : Names, keep : BOOLEAN, key : Keys, seen : Docs]
    \cup [op : Ops \ Keyed, name : Names, keep : BOOLEAN, key : {NoKey}, seen : Docs]
\* How an operation ends: returned, raised, or killed on the way.
Endings == {"returned", "raised", "killed"}

TypeOK ==
  /\ status \in {"missing", "torn", "complete"}
  /\ listed \in Docs
  /\ keyFile \in [Names -> Keys \cup {NoKey, TornKey}]
  /\ idFile \in [Names -> BOOLEAN]
  /\ dir \in [Names -> BOOLEAN]
  /\ pc \in [Producers -> {"idle", "check", "key", "fillKey", "id", "bundle",
                           "fillBundle", "unlinkId", "unlinkKey", "rmdir"}]
  /\ job \in [Producers -> Jobs]
  /\ \A p \in Producers :
       pc[p] \in {"check", "key", "fillKey", "id"} => job[p].op \in Keyed
  /\ last \in [Producers -> Endings]
  /\ owner \in [Keys -> Names \cup {NoName}]
  /\ revoked \subseteq Keys

NoJob == [op |-> "init", name |-> CHOOSE n \in Names : TRUE, keep |-> FALSE,
          key |-> NoKey, seen |-> EmptyDoc]

Init ==
  /\ status = "missing"
  /\ listed = EmptyDoc
  /\ keyFile = [n \in Names |-> NoKey]
  /\ idFile = [n \in Names |-> FALSE]
  /\ dir = [n \in Names |-> FALSE]
  /\ pc = [p \in Producers |-> "idle"]
  /\ job = [p \in Producers |-> NoJob]
  /\ last = [p \in Producers |-> "raised"]
  /\ owner = [k \in Keys |-> NoName]
  /\ revoked = {}

Goto(p, l) == pc' = [pc EXCEPT ![p] = l]

\* Producer p's operation is over.
End(p, how) ==
  /\ Goto(p, "idle")
  /\ last' = [last EXCEPT ![p] = how]

Busy == {p \in Producers : pc[p] # "idle"}
Fresh == {k \in Keys : owner[k] = NoName /\ \A p \in Busy : job[p].key # k}

-----------------------------------------------------------------------------
(* Entering an operation *)

Start(p, j, l) ==
  /\ pc[p] = "idle"
  /\ job' = [job EXCEPT ![p] = j]
  /\ Goto(p, l)
  /\ UNCHANGED <<files, history>>

\* A mistake to be caught: an init_root that takes a bundle it cannot read for none.
StartInitTorn(p) ==
  /\ status # "complete"
  /\ Start(p, NoJob, "bundle")

\* init_root proceeds only when there is no bundle.
StartInit(p) ==
  /\ status = "missing"
  /\ Start(p, NoJob, "bundle")

\* Mistakes to be caught: a service added without a key of its own, ...
StartAddKeyless(p) ==
  /\ status = "complete"
  /\ \E n \in Names, k \in Fresh :
       Start(p, [op |-> "add", name |-> n, keep |-> FALSE, key |-> NoKey, seen |-> listed],
             "check")

\* ... a producer that works on the bundle its previous operation read, ...
StartRotateStale(p) ==
  /\ status = "complete"
  /\ \E n \in Names, k \in Fresh, keep \in BOOLEAN :
       Start(p, [op |-> "rotate", name |-> n, keep |-> keep, key |-> k, seen |-> job[p].seen],
             "check")

\* ... and one that deletes the files before, or without, revoking.
StartRemoveFiles(p) ==
  /\ status = "complete"
  /\ \E n \in Names :
       Start(p, [op |-> "remove", name |-> n, keep |-> FALSE, key |-> NoKey, seen |-> listed],
             "unlinkId")

\* The other three read the bundle first.  The key pair that add and rotate
\* generate on the way is chosen here; it has an owner once it is written.
StartAdd(p) ==
  /\ status = "complete"
  /\ \E n \in Names, k \in Fresh :
       Start(p, [op |-> "add", name |-> n, keep |-> FALSE, key |-> k, seen |-> listed],
             "check")

StartRotate(p) ==
  /\ status = "complete"
  /\ \E n \in Names, k \in Fresh, keep \in BOOLEAN :
       Start(p, [op |-> "rotate", name |-> n, keep |-> keep, key |-> k, seen |-> listed],
             "check")

StartRemove(p) ==
  /\ status = "complete"
  /\ \E n \in Names :
       Start(p, [op |-> "remove", name |-> n, keep |-> FALSE, key |-> NoKey, seen |-> listed],
             "bundle")

\* init_root on an initialized root, or any other operation without a readable
\* bundle, raises.
Refuse(p) ==
  /\ pc[p] = "idle"
  /\ End(p, "raised")
  /\ job' = [job EXCEPT ![p] = NoJob]
  /\ UNCHANGED <<files, owner, revoked>>

-----------------------------------------------------------------------------
(* The file-system calls *)

Here(p, l) == pc[p] = l

\* add_service leaves a service that has a key file alone.
AddExisting(p) ==
  /\ Here(p, "check")
  /\ job[p].op = "add"
  /\ keyFile[job[p].name] # NoKey
  /\ End(p, "returned")
  /\ UNCHANGED <<files, job, owner, revoked>>

\* mkdir with parents.
AddMkdir(p) ==
  /\ Here(p, "check")
  /\ job[p].op = "add"
  /\ keyFile[job[p].name] = NoKey
  /\ dir' = [n \in Names |-> dir[n] \/ n = job[p].name \/ job[p].name \in Below[n]]
  /\ Goto(p, "key")
  /\ UNCHANGED <<status, listed, keyFile, idFile, job, history>>

RotateUnknown(p) ==
  /\ Here(p, "check")
  /\ job[p].op = "rotate"
  /\ keyFile[job[p].name] = NoKey
  /\ End(p, "raised")
  /\ UNCHANGED <<files, job, owner, revoked>>

\* A mistake to be caught: the new key is listed but not written.
RotateUnwritten(p) ==
  /\ Here(p, "check")
  /\ job[p].op = "rotate"
  /\ keyFile[job[p].name] # NoKey
  /\ Goto(p, "bundle")
  /\ UNCHANGED <<files, job, history>>

RotateKnown(p) ==
  /\ Here(p, "check")
  /\ job[p].op = "rotate"
  /\ keyFile[job[p].name] # NoKey
  /\ Goto(p, "key")
  /\ UNCHANGED <<files, job, history>>

\* The directory is gone when another producer removed the service meanwhile.
KeyDirGone(p) ==
  /\ Here(p, "key")
  /\ ~dir[job[p].name]
  /\ End(p, "raised")
  /\ UNCHANGED <<files, job, owner, revoked>>

TruncateKey(p) ==
  /\ Here(p, "key")
  /\ dir[job[p].name]
  /\ keyFile' = [keyFile EXCEPT ![job[p].name] = TornKey]
  /\ Goto(p, "fillKey")
  /\ UNCHANGED <<status, listed, idFile, dir, job, history>>

\* What is written to a file unlinked since it was opened is lost.
FillKey(p) ==
  LET n == job[p].name IN
  /\ Here(p, "fillKey")
  /\ keyFile' = [keyFile EXCEPT ![n] = IF @ = NoKey THEN @ ELSE job[p].key]
  /\ owner' = [owner EXCEPT ![job[p].key] = n]
  /\ Goto(p, IF job[p].op = "add" THEN "id" ELSE "bundle")
  /\ UNCHANGED <<status, listed, idFile, dir, job, last, revoked>>

WriteId(p) ==
  /\ Here(p, "id")
  /\ IF dir[job[p].name]
       THEN /\ idFile' = [idFile EXCEPT ![job[p].name] = TRUE]
            /\ Goto(p, "bundle")
            /\ UNCHANGED last
       ELSE /\ End(p, "raised")
            /\ UNCHANGED idFile
  /\ UNCHANGED <<status, listed, keyFile, dir, job, owner, revoked>>

KeysIn(d) == UNION {d[n] : n \in Names}

\* Mistakes to be caught: a registration that writes the one entry only, ...
NewDocAlone(j) ==
  CASE j.op = "init"   -> EmptyDoc
    [] j.op = "add"    -> [EmptyDoc EXCEPT ![j.name] = {j.key}]
    [] j.op = "rotate" -> [j.seen EXCEPT ![j.name] = {j.key} \cup IF j.keep THEN @ ELSE {}]
    [] j.op = "remove" -> [j.seen EXCEPT ![j.name] = {}]

\* ... a rotation that keeps everybody's old keys, ...
NewDocMixed(j) ==
  CASE j.op = "init"   -> EmptyDoc
    [] j.op = "add"    -> [j.seen EXCEPT ![j.name] = {j.key}]
    [] j.op = "rotate" -> [j.seen EXCEPT ![j.name] = {j.key} \cup KeysIn(j.seen)]
    [] j.op = "remove" -> [j.seen EXCEPT ![j.name] = {}]

\* ... and a removal that leaves the entry.
NewDocUnrevoked(j) ==
  CASE j.op = "init"   -> EmptyDoc
    [] j.op = "add"    -> [j.seen EXCEPT ![j.name] = {j.key}]
    [] j.op = "rotate" -> [j.seen EXCEPT ![j.name] = {j.key} \cup IF j.keep THEN @ ELSE {}]
    [] j.op = "remove" -> j.seen

\* The document the operation writes: what it read, with one entry replaced.
NewDoc(j) ==
  CASE j.op = "init"   -> EmptyDoc
    [] j.op = "add"    -> [j.seen EXCEPT ![j.name] = {j.key}]
    [] j.op = "rotate" -> [j.seen EXCEPT ![j.name] = {j.key} \cup IF j.keep THEN @ ELSE {}]
    [] j.op = "remove" -> [j.seen EXCEPT ![j.name] = {}]

TruncateBundle(p) ==
  /\ Here(p, "bundle")
  /\ status' = "torn"
  /\ Goto(p, "fillBundle")
  /\ UNCHANGED <<listed, keyFile, idFile, dir, job, history>>

\* Two producers that both truncated before either filled may also leave a
\* mixture of both documents, which does not parse.
FillBundle(p) ==
  LET d == NewDoc(job[p]) IN
  /\ Here(p, "fillBundle")
  /\ \/ status' = "complete" /\ listed' = d
     \/ status = "complete" /\ status' = "torn" /\ UNCHANGED listed
  /\ revoked' = IF status' = "complete"
                  THEN revoked \cup (KeysIn(listed) \ KeysIn(d)) ELSE revoked
  /\ IF job[p].op = "remove"
       THEN Goto(p, "unlinkId") /\ UNCHANGED last
       ELSE End(p, "returned")
  /\ UNCHANGED <<keyFile, idFile, dir, job, owner>>

UnlinkId(p) ==
  /\ ~Recursive
  /\ Here(p, "unlinkId")
  /\ idFile' = [idFile EXCEPT ![job[p].name] = FALSE]
  /\ Goto(p, "unlinkKey")
  /\ UNCHANGED <<status, listed, keyFile, dir, job, history>>

UnlinkKey(p) ==
  /\ Here(p, "unlinkKey")
  /\ keyFile' = [keyFile EXCEPT ![job[p].name] = NoKey]
  /\ Goto(p, "rmdir")
  /\ UNCHANGED <<status, listed, idFile, dir, job, history>>

\* rmdir refuses a directory that is not empty: OSError after the revocation.
Rmdir(p) ==
  LET n == job[p].name
      empty == ~idFile[n] /\ keyFile[n] = NoKey /\ \A m \in Below[n] : ~dir[m] IN
  /\ Here(p, "rmdir")
  /\ IF dir[n] => empty
       THEN /\ dir' = [dir EXCEPT ![n] = FALSE]
            /\ End(p, "returned")
       ELSE /\ End(p, "raised")
            /\ UNCHANGED dir
  /\ UNCHANGED <<status, listed, keyFile, idFile, job, owner, revoked>>

\* os.RemoveAll and rmSync delete the directory and everything nested in it,
\* one file at a time in no particular order.
Tree(p) == {job[p].name} \cup Below[job[p].name]

RemoveFile(p) ==
  /\ Recursive
  /\ Here(p, "unlinkId")
  /\ \E n \in Tree(p) :
       \/ /\ idFile[n]
          /\ idFile' = [idFile EXCEPT ![n] = FALSE]
          /\ UNCHANGED keyFile
       \/ /\ keyFile[n] # NoKey
          /\ keyFile' = [keyFile EXCEPT ![n] = NoKey]
          /\ UNCHANGED idFile
  /\ UNCHANGED <<status, listed, dir, pc, job, history>>

RemoveDirs(p) ==
  /\ Recursive
  /\ Here(p, "unlinkId")
  /\ \A n \in Tree(p) : ~idFile[n] /\ keyFile[n] = NoKey
  /\ dir' = [n \in Names |-> dir[n] /\ n \notin Tree(p)]
  /\ End(p, "returned")
  /\ UNCHANGED <<status, listed, keyFile, idFile, job, owner, revoked>>

-----------------------------------------------------------------------------

Step(p) ==
  \/ StartInit(p) \/ StartAdd(p) \/ StartRotate(p) \/ StartRemove(p) \/ Refuse(p)
  \/ AddExisting(p) \/ AddMkdir(p) \/ RotateUnknown(p) \/ RotateKnown(p)
  \/ KeyDirGone(p) \/ TruncateKey(p) \/ FillKey(p) \/ WriteId(p)
  \/ TruncateBundle(p) \/ FillBundle(p)
  \/ UnlinkId(p) \/ UnlinkKey(p) \/ Rmdir(p) \/ RemoveFile(p) \/ RemoveDirs(p)

\* The producer is killed, or a call fails, between two file-system calls.
Crash(p) ==
  /\ pc[p] # "idle"
  /\ End(p, "killed")
  /\ UNCHANGED <<files, job, owner, revoked>>

Next == \E p \in Producers : Step(p)
CrashNext == Next \/ \E p \in Producers : Crash(p)

\* No operation is cut short ...
Spec == Init /\ [][Next]_vars
\* ... or any may be.
CrashSpec == Init /\ [][CrashNext]_vars

-----------------------------------------------------------------------------
(* Correctness *)

Returned(p, op) == pc[p] = "idle" /\ last[p] = "returned" /\ job[p].op = op

\* No key can sign for two names: a key that one service holds or is listed
\* under is never listed under, or held by, another.  Key lookup by the claimed
\* identity means nothing without it.  It holds for any number of producers,
\* whatever they lose of each other's work and wherever they are killed.
KeysOf(n) == (listed[n] \cup {keyFile[n]}) \cap Keys
Binding == \A n, m \in Names : n # m => KeysOf(n) \cap KeysOf(m) = {}

\* A rotation that returned has made the service's tokens verifiable, even if
\* operations before it were killed half-way: the key in key.pem is listed.  (An id
\* file that a kill kept add_service from writing stays missing.)
RotateRegisters ==
  \A p \in Producers : Returned(p, "rotate") =>
    /\ status = "complete"
    /\ keyFile[job[p].name] \in listed[job[p].name]

\* A removal that returned has revoked every key of the service and left none of
\* its files, whatever was killed before it.
RemoveRevokes ==
  \A p \in Producers : Returned(p, "remove") =>
    /\ status = "complete" /\ listed[job[p].name] = {}
    /\ keyFile[job[p].name] = NoKey /\ ~idFile[job[p].name]

\* Revocation is for good: a key that a complete bundle has ceased to list is
\* never listed again, by no later add, rotate or remove of any service.
RevokedStaysOut == status = "complete" => KeysIn(listed) \cap revoked = {}

\* Only a removal or a rotation that drops old keys revokes: any other write of
\* the bundle, above all the registration of one service, keeps every key that
\* peers may hold unexpired tokens of.
OnlyRevocationDrops ==
  [][~(KeysIn(listed) \subseteq KeysIn(listed')) =>
       \E p \in Producers : /\ pc[p] = "fillBundle"
                            /\ \/ job[p].op = "remove"
                               \/ job[p].op = "rotate" /\ ~job[p].keep
                            /\ \A n \in Names \ {job[p].name} :
                                 listed[n] \subseteq listed'[n]]_vars

\* A trusted service has its key file: add writes the key before the entry and
\* remove revokes before it deletes, so no kill leaves an entry without a key file.
\* (One in the write of a rotation leaves it truncated, until the next rotation.)
ListedHasKeyFile ==
  status = "complete" =>
    \A n \in Names : listed[n] # {} => keyFile[n] # NoKey

\* A kill while the bundle is written leaves a root that every operation refuses,
\* init_root too: nothing but the write that tears the bundle is ever under way on
\* a torn one, so that no operation writes or deletes key files beside a bundle
\* it cannot read, or starts a new one in its place.
TornIsLeftAlone ==
  status = "torn" => \A p \in Producers : pc[p] \in {"idle", "fillBundle"}

-----------------------------------------------------------------------------
(* What the files amount to *)

HeldKey == [n \in Names |-> IF keyFile[n] \in Keys THEN keyFile[n] ELSE NoKey]

R == INSTANCE Registry WITH
  readable <- status = "complete",
  held <- HeldKey,
  published <- KeysIn(listed) \cup revoked

\* Provisioning implements the registry: whatever the order of its calls and
\* wherever it is killed, a reader of the files sees the bundle change by one
\* entry at a time, keys written before they are listed, and none come back.
\* It takes a single producer: two lose each other's entries.
KeepsRegistry == R!RegistrySpec

-----------------------------------------------------------------------------
(* What the documents say *)

\* add_service registers the service's public key in the bundle, and is
\* idempotent on re-add (provision.py:49-51).
AddRegisters ==
  \A p \in Producers : Returned(p, "add") =>
    keyFile[job[p].name] \in listed[job[p].name]
=============================================================================
