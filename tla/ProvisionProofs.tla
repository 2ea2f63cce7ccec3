--------------------------- MODULE ProvisionProofs ---------------------------
(***************************************************************************)
(* Proofs about Provision, for any set of services however nested, any      *)
(* number of producers, and kills at any moment.  First what holds however  *)
(* operations overlap: the types, and that keys bind one name.  Then what   *)
(* holds of operations that do not: what stays revoked, what a kill cannot  *)
(* break, that the directory implements the registry and, for a single      *)
(* producer, what a completed operation guarantees.                         *)
(***************************************************************************)
EXTENDS Provision, TLAPS

LEMMA NoJobIsJob == NoJob \in Jobs
BY NamesAssumption DEF NoJob, Jobs, Keyed, Ops, EmptyDoc, Docs

\* The document an operation writes is a document.
LEMMA NewDocIsDoc ==
  ASSUME NEW j \in Jobs PROVE NewDoc(j) \in Docs
<1>1. CASE j.op = "init"
  BY <1>1 DEF NewDoc, Docs, EmptyDoc
<1>2. CASE j.op = "add"
  BY <1>2 DEF NewDoc, Docs, Jobs, Keyed, Ops
<1>3. CASE j.op = "rotate"
  BY <1>3 DEF NewDoc, Docs, Jobs, Keyed, Ops
<1>4. CASE j.op = "remove"
  BY <1>4 DEF NewDoc, Docs, Jobs, Keyed, Ops
<1>5. QED
  BY <1>1, <1>2, <1>3, <1>4 DEF Jobs, Keyed, Ops

\* Where an operation begins.
Entering(p) ==
  StartInit(p) \/ StartAdd(p) \/ StartRotate(p) \/ StartRemove(p) \/ Refuse(p)

\* The steps that write no file: control moves on or the operation ends.
Moving(p) ==
  AddExisting(p) \/ RotateUnknown(p) \/ RotateKnown(p) \/ KeyDirGone(p) \/ Crash(p)

\* The type of the state, under kills.
THEOREM ProvisionTypeCorrect == CrashSpec => []TypeOK
<1>1. Init => TypeOK
  BY NoJobIsJob DEF Init, TypeOK, Docs, EmptyDoc, Endings
<1>2. TypeOK /\ [CrashNext]_vars => TypeOK'
  <2> SUFFICES ASSUME TypeOK, [CrashNext]_vars PROVE TypeOK'
    OBVIOUS
  <2>1. ASSUME NEW p \in Producers, Entering(p) PROVE TypeOK'
    <3>1. job' \in [Producers -> Jobs]
      <4>1. CASE StartInit(p) \/ Refuse(p)
        BY <4>1, NoJobIsJob DEF TypeOK, StartInit, Refuse, Start
      <4>2. \A n \in Names, keep \in BOOLEAN, k \in Keys, op \in Keyed :
              [op |-> op, name |-> n, keep |-> keep, key |-> k, seen |-> listed] \in Jobs
        BY DEF TypeOK, Jobs
      <4>3. CASE StartAdd(p)
        <5>1. PICK n \in Names, k \in Fresh :
                job' = [job EXCEPT ![p] = [op |-> "add", name |-> n, keep |-> FALSE,
                                           key |-> k, seen |-> listed]]
          BY <4>3 DEF StartAdd, Start
        <5>2. FALSE \in BOOLEAN /\ "add" \in Keyed /\ k \in Keys
          BY DEF Keyed, Fresh
        <5>3. QED
          BY <5>1, <5>2, <4>2 DEF TypeOK
      <4>4. CASE StartRotate(p)
        <5>1. PICK n \in Names, k \in Fresh, keep \in BOOLEAN :
                job' = [job EXCEPT ![p] = [op |-> "rotate", name |-> n, keep |-> keep,
                                           key |-> k, seen |-> listed]]
          BY <4>4 DEF StartRotate, Start
        <5>2. "rotate" \in Keyed /\ k \in Keys
          BY DEF Keyed, Fresh
        <5>3. QED
          BY <5>1, <5>2, <4>2 DEF TypeOK
      <4>5. CASE StartRemove(p)
        BY <4>5 DEF TypeOK, StartRemove, Start, Jobs, Ops, Keyed
      <4>6. QED
        BY <2>1, <4>1, <4>3, <4>4, <4>5 DEF Entering
    <3>2. /\ pc' \in [Producers -> {"idle", "check", "key", "fillKey", "id", "bundle",
                                    "fillBundle", "unlinkId", "unlinkKey", "rmdir"}]
          /\ \A q \in Producers :
               pc'[q] \in {"check", "key", "fillKey", "id"} => job'[q].op \in Keyed
      BY <2>1
      DEF TypeOK, Entering, StartInit, StartAdd, StartRotate, StartRemove, Refuse,
          Start, Keyed, Goto, End
    <3>3. UNCHANGED <<files, owner, revoked>> /\ last' \in [Producers -> Endings]
      BY <2>1
      DEF TypeOK, Entering, StartInit, StartAdd, StartRotate, StartRemove, Refuse,
          Start, End, history, Endings
    <3>4. QED
      BY <3>1, <3>2, <3>3 DEF TypeOK, files
  <2>2. ASSUME NEW p \in Producers, Moving(p) PROVE TypeOK'
    BY <2>2
    DEF TypeOK, Moving, AddExisting, RotateUnknown, RotateKnown, KeyDirGone, Crash,
        End, Goto, Here, Endings, files, history, Keyed
  <2>3. ASSUME NEW p \in Producers, AddMkdir(p) PROVE TypeOK'
    <3>1. dir' \in [Names -> BOOLEAN]
      BY <2>3 DEF AddMkdir
    <3>2. QED
      BY <2>3, <3>1 DEF TypeOK, AddMkdir, Goto, Here, history, Keyed
  <2>4. ASSUME NEW p \in Producers, TruncateKey(p) PROVE TypeOK'
    BY <2>4 DEF TypeOK, TruncateKey, Goto, Here, history
  <2>5. ASSUME NEW p \in Producers, FillKey(p) PROVE TypeOK'
    <3>1. job[p].key \in Keys /\ job[p].name \in Names
      BY <2>5 DEF TypeOK, FillKey, Here, Jobs, Ops, Keyed
    <3>2. QED
      BY <2>5, <3>1 DEF TypeOK, FillKey, Goto, Here
  <2>6. ASSUME NEW p \in Producers, WriteId(p) PROVE TypeOK'
    <3>1. idFile' \in [Names -> BOOLEAN]
      BY <2>6 DEF TypeOK, WriteId
    <3>2. QED
      BY <2>6, <3>1 DEF TypeOK, WriteId, Goto, End, Here, Endings
  <2>7. ASSUME NEW p \in Producers, TruncateBundle(p) PROVE TypeOK'
    BY <2>7 DEF TypeOK, TruncateBundle, Goto, Here, history
  <2>8. ASSUME NEW p \in Producers, FillBundle(p) PROVE TypeOK'
    <3>1. NewDoc(job[p]) \in Docs
      BY NewDocIsDoc DEF TypeOK
    <3>2. KeysIn(listed) \subseteq Keys
      BY DEF TypeOK, Docs, KeysIn
    <3>3. status' \in {"torn", "complete"} /\ listed' \in Docs
      BY <2>8, <3>1 DEF TypeOK, FillBundle
    <3>4. revoked' \subseteq Keys
      BY <2>8, <3>2 DEF TypeOK, FillBundle
    <3>5. QED
      BY <2>8, <3>3, <3>4 DEF TypeOK, FillBundle, Goto, End, Here, Endings
  <2>9. ASSUME NEW p \in Producers, UnlinkId(p) PROVE TypeOK'
    <3>1. idFile' \in [Names -> BOOLEAN]
      BY <2>9 DEF TypeOK, UnlinkId
    <3>2. QED
      BY <2>9, <3>1 DEF TypeOK, UnlinkId, Goto, Here, history
  <2>10. ASSUME NEW p \in Producers, UnlinkKey(p) PROVE TypeOK'
    BY <2>10 DEF TypeOK, UnlinkKey, Goto, Here, history
  <2>11. ASSUME NEW p \in Producers, Rmdir(p) PROVE TypeOK'
    <3>1. dir' \in [Names -> BOOLEAN]
      BY <2>11 DEF TypeOK, Rmdir
    <3>2. QED
      BY <2>11, <3>1 DEF TypeOK, Rmdir, Goto, End, Here, Endings
  <2>12. ASSUME NEW p \in Producers, RemoveFile(p) PROVE TypeOK'
    <3>1. idFile' \in [Names -> BOOLEAN]
      BY <2>12 DEF TypeOK, RemoveFile
    <3>2. keyFile' \in [Names -> Keys \cup {NoKey, TornKey}]
      BY <2>12 DEF TypeOK, RemoveFile
    <3>3. QED
      BY <2>12, <3>1, <3>2 DEF TypeOK, RemoveFile, history
  <2>13. ASSUME NEW p \in Producers, RemoveDirs(p) PROVE TypeOK'
    <3>1. dir' \in [Names -> BOOLEAN]
      BY <2>13 DEF TypeOK, RemoveDirs
    <3>2. QED
      BY <2>13, <3>1 DEF TypeOK, RemoveDirs, Goto, End, Endings
  <2>14. CASE UNCHANGED vars
    BY <2>14 DEF TypeOK, vars, files, history
  <2>15. QED
    BY <2>1, <2>2, <2>3, <2>4, <2>5, <2>6, <2>7, <2>8, <2>9, <2>10, <2>11, <2>12,
       <2>13, <2>14
    DEF CrashNext, Next, Step, Entering, Moving
<1>3. QED
  BY <1>1, <1>2, PTL DEF CrashSpec

-----------------------------------------------------------------------------
(* No key can sign for two names *)

\* The inductive invariant: wherever a key may be, in a file, in the bundle or
\* in what a producer has read, it is one made for that service; and the key a
\* producer is about to write was made for no service yet, and by it alone.
Unwritten(p) == pc[p] \in {"check", "key", "fillKey"}
Owned ==
  /\ \A n \in Names : \A k \in KeysOf(n) : owner[k] = n
  /\ \A p \in Busy : \A n \in Names : \A k \in job[p].seen[n] : owner[k] = n
  /\ \A p \in Producers :
       pc[p] \in {"id", "bundle", "fillBundle"} /\ job[p].op \in Keyed
         => owner[job[p].key] = job[p].name
  /\ \A p \in Producers : Unwritten(p) => owner[job[p].key] = NoName
  /\ \A p, q \in Producers :
       Unwritten(p) /\ Unwritten(q) /\ job[p].key = job[q].key => p = q

\* The document a producer writes lists every key under its owner.
LEMMA NewDocOwned ==
  ASSUME NEW j \in Jobs, j.op \in Keyed => owner[j.key] = j.name,
         \A n \in Names : \A k \in j.seen[n] : owner[k] = n,
         NEW n \in Names, NEW k \in NewDoc(j)[n]
  PROVE  owner[k] = n
<1>1. CASE j.op = "init"
  BY <1>1 DEF NewDoc, EmptyDoc
<1>2. CASE j.op = "add"
  BY <1>2 DEF NewDoc, Jobs, Docs, Keyed, Ops
<1>3. CASE j.op = "rotate"
  BY <1>3 DEF NewDoc, Jobs, Docs, Keyed, Ops
<1>4. CASE j.op = "remove"
  BY <1>4 DEF NewDoc, Jobs, Docs, Keyed, Ops
<1>5. QED
  BY <1>1, <1>2, <1>3, <1>4 DEF Jobs, Keyed, Ops

LEMMA ListedOwned ==
  ASSUME TypeOK, Owned PROVE \A n \in Names : \A k \in listed[n] : owner[k] = n
BY DEF TypeOK, Docs, Owned, KeysOf

\* A producer enters with what the bundle lists and with a key of its own.
LEMMA StartOwned ==
  ASSUME TypeOK, Owned, NEW p \in Producers, NEW j, NEW l \in {"check", "bundle"},
         Start(p, j, l),
         \A n \in Names : \A k \in j.seen[n] : owner[k] = n,
         l = "bundle" => j.op \notin Keyed,
         l = "check" => j.key \in Fresh
  PROVE  Owned'
<1> USE DEF Owned, Start, Goto, files, history, TypeOK
<1>1. \A n \in Names : \A k \in KeysOf(n)' : owner'[k] = n
  BY DEF KeysOf
<1>2. \A q \in Busy' : \A n \in Names : \A k \in job'[q].seen[n] : owner'[k] = n
  BY DEF Busy
<1>3. \A q \in Producers :
        pc'[q] \in {"id", "bundle", "fillBundle"} /\ job'[q].op \in Keyed
          => owner'[job'[q].key] = job'[q].name
  OBVIOUS
<1>4. \A q \in Producers : Unwritten(q)' => owner'[job'[q].key] = NoName
  BY DEF Unwritten, Fresh
<1>5. \A q, r \in Producers :
        Unwritten(q)' /\ Unwritten(r)' /\ job'[q].key = job'[r].key => q = r
  BY DEF Unwritten, Fresh, Busy
<1>6. QED
  BY <1>1, <1>2, <1>3, <1>4, <1>5

LEMMA OwnedStep ==
  ASSUME TypeOK, Owned, [CrashNext]_vars PROVE Owned'
<1> USE DEF Owned, Unwritten, Busy, KeysOf
<1>1. ASSUME NEW p \in Producers, Entering(p) PROVE Owned'
  <2>1. UNCHANGED <<listed, keyFile, owner>>
    BY <1>1 DEF Entering, StartInit, StartAdd, StartRotate, StartRemove, Refuse, Start,
                files, history
  <2>2. CASE StartInit(p)
    <3>1. NoJob.op \notin Keyed /\ \A n \in Names : NoJob.seen[n] = {}
      BY DEF NoJob, Keyed, EmptyDoc
    <3>2. QED
      BY <2>2, <3>1, StartOwned DEF StartInit
  <2>3. CASE StartAdd(p)
    <3>1. PICK n \in Names, k \in Fresh :
            Start(p, [op |-> "add", name |-> n, keep |-> FALSE, key |-> k,
                      seen |-> listed], "check")
      BY <2>3 DEF StartAdd
    <3>2. QED
      BY <3>1, StartOwned, ListedOwned
  <2>4. CASE StartRotate(p)
    <3>1. PICK n \in Names, k \in Fresh, keep \in BOOLEAN :
            Start(p, [op |-> "rotate", name |-> n, keep |-> keep, key |-> k,
                      seen |-> listed], "check")
      BY <2>4 DEF StartRotate
    <3>2. QED
      BY <3>1, StartOwned, ListedOwned
  <2>5. CASE StartRemove(p)
    <3>1. PICK n \in Names :
            Start(p, [op |-> "remove", name |-> n, keep |-> FALSE, key |-> NoKey,
                      seen |-> listed], "bundle")
      BY <2>5 DEF StartRemove
    <3>2. QED
      BY <3>1, StartOwned, ListedOwned DEF Keyed
  <2>6. CASE Refuse(p)
    BY <2>1, <2>6 DEF TypeOK, Refuse, End, Goto
  <2>7. QED
    BY <1>1, <2>2, <2>3, <2>4, <2>5, <2>6 DEF Entering
<1> USE DEF TypeOK, Here, Goto, End
<1>2. ASSUME NEW p \in Producers, Moving(p) PROVE Owned'
  BY <1>2
  DEF Moving, AddExisting, RotateUnknown, RotateKnown, KeyDirGone, Crash, files, history
<1>3. ASSUME NEW p \in Producers,
             \/ AddMkdir(p) \/ WriteId(p) \/ TruncateBundle(p)
             \/ UnlinkId(p) \/ Rmdir(p) \/ RemoveDirs(p)
      PROVE  Owned'
  BY <1>3
  DEF AddMkdir, WriteId, TruncateBundle, UnlinkId, Rmdir, RemoveDirs, history
<1>4. ASSUME NEW p \in Producers, TruncateKey(p) \/ UnlinkKey(p) \/ RemoveFile(p)
      PROVE  Owned'
  <2>1. UNCHANGED <<listed, owner, job>>
    BY <1>4 DEF TruncateKey, UnlinkKey, RemoveFile, history
  <2>2. \A n \in Names : KeysOf(n)' \subseteq KeysOf(n)
    BY <1>4, <2>1, KeysAssumption DEF TruncateKey, UnlinkKey, RemoveFile
  <2>3. QED
    BY <1>4, <2>1, <2>2 DEF TruncateKey, UnlinkKey, RemoveFile
<1>5. ASSUME NEW p \in Producers, FillKey(p) PROVE Owned'
  <2> DEFINE n == job[p].name
             k == job[p].key
  <2>1. k \in Keys /\ n \in Names /\ owner[k] = NoName /\ n # NoName
    BY <1>5, NoNameAssumption DEF FillKey, Jobs, Keyed, Ops
  <2>2. owner' = [owner EXCEPT ![k] = n]
    BY <1>5 DEF FillKey
  <2>3. \A m \in Names : \A i \in KeysOf(m)' : owner'[i] = m
    <3>1. UNCHANGED listed
      BY <1>5 DEF FillKey
    <3>2. \A m \in Names : keyFile'[m] \in {keyFile[m]} \cup IF m = n THEN {k} ELSE {}
      BY <1>5 DEF FillKey
    <3>3. \A m \in Names : KeysOf(m)' \subseteq KeysOf(m) \cup IF m = n THEN {k} ELSE {}
      BY <3>1, <3>2
    <3>4. QED
      BY <2>1, <2>2, <3>3, NoNameAssumption
  <2>4. \A q \in Busy' : \A m \in Names : \A i \in job'[q].seen[m] : owner'[i] = m
    BY <1>5, <2>1, <2>2, NoNameAssumption DEF FillKey, Jobs, Docs
  <2>5. \A q \in Producers :
          pc'[q] \in {"id", "bundle", "fillBundle"} /\ job'[q].op \in Keyed
            => owner'[job'[q].key] = job'[q].name
    BY <1>5, <2>1, <2>2, NoNameAssumption DEF FillKey, Jobs, Keyed, Ops
  <2>6. \A q \in Producers : Unwritten(q)' => q # p /\ Unwritten(q) /\ job[q].key # k
    BY <1>5 DEF FillKey
  <2>7. \A q \in Producers : Unwritten(q)' => owner'[job'[q].key] = NoName
    BY <1>5, <2>1, <2>2, <2>6 DEF FillKey, Jobs, Keyed, Ops
  <2>8. \A q, r \in Producers :
          Unwritten(q)' /\ Unwritten(r)' /\ job'[q].key = job'[r].key => q = r
    BY <1>5, <2>6 DEF FillKey
  <2>9. QED
    BY <2>3, <2>4, <2>5, <2>7, <2>8
<1>6. ASSUME NEW p \in Producers, FillBundle(p) PROVE Owned'
  <2>1. \A n \in Names : \A k \in NewDoc(job[p])[n] : owner[k] = n
    BY <1>6, NewDocOwned DEF FillBundle
  <2>2. listed' \in {listed, NewDoc(job[p])} /\ UNCHANGED <<keyFile, owner, job>>
    BY <1>6 DEF FillBundle
  <2>3. \A n \in Names : \A k \in KeysOf(n)' : owner'[k] = n
    BY <2>1, <2>2
  <2>4. QED
    BY <1>6, <2>2, <2>3 DEF FillBundle
<1>7. CASE UNCHANGED vars
  BY <1>7 DEF vars, files, history
<1>8. QED
  BY <1>1, <1>2, <1>3, <1>4, <1>5, <1>6, <1>7 DEF CrashNext, Next, Step, Entering, Moving

LEMMA OwnedInit == Init => Owned
BY KeysAssumption DEF Init, Owned, KeysOf, Busy, Unwritten, EmptyDoc

LEMMA StaysOwned == CrashSpec => [](TypeOK /\ Owned)
<1>1. TypeOK /\ Owned /\ [CrashNext]_vars => Owned'
  BY OwnedStep
<1>2. QED
  BY <1>1, OwnedInit, ProvisionTypeCorrect, PTL DEF CrashSpec

\* Whom a key was made for does not change.
LEMMA OwnersStay ==
  ASSUME TypeOK, Owned, [CrashNext]_vars, NEW k \in Keys, owner[k] # NoName
  PROVE  owner'[k] = owner[k]
<1>1. ASSUME NEW p \in Producers, FillKey(p) PROVE owner'[k] = owner[k]
  BY <1>1 DEF FillKey, Here, TypeOK, Owned, Unwritten
<1>2. CASE UNCHANGED owner
  BY <1>2
<1>3. QED
  BY <1>1, <1>2
  DEF vars, files, history, CrashNext, Crash, Next, Step, Start, End,
      StartInit, StartAdd, StartRotate, StartRemove, Refuse,
      AddExisting, AddMkdir, RotateUnknown, RotateKnown, KeyDirGone, TruncateKey,
      WriteId, TruncateBundle, FillBundle, UnlinkId, UnlinkKey, Rmdir, RemoveFile,
      RemoveDirs

\* Per-identity key binding in the provisioned bundle: no key is ever held by or
\* listed under two services, whatever concurrent producers lose of each
\* other's work and wherever they are killed.
THEOREM KeysBindOneName == CrashSpec => []Binding
<1>1. Owned => Binding
  BY DEF Owned, Binding
<1>2. QED
  BY <1>1, StaysOwned, PTL

-----------------------------------------------------------------------------
(* Operations that do not overlap *)

\* One operation at a time, as the missing lock asks of whoever runs them: any number
\* of producers, each of which begins when the others have ended or been killed.
Serial == \A p, q \in Busy : p = q

\* A single producer is serial whatever it does.
OneProducer == \A p, q \in Producers : p = q

\* The inductive invariant.  What a producer has read is what is on file until
\* it has written it; the stage it is at tells what status the bundle has and
\* what the files of the service it works on are.
Writing(p) == pc[p] \in {"check", "key", "fillKey", "id", "bundle", "fillBundle"}
Deleting(p) == pc[p] \in {"unlinkId", "unlinkKey", "rmdir"}

Stage(p) ==
  LET j == job[p] IN
  /\ pc[p] \in {"check", "key", "fillKey", "id"} \/ Deleting(p) => status = "complete"
  /\ pc[p] = "bundle" => status = IF j.op = "init" THEN "missing" ELSE "complete"
  /\ pc[p] = "fillBundle" => status = "torn"
  /\ Writing(p) => j.seen = listed
  /\ pc[p] = "fillBundle" /\ j.op = "init" => listed = EmptyDoc /\ revoked = {}
  /\ pc[p] = "fillKey" => keyFile[j.name] = TornKey
  /\ pc[p] \in {"id", "bundle", "fillBundle"} /\ j.op \in Keyed =>
       keyFile[j.name] = j.key /\ j.key \notin KeysIn(listed) \cup revoked
  /\ Deleting(p) => j.op = "remove" /\ listed[j.name] = {}
  /\ pc[p] \in {"unlinkKey", "rmdir"} => ~idFile[j.name]
  /\ pc[p] = "rmdir" => keyFile[j.name] = NoKey

Sequential ==
  /\ status = "missing" => listed = EmptyDoc /\ revoked = {}
  /\ KeysIn(listed) \cap revoked = {}
  /\ \A k \in revoked : owner[k] # NoName
  /\ \A p \in Producers : Stage(p)

\* For a remove that unlinks only the files of its own service: ...
EntriesHaveKeys ==
  /\ \A n \in Names : listed[n] # {} => keyFile[n] # NoKey
  /\ \A p \in Producers :
       /\ job[p].op = "add"
       /\ pc[p] \in {"key", "fillKey", "id", "bundle", "fillBundle"}
       => listed[job[p].name] = {}

-----------------------------------------------------------------------------
(* The document written *)

\* Of what was read, the document replaces the one entry.
LEMMA NewDocEntry ==
  ASSUME NEW j \in Jobs, j.op # "init"
  PROVE  /\ j.name \in Names
         /\ \A n \in Names \ {j.name} : NewDoc(j)[n] = j.seen[n]
         /\ NewDoc(j) = [j.seen EXCEPT ![j.name] = NewDoc(j)[j.name]]
         /\ j.op = "add" => NewDoc(j)[j.name] = {j.key}
         /\ j.op = "rotate" =>
              NewDoc(j)[j.name] = {j.key} \cup IF j.keep THEN j.seen[j.name] ELSE {}
         /\ j.op = "remove" => NewDoc(j)[j.name] = {}
<1>1. j.name \in Names /\ j.seen \in Docs
  BY DEF Jobs
<1>2. CASE j.op = "add"
  BY <1>1, <1>2 DEF NewDoc, Docs
<1>3. CASE j.op = "rotate"
  BY <1>1, <1>3 DEF NewDoc, Docs
<1>4. CASE j.op = "remove"
  BY <1>1, <1>4 DEF NewDoc, Docs
<1>5. QED
  BY <1>2, <1>3, <1>4 DEF Jobs, Keyed, Ops

\* It lists no key but those read and the one generated, which it does list.
LEMMA NewDocKeys ==
  ASSUME NEW j \in Jobs
  PROVE  /\ j.op \notin Keyed => KeysIn(NewDoc(j)) \subseteq KeysIn(j.seen)
         /\ j.op \in Keyed => /\ KeysIn(NewDoc(j)) \subseteq KeysIn(j.seen) \cup {j.key}
                              /\ j.key \in NewDoc(j)[j.name]
                              /\ j.key \in KeysIn(NewDoc(j))
<1>1. CASE j.op = "init"
  BY <1>1 DEF NewDoc, EmptyDoc, KeysIn, Keyed
<1>2. CASE j.op # "init"
  <2>1. j.name \in Names
    BY DEF Jobs
  <2>2. j.op \in {"add", "rotate", "remove"}
    BY <1>2 DEF Jobs, Ops, Keyed
  <2>3. \A n \in Names :
          NewDoc(j)[n] \subseteq j.seen[n] \cup IF j.op \in Keyed THEN {j.key} ELSE {}
    BY <1>2, <2>2, NewDocEntry DEF Keyed
  <2>4. j.op \in Keyed => j.key \in NewDoc(j)[j.name]
    BY <1>2, <2>2, NewDocEntry DEF Keyed
  <2>5. QED
    BY <2>1, <2>3, <2>4 DEF KeysIn
<1>3. QED
  BY <1>1, <1>2

\* A key that is listed or in revoked has an owner.
LEMMA PublishedIsOwned ==
  ASSUME TypeOK, Owned, Sequential
  PROVE  \A k \in KeysIn(listed) \cup revoked : owner[k] # NoName
BY ListedOwned, NoNameAssumption DEF Sequential, KeysIn

-----------------------------------------------------------------------------
(* The invariant is inductive *)

\* While one producer is at work nothing is asked of the others.
LEMMA OthersIdle ==
  ASSUME TypeOK, Serial, Serial', NEW p \in Producers, NEW l, Goto(p, l),
         pc[p] # "idle" \/ l # "idle"
  PROVE  \A q \in Producers \ {p} : pc'[q] = "idle" /\ Stage(q)'
<1>1. \A q \in Producers \ {p} : pc'[q] = "idle"
  BY DEF TypeOK, Goto, Serial, Busy
<1>2. QED
  BY <1>1 DEF Stage, Writing, Deleting

\* What is left to show of a step of the producer at work that leaves the bundle, and
\* what it has ceased to list, alone.
LEMMA BundleKept ==
  ASSUME TypeOK, Sequential, Serial, Serial', NEW p \in Producers, NEW l, Goto(p, l),
         pc[p] # "idle" \/ l # "idle",
         UNCHANGED <<status, listed, revoked>>,
         \A k \in revoked : owner'[k] # NoName,
         Stage(p)'
  PROVE  Sequential'
BY OthersIdle DEF Sequential, KeysIn

LEMMA SequentialStep ==
  ASSUME TypeOK, Owned, Sequential, Serial, Serial', [CrashNext]_vars
  PROVE  Sequential'
<1> USE DEF Here, End, files, history
<1>1. ASSUME NEW p \in Producers, Entering(p) PROVE Sequential'
  <2> USE DEF TypeOK, Start, Keyed, Writing, Deleting
  <2>1. CASE Refuse(p)
    <3>1. /\ UNCHANGED <<status, listed, revoked, owner, keyFile, idFile, pc>>
          /\ \A q \in Producers \ {p} : job'[q] = job[q]
      BY <2>1 DEF Refuse, Goto
    <3>2. pc[p] = "idle"
      BY <2>1 DEF Refuse
    <3>3. Stage(p)'
      BY <3>1, <3>2 DEF Stage
    <3>4. \A q \in Producers \ {p} : Stage(q)'
      BY <3>1 DEF Sequential, Stage, KeysIn
    <3>5. QED
      BY <3>1, <3>3, <3>4 DEF Sequential, KeysIn
  <2>2. CASE ~Refuse(p)
    <3>1. PICK l \in {"check", "bundle"} : Goto(p, l)
      BY <1>1, <2>2 DEF Entering, StartInit, StartAdd, StartRotate, StartRemove
    <3>2. UNCHANGED <<status, listed, revoked, owner>>
      BY <1>1, <2>2 DEF Entering, StartInit, StartAdd, StartRotate, StartRemove
    <3>3. Stage(p)'
      <4> USE DEF Goto
      <4>1. CASE StartInit(p)
        BY <4>1 DEF StartInit, Stage, Sequential, NoJob, KeysIn
      <4>2. CASE StartAdd(p)
        BY <4>2 DEF StartAdd, Stage, KeysIn
      <4>3. CASE StartRotate(p)
        BY <4>3 DEF StartRotate, Stage, KeysIn
      <4>4. CASE StartRemove(p)
        BY <4>4 DEF StartRemove, Stage, KeysIn
      <4>5. QED
        BY <1>1, <2>2, <4>1, <4>2, <4>3, <4>4 DEF Entering
    <3>4. QED
      BY <3>1, <3>2, <3>3, BundleKept DEF Sequential
  <2>3. QED
    BY <2>1, <2>2
<1> USE DEF TypeOK
<1>2. ASSUME NEW p \in Producers, Moving(p) PROVE Sequential'
  <2>1. PICK l \in {"idle", "key"} : Goto(p, l) /\ pc[p] # "idle"
    BY <1>2 DEF Moving, AddExisting, RotateUnknown, RotateKnown, KeyDirGone, Crash
  <2>2. Stage(p)' /\ UNCHANGED <<status, listed, revoked, owner>>
    BY <1>2
    DEF Moving, AddExisting, RotateUnknown, RotateKnown, KeyDirGone, Crash, Stage, Writing,
        Deleting, Sequential, KeysIn, Goto
  <2>3. QED
    BY <2>1, <2>2, BundleKept DEF Sequential
<1>3. ASSUME NEW p \in Producers, AddMkdir(p) \/ TruncateKey(p) PROVE Sequential'
  <2>1. PICK l \in {"key", "fillKey"} : Goto(p, l)
    BY <1>3 DEF AddMkdir, TruncateKey
  <2>2. Stage(p)' /\ UNCHANGED <<status, listed, revoked, owner>>
    BY <1>3
    DEF AddMkdir, TruncateKey, Stage, Writing, Deleting, Sequential, KeysIn, Jobs, Ops, Keyed,
        Goto
  <2>3. QED
    BY <2>1, <2>2, BundleKept DEF Sequential
<1>4. ASSUME NEW p \in Producers, FillKey(p) PROVE Sequential'
  <2>1. /\ UNCHANGED <<status, listed, revoked, job>>
        /\ job[p].key \in Keys /\ job[p].name \in Names /\ owner[job[p].key] = NoName
    BY <1>4 DEF FillKey, Jobs, Keyed, Ops, Owned, Unwritten
  <2>2. keyFile'[job[p].name] = job[p].key
    BY <1>4, <2>1, KeysAssumption DEF FillKey, Sequential, Stage
  <2>3. job[p].key \notin KeysIn(listed) \cup revoked
    BY <2>1, PublishedIsOwned
  <2>4. Stage(p)'
    BY <1>4, <2>1, <2>2, <2>3
    DEF FillKey, Stage, Writing, Deleting, Sequential, KeysIn, Keyed, Goto
  <2>5. \A k \in revoked : owner'[k] # NoName
    BY <1>4, <2>1, NoNameAssumption DEF FillKey, Sequential
  <2>6. PICK l \in {"id", "bundle"} : Goto(p, l)
    BY <1>4 DEF FillKey
  <2>7. QED
    BY <2>1, <2>4, <2>5, <2>6, BundleKept
<1>5. ASSUME NEW p \in Producers, WriteId(p) PROVE Sequential'
  <2>1. Stage(p)' /\ UNCHANGED <<status, listed, revoked, owner>>
    BY <1>5 DEF WriteId, Stage, Writing, Deleting, Sequential, KeysIn, Keyed, Goto
  <2>2. PICK l \in {"idle", "bundle"} : Goto(p, l) /\ pc[p] # "idle"
    BY <1>5 DEF WriteId
  <2>3. QED
    BY <2>1, <2>2, BundleKept DEF Sequential
<1>6. ASSUME NEW p \in Producers, TruncateBundle(p) PROVE Sequential'
  <2>1. /\ UNCHANGED <<listed, keyFile, idFile, job, owner, revoked>>
        /\ status' = "torn" /\ Goto(p, "fillBundle")
    BY <1>6 DEF TruncateBundle
  <2>2. Stage(p)'
    BY <1>6, <2>1
    DEF TruncateBundle, Stage, Writing, Deleting, Sequential, KeysIn, Keyed, Goto
  <2>3. QED
    BY <2>1, <2>2, OthersIdle DEF Sequential, KeysIn
<1>7. ASSUME NEW p \in Producers, FillBundle(p) PROVE Sequential'
  <2> DEFINE j == job[p]
             d == NewDoc(j)
  <2>1. j \in Jobs /\ d \in Docs /\ j.seen = listed /\ status = "torn"
    BY <1>7, NewDocIsDoc DEF FillBundle, Sequential, Stage, Writing
  <2>2. /\ status' = "complete" /\ listed' = d
        /\ revoked' = revoked \cup (KeysIn(listed) \ KeysIn(d))
        /\ UNCHANGED <<keyFile, idFile, job, owner>>
        /\ Goto(p, IF j.op = "remove" THEN "unlinkId" ELSE "idle") /\ pc[p] # "idle"
    BY <1>7, <2>1 DEF FillBundle
  <2> HIDE DEF d
  <2>3. j.op \in Keyed => j.key \notin KeysIn(listed) \cup revoked
    BY <1>7 DEF FillBundle, Sequential, Stage
  <2>4. KeysIn(d) \cap revoked' = {}
    BY <2>1, <2>2, <2>3, NewDocKeys DEF Sequential, d
  <2>5. KeysIn(listed)' = KeysIn(d)
    BY <2>2 DEF KeysIn
  <2>6. \A k \in revoked' : owner'[k] # NoName
    BY <2>2, PublishedIsOwned
  <2>7. j.op = "remove" => d[j.name] = {}
    BY <2>1, NewDocEntry DEF d
  <2>8. Stage(p)'
    BY <2>2, <2>7 DEF Stage, Writing, Deleting, Goto
  <2>9. \A q \in Producers \ {p} : Stage(q)'
    BY <2>2, OthersIdle
  <2>10. QED
    BY <2>2, <2>4, <2>5, <2>6, <2>8, <2>9 DEF Sequential
<1>8. ASSUME NEW p \in Producers, UnlinkId(p) \/ UnlinkKey(p) \/ RemoveFile(p)
      PROVE  Sequential'
  <2>1. UNCHANGED <<status, listed, revoked, owner>> /\ pc[p] # "idle"
    BY <1>8 DEF UnlinkId, UnlinkKey, RemoveFile
  <2>2. job[p].op = "remove" /\ job[p].name \in Names
    BY <1>8 DEF UnlinkId, UnlinkKey, RemoveFile, Sequential, Stage, Deleting, Jobs
  <2>3. Stage(p)'
    <3> USE <2>1, <2>2 DEF Stage, Writing, Deleting, Sequential, KeysIn, Keyed, Goto
    <3>1. CASE UnlinkId(p)
      BY <3>1 DEF UnlinkId
    <3>2. CASE UnlinkKey(p)
      BY <3>2 DEF UnlinkKey
    <3>3. CASE RemoveFile(p)
      BY <3>3 DEF RemoveFile
    <3>4. QED
      BY <1>8, <3>1, <3>2, <3>3
  <2>4. PICK l \in {"unlinkId", "unlinkKey", "rmdir"} : Goto(p, l)
    BY <1>8 DEF UnlinkId, UnlinkKey, RemoveFile, Goto
  <2>5. QED
    BY <2>1, <2>3, <2>4, BundleKept DEF Sequential
<1>9. ASSUME NEW p \in Producers, Rmdir(p) \/ RemoveDirs(p) PROVE Sequential'
  <2>1. UNCHANGED <<status, listed, revoked, owner>> /\ Goto(p, "idle") /\ pc[p] # "idle"
    BY <1>9 DEF Rmdir, RemoveDirs
  <2>2. Stage(p)'
    BY <2>1 DEF Stage, Writing, Deleting, Goto
  <2>3. QED
    BY <2>1, <2>2, BundleKept DEF Sequential
<1>10. CASE UNCHANGED vars
  BY <1>10 DEF vars, Sequential, Stage, Writing, Deleting, KeysIn
<1>11. QED
  BY <1>1, <1>2, <1>3, <1>4, <1>5, <1>6, <1>7, <1>8, <1>9, <1>10
  DEF CrashNext, Next, Step, Entering, Moving

LEMMA SequentialInit ==
  ASSUME Init PROVE Sequential
BY DEF Init, Sequential, Stage, Writing, Deleting, KeysIn, EmptyDoc

LEMMA StaysSequential ==
  CrashSpec /\ []Serial => [](TypeOK /\ Owned /\ Sequential)
<1>1. Init => Sequential
  BY SequentialInit
<1>2. TypeOK /\ Owned /\ Sequential /\ Serial /\ Serial' /\ [CrashNext]_vars
        => Sequential'
  BY SequentialStep
<1>3. QED
  BY <1>1, <1>2, StaysOwned, PTL DEF CrashSpec

\* A key that was dropped from the bundle is never listed again.
THEOREM RevocationLasts == CrashSpec /\ []Serial => []RevokedStaysOut
<1>1. Sequential => RevokedStaysOut
  BY DEF Sequential, RevokedStaysOut
<1>2. QED
  BY <1>1, StaysSequential, PTL

\* A bundle that a kill has torn stops every operation before it touches a file.
THEOREM TornStopsAll == CrashSpec /\ []Serial => []TornIsLeftAlone
<1>1. TypeOK /\ Sequential => TornIsLeftAlone
  BY DEF TypeOK, Sequential, Stage, Deleting, TornIsLeftAlone
<1>2. QED
  BY <1>1, StaysSequential, PTL

-----------------------------------------------------------------------------
(* What a completed operation guarantees, until the producer's next one *)

LEMMA CompletedStep ==
  ASSUME TypeOK, Sequential, OneProducer, RotateRegisters, RemoveRevokes, [CrashNext]_vars
  PROVE  RotateRegisters' /\ RemoveRevokes'
<1> USE DEF OneProducer, RotateRegisters, RemoveRevokes, Returned, Here, Goto, End, TypeOK,
            files, history
<1>1. ASSUME NEW p \in Producers, Entering(p) PROVE RotateRegisters' /\ RemoveRevokes'
  BY <1>1 DEF Entering, StartInit, StartAdd, StartRotate, StartRemove, Refuse, Start
<1>2. ASSUME NEW p \in Producers, Moving(p) PROVE RotateRegisters' /\ RemoveRevokes'
  BY <1>2 DEF Moving, AddExisting, RotateUnknown, RotateKnown, KeyDirGone, Crash
<1>3. ASSUME NEW p \in Producers,
             \/ AddMkdir(p) \/ TruncateKey(p) \/ FillKey(p) \/ WriteId(p)
             \/ TruncateBundle(p) \/ UnlinkId(p) \/ UnlinkKey(p) \/ RemoveFile(p)
      PROVE  RotateRegisters' /\ RemoveRevokes'
  BY <1>3
  DEF AddMkdir, TruncateKey, FillKey, WriteId, TruncateBundle, UnlinkId, UnlinkKey,
      RemoveFile
<1>4. ASSUME NEW p \in Producers, FillBundle(p) PROVE RotateRegisters' /\ RemoveRevokes'
  <2> DEFINE j == job[p]
  <2>1. /\ j \in Jobs /\ j.seen = listed
        /\ j.op \in Keyed => keyFile[j.name] = j.key
    BY <1>4 DEF FillBundle, Sequential, Stage, Writing
  <2>2. /\ status' = "complete" /\ listed' = NewDoc(j) /\ UNCHANGED <<keyFile, job>>
        /\ j.op = "remove" => pc' = [pc EXCEPT ![p] = "unlinkId"]
    BY <1>4 DEF FillBundle, Sequential, Stage
  <2>3. j.op = "rotate" => keyFile[j.name] \in NewDoc(j)[j.name]
    BY <2>1, NewDocKeys DEF Keyed
  <2>4. QED
    BY <2>2, <2>3
<1>5. ASSUME NEW p \in Producers, Rmdir(p) \/ RemoveDirs(p)
      PROVE  RotateRegisters' /\ RemoveRevokes'
  <2> DEFINE n == job[p].name
  <2>1. UNCHANGED <<status, listed, keyFile, idFile, job>>
    BY <1>5 DEF Rmdir, RemoveDirs
  <2>2. job[p].op = "remove" /\ status = "complete" /\ listed[n] = {}
    BY <1>5 DEF Rmdir, RemoveDirs, Sequential, Stage, Deleting
  <2>3. keyFile[n] = NoKey /\ ~idFile[n]
    BY <1>5 DEF Rmdir, RemoveDirs, Tree, Sequential, Stage
  <2>4. QED
    BY <2>1, <2>2, <2>3
<1>6. CASE UNCHANGED vars
  BY <1>6 DEF vars
<1>7. QED
  BY <1>1, <1>2, <1>3, <1>4, <1>5, <1>6 DEF CrashNext, Next, Step, Entering, Moving

LEMMA StaysCompleted ==
  ASSUME OneProducer PROVE CrashSpec => [](RotateRegisters /\ RemoveRevokes)
<1>1. Init => RotateRegisters /\ RemoveRevokes
  BY DEF Init, RotateRegisters, RemoveRevokes, Returned
<1>2. /\ TypeOK /\ Sequential /\ RotateRegisters /\ RemoveRevokes /\ [CrashNext]_vars
      => RotateRegisters' /\ RemoveRevokes'
  BY CompletedStep
<1>3. Serial
  BY DEF OneProducer, Serial, Busy
<1>4. QED
  BY <1>1, <1>2, <1>3, StaysSequential, PTL DEF CrashSpec

\* Wherever earlier operations were killed, a rotation that returns leaves the
\* service with a key that the bundle lists.
THEOREM RotationRegisters ==
  ASSUME OneProducer PROVE CrashSpec => []RotateRegisters
BY StaysCompleted, PTL

\* Wherever earlier operations were killed, a removal that returns leaves no key
\* of the service in the bundle and no file of it.
THEOREM RemovalRevokes ==
  ASSUME OneProducer PROVE CrashSpec => []RemoveRevokes
BY StaysCompleted, PTL

-----------------------------------------------------------------------------
(* Entries and key files, when remove unlinks only its own service *)

LEMMA EntriesStep ==
  ASSUME TypeOK, Sequential, EntriesHaveKeys, Serial, ~Recursive, [CrashNext]_vars
  PROVE  EntriesHaveKeys'
<1> USE KeysAssumption DEF EntriesHaveKeys, Here, Goto, End, files, history, TypeOK
<1>1. ASSUME NEW p \in Producers, Entering(p) PROVE EntriesHaveKeys'
  <2>1. /\ UNCHANGED <<listed, keyFile>>
        /\ \A q \in Producers \ {p} : pc'[q] = pc[q] /\ job'[q] = job[q]
    BY <1>1
    DEF Entering, StartInit, StartAdd, StartRotate, StartRemove, Refuse, Start
  <2>2. job'[p].op # "add" \/ pc'[p] \in {"idle", "check"}
    BY <1>1
    DEF Entering, StartInit, StartAdd, StartRotate, StartRemove, Refuse, Start, NoJob
  <2>3. QED
    BY <2>1, <2>2
<1>2. ASSUME NEW p \in Producers, Moving(p) PROVE EntriesHaveKeys'
  <2>1. UNCHANGED <<listed, keyFile, job>>
    BY <1>2 DEF Moving, AddExisting, RotateUnknown, RotateKnown, KeyDirGone, Crash
  <2>2. /\ \A q \in Producers \ {p} : pc'[q] = pc[q]
        /\ pc'[p] = "idle" \/ job[p].op = "rotate"
    BY <1>2 DEF Moving, AddExisting, RotateUnknown, RotateKnown, KeyDirGone, Crash
  <2>3. QED
    BY <2>1, <2>2
<1>3. ASSUME NEW p \in Producers, AddMkdir(p) \/ TruncateKey(p) PROVE EntriesHaveKeys'
  <2>1. CASE AddMkdir(p)
    BY <2>1 DEF AddMkdir, Jobs
  <2>2. CASE TruncateKey(p)
    BY <2>2 DEF TruncateKey
  <2>3. QED
    BY <1>3, <2>1, <2>2
<1>4. ASSUME NEW p \in Producers, FillKey(p) PROVE EntriesHaveKeys'
  <2>1. job[p].key \in Keys
    BY <1>4 DEF FillKey, Jobs, Keyed, Ops
  <2>2. QED
    BY <1>4, <2>1 DEF FillKey
<1>5. ASSUME NEW p \in Producers, WriteId(p) \/ TruncateBundle(p) PROVE EntriesHaveKeys'
  BY <1>5 DEF WriteId, TruncateBundle
<1>6. ASSUME NEW p \in Producers, FillBundle(p) PROVE EntriesHaveKeys'
  <2> DEFINE j == job[p]
  <2>1. j \in Jobs /\ j.seen = listed
    BY <1>6 DEF FillBundle, Sequential, Stage, Writing
  <2>2. /\ listed' = NewDoc(j) /\ UNCHANGED <<keyFile, job>>
        /\ pc'[p] \in {"idle", "unlinkId"} /\ \A q \in Producers \ {p} : pc'[q] = "idle"
    BY <1>6 DEF FillBundle, Sequential, Stage, Serial, Busy
  <2>3. j.op \in Keyed => keyFile[j.name] \in Keys
    BY <1>6, <2>1 DEF FillBundle, Sequential, Stage, Jobs, Keyed, Ops
  <2>4. \A n \in Names : NewDoc(j)[n] # {} => keyFile[n] # NoKey
    <3>1. CASE j.op = "init"
      BY <3>1 DEF NewDoc, EmptyDoc
    <3>2. CASE j.op # "init"
      <4>1. \A n \in Names \ {j.name} : NewDoc(j)[n] = listed[n]
        BY <2>1, <3>2, NewDocEntry
      <4>2. j.op \notin Keyed => NewDoc(j)[j.name] = {}
        BY <2>1, <3>2, NewDocEntry DEF Jobs, Ops, Keyed
      <4>3. QED
        BY <2>3, <4>1, <4>2
    <3>3. QED
      BY <3>1, <3>2
  <2>5. QED
    BY <2>2, <2>4
<1>7. ASSUME NEW p \in Producers, UnlinkId(p) \/ Rmdir(p) PROVE EntriesHaveKeys'
  BY <1>7 DEF UnlinkId, Rmdir
<1>8. ASSUME NEW p \in Producers, UnlinkKey(p) PROVE EntriesHaveKeys'
  <2>1. listed[job[p].name] = {}
    BY <1>8 DEF UnlinkKey, Sequential, Stage, Deleting
  <2>2. QED
    BY <1>8, <2>1 DEF UnlinkKey
<1>9. CASE UNCHANGED vars
  BY <1>9 DEF vars
<1>10. QED
  BY <1>1, <1>2, <1>3, <1>4, <1>5, <1>6, <1>7, <1>8, <1>9
  DEF CrashNext, Next, Step, Entering, Moving, RemoveFile, RemoveDirs

LEMMA StaysEntered ==
  ASSUME ~Recursive
  PROVE  CrashSpec /\ []Serial => [](TypeOK /\ Owned /\ Sequential /\ EntriesHaveKeys)
<1>1. Init => EntriesHaveKeys
  BY DEF Init, EntriesHaveKeys, EmptyDoc
<1>2. TypeOK /\ Sequential /\ EntriesHaveKeys /\ Serial /\ [CrashNext]_vars
        => EntriesHaveKeys'
  BY EntriesStep
<1>3. QED
  BY <1>1, <1>2, StaysSequential, PTL DEF CrashSpec

\* No kill leaves an entry in the bundle whose service has no key file.
THEOREM EntriesKeepKeyFiles ==
  ASSUME ~Recursive PROVE CrashSpec /\ []Serial => []ListedHasKeyFile
<1>1. EntriesHaveKeys => ListedHasKeyFile
  BY DEF EntriesHaveKeys, ListedHasKeyFile
<1>2. QED
  BY <1>1, StaysEntered, PTL

\* What FillBundle writes when nobody else works on the bundle.
LEMMA FillsAlone ==
  ASSUME TypeOK, Sequential, NEW p \in Producers, FillBundle(p)
  PROVE  /\ job[p] \in Jobs /\ job[p].seen = listed
         /\ status = "torn" /\ status' = "complete"
         /\ listed' = NewDoc(job[p]) /\ UNCHANGED <<keyFile, owner>>
         /\ revoked' = revoked \cup (KeysIn(listed) \ KeysIn(listed'))
BY DEF TypeOK, FillBundle, Here, Sequential, Stage, Writing

\* Nobody else writes to it.
LEMMA OthersKeepListed ==
  ASSUME [CrashNext]_vars, \A p \in Producers : ~FillBundle(p)
  PROVE  UNCHANGED <<listed, revoked>>
<1> USE DEF files, history, End, Start
<1>1. ASSUME NEW p \in Producers, Entering(p) PROVE UNCHANGED <<listed, revoked>>
  BY <1>1 DEF Entering, StartInit, StartAdd, StartRotate, StartRemove, Refuse
<1>2. ASSUME NEW p \in Producers, Moving(p) PROVE UNCHANGED <<listed, revoked>>
  BY <1>2 DEF Moving, AddExisting, RotateUnknown, RotateKnown, KeyDirGone, Crash
<1>3. ASSUME NEW p \in Producers,
             \/ AddMkdir(p) \/ TruncateKey(p) \/ FillKey(p) \/ WriteId(p)
             \/ TruncateBundle(p) \/ UnlinkId(p) \/ UnlinkKey(p) \/ Rmdir(p)
             \/ RemoveFile(p) \/ RemoveDirs(p)
      PROVE  UNCHANGED <<listed, revoked>>
  BY <1>3
  DEF AddMkdir, TruncateKey, FillKey, WriteId, TruncateBundle, UnlinkId, UnlinkKey, Rmdir,
      RemoveFile, RemoveDirs
<1>4. CASE UNCHANGED vars
  BY <1>4 DEF vars
<1>5. QED
  BY <1>1, <1>2, <1>3, <1>4 DEF CrashNext, Next, Step, Entering, Moving

Drops == 
  ~(KeysIn(listed) \subseteq KeysIn(listed')) =>
    \E p \in Producers : /\ pc[p] = "fillBundle"
                         /\ \/ job[p].op = "remove"
                            \/ job[p].op = "rotate" /\ ~job[p].keep
                         /\ \A n \in Names \ {job[p].name} : listed[n] \subseteq listed'[n]

\* No write of the bundle but a removal or a rotation that drops old keys makes
\* it list a key less, and these drop keys of their own service alone.
THEOREM OthersAreKept ==
  ASSUME ~Recursive PROVE CrashSpec /\ []Serial => OnlyRevocationDrops
<1>1. ASSUME TypeOK, Sequential, EntriesHaveKeys, NEW p \in Producers, FillBundle(p)
      PROVE  Drops
  <2> DEFINE j == job[p]
  <2>1. /\ pc[p] = "fillBundle" /\ j \in Jobs /\ j.seen = listed /\ listed' = NewDoc(j)
    BY <1>1, FillsAlone DEF FillBundle, Here
  <2>2. CASE j.op = "init"
    BY <1>1, <2>1, <2>2 DEF Sequential, Stage, NewDoc, Drops
  <2>3. CASE j.op # "init"
    <3>1. /\ \A n \in Names \ {j.name} : listed[n] = listed'[n]
          /\ j.op = "rotate" /\ j.keep => listed[j.name] \subseteq listed'[j.name]
      BY <2>1, <2>3, NewDocEntry
    <3>2. j.op = "add" => listed[j.name] = {}
      BY <1>1, <2>1 DEF EntriesHaveKeys
    <3>3. CASE j.op = "add" \/ (j.op = "rotate" /\ j.keep)
      <4>1. \A n \in Names : listed[n] \subseteq listed'[n]
        BY <3>1, <3>2, <3>3
      <4>2. QED
        BY <4>1 DEF Drops, KeysIn
    <3>4. CASE j.op = "remove" \/ (j.op = "rotate" /\ ~j.keep)
      BY <2>1, <3>1, <3>4 DEF Drops
    <3>5. QED
      BY <2>1, <2>3, <3>3, <3>4 DEF Jobs, Ops, Keyed
  <2>4. QED
    BY <2>2, <2>3
<1>2. ASSUME TypeOK, Owned, Sequential, EntriesHaveKeys, [CrashNext]_vars PROVE [Drops]_vars
  <2>1. CASE \E p \in Producers : FillBundle(p)
    BY <1>1, <1>2, <2>1
  <2>2. CASE \A p \in Producers : ~FillBundle(p)
    BY <1>2, <2>2, OthersKeepListed DEF Drops, KeysIn
  <2>3. QED
    BY <2>1, <2>2
<1>3. QED
  BY <1>2, StaysEntered, PTL DEF CrashSpec, OnlyRevocationDrops, Drops

-----------------------------------------------------------------------------
(* The directory implements the registry *)

\* The steps of a producer that a reader of the files cannot tell.
LEMMA QuietStep ==
  ASSUME UNCHANGED <<status, listed, keyFile, owner, revoked>>
  PROVE  UNCHANGED R!registry
BY DEF R!registry, HeldKey, KeysIn

\* A key file is opened for writing, or unlinked.
LEMMA LosesKey ==
  ASSUME TypeOK, status = "complete", NEW n \in Names, NEW v \in {NoKey, TornKey},
         keyFile' = [keyFile EXCEPT ![n] = v],
         UNCHANGED <<status, listed, owner, revoked>>
  PROVE  R!Lose(n)
<1>1. HeldKey' = [HeldKey EXCEPT ![n] = NoKey]
  BY KeysAssumption DEF HeldKey, TypeOK
<1>2. QED
  BY <1>1 DEF R!Lose, KeysIn

\* The bundle is filled: a first bundle, a registration or a revocation.
LEMMA FillsBundle ==
  ASSUME TypeOK, Owned, Sequential, NEW p \in Producers, FillBundle(p)
  PROVE  R!RegistryNext
<1> DEFINE j == job[p]
<1>1. /\ j \in Jobs /\ j.seen = listed /\ j.name \in Names
      /\ status = "torn" /\ status' = "complete"
      /\ listed' = NewDoc(j) /\ UNCHANGED <<keyFile, owner>>
      /\ revoked' = revoked \cup (KeysIn(listed) \ KeysIn(listed'))
  BY FillsAlone DEF Jobs
<1>2. UNCHANGED HeldKey
  BY <1>1 DEF HeldKey
<1>3. KeysIn(listed)' = KeysIn(listed')
  BY DEF KeysIn
<1>4. CASE j.op = "init"
  <2>1. /\ listed = EmptyDoc /\ revoked = {} /\ NewDoc(j) = EmptyDoc
        /\ KeysIn(listed) = {} /\ KeysIn(listed') = {}
    BY <1>1, <1>4 DEF FillBundle, Here, Sequential, Stage, NewDoc, KeysIn, EmptyDoc
  <2>2. R!Found
    BY <1>1, <1>2, <1>3, <2>1 DEF R!Found
  <2>3. QED
    BY <2>2 DEF R!RegistryNext
<1>5. CASE j.op = "remove"
  <2>1. listed' = [listed EXCEPT ![j.name] = {}]
    BY <1>1, <1>5, NewDocEntry
  <2>2. KeysIn(listed') \subseteq KeysIn(listed)
    BY <1>1, <1>5, NewDocKeys DEF Keyed
  <2>3. UNCHANGED (KeysIn(listed) \cup revoked)
    BY <1>1, <1>3, <2>2
  <2>4. R!Revoke(j.name)
    BY <1>1, <1>2, <2>1, <2>3 DEF R!Revoke
  <2>5. QED
    BY <1>1, <2>4 DEF R!RegistryNext
<1>6. CASE j.op \in Keyed
  <2> DEFINE keep == j.op = "rotate" /\ j.keep
  <2>1. /\ j.key \in Keys /\ keyFile[j.name] = j.key
        /\ j.key \notin KeysIn(listed) \cup revoked
    BY <1>1, <1>6 DEF FillBundle, Here, Sequential, Stage, Jobs, Ops, Keyed
  <2>2. HeldKey[j.name] = j.key
    BY <1>1, <2>1 DEF HeldKey
  <2>3. NewDoc(j)[j.name] = {j.key} \cup IF keep THEN listed[j.name] ELSE {}
    BY <1>1, <1>6, NewDocEntry DEF Keyed
  <2>4. listed' = [listed EXCEPT ![j.name] = {j.key} \cup IF keep THEN @ ELSE {}]
    <3>1. NewDoc(j) = [listed EXCEPT ![j.name] = NewDoc(j)[j.name]]
      BY <1>1, <1>6, NewDocEntry DEF Keyed
    <3>2. QED
      BY <1>1, <2>3, <3>1
  <2>5. KeysIn(listed') \subseteq KeysIn(listed) \cup {j.key} /\ j.key \in KeysIn(listed')
    BY <1>1, <1>6, NewDocKeys
  <2>6. (KeysIn(listed) \cup revoked)' = (KeysIn(listed) \cup revoked) \cup {j.key}
    BY <1>1, <1>3, <2>5
  <2>7. R!Register(j.name, keep)
    BY <1>1, <1>2, <2>1, <2>2, <2>4, <2>6 DEF R!Register
  <2>8. keep \in BOOLEAN
    OBVIOUS
  <2>9. QED
    BY <1>1, <2>7, <2>8 DEF R!RegistryNext
<1>7. QED
  BY <1>1, <1>4, <1>5, <1>6 DEF Jobs, Ops, Keyed

LEMMA RegistryStep ==
  ASSUME TypeOK, Owned, Sequential, [CrashNext]_vars
  PROVE  [R!RegistryNext]_(R!registry)
<1> USE DEF Here, Goto, End, files, history
<1>1. ASSUME NEW p \in Producers, Entering(p) PROVE UNCHANGED R!registry
  BY <1>1, QuietStep
  DEF Entering, StartInit, StartAdd, StartRotate, StartRemove, Refuse, Start
<1>2. ASSUME NEW p \in Producers, Moving(p) PROVE UNCHANGED R!registry
  BY <1>2, QuietStep
  DEF Moving, AddExisting, RotateUnknown, RotateKnown, KeyDirGone, Crash
<1>3. ASSUME NEW p \in Producers,
             AddMkdir(p) \/ WriteId(p) \/ UnlinkId(p) \/ Rmdir(p) \/ RemoveDirs(p)
      PROVE  UNCHANGED R!registry
  BY <1>3, QuietStep DEF AddMkdir, WriteId, UnlinkId, Rmdir, RemoveDirs
<1>4. ASSUME NEW p \in Producers, TruncateKey(p) \/ UnlinkKey(p) PROVE R!RegistryNext
  <2>1. job[p].name \in Names /\ status = "complete"
    BY <1>4 DEF TruncateKey, UnlinkKey, TypeOK, Jobs, Sequential, Stage, Deleting
  <2>2. R!Lose(job[p].name)
    BY <1>4, <2>1, LosesKey DEF TruncateKey, UnlinkKey
  <2>3. QED
    BY <2>1, <2>2 DEF R!RegistryNext
<1>5. ASSUME NEW p \in Producers, FillKey(p) PROVE R!RegistryNext
  <2> DEFINE n == job[p].name
             k == job[p].key
  <2>1. n \in Names /\ k \in Keys /\ status = "complete" /\ owner[k] = NoName
    BY <1>5 DEF FillKey, TypeOK, Jobs, Ops, Keyed, Sequential, Stage, Owned, Unwritten
  <2>2. keyFile[n] # NoKey
    BY <1>5, KeysAssumption DEF FillKey, Sequential, Stage
  <2>3. keyFile' = [keyFile EXCEPT ![n] = k]
    BY <1>5, <2>2 DEF FillKey, TypeOK
  <2>4. HeldKey' = [HeldKey EXCEPT ![n] = k]
    BY <2>1, <2>3 DEF HeldKey, TypeOK
  <2>5. R!Hold(n, k)
    BY <1>5, <2>1, <2>4 DEF FillKey, R!Hold, KeysIn
  <2>6. QED
    BY <2>1, <2>5 DEF R!RegistryNext
<1>6. ASSUME NEW p \in Producers, TruncateBundle(p) PROVE [R!RegistryNext]_(R!registry)
  <2>1. /\ UNCHANGED <<listed, keyFile, owner, revoked>> /\ status' = "torn"
        /\ status \in {"missing", "complete"}
    BY <1>6 DEF TruncateBundle, Sequential, Stage
  <2>2. UNCHANGED <<HeldKey, KeysIn(listed) \cup revoked>>
    BY <2>1 DEF HeldKey, KeysIn
  <2>3. CASE status = "missing"
    BY <2>1, <2>2, <2>3 DEF R!registry
  <2>4. CASE status = "complete"
    <3>1. R!Tear
      BY <2>1, <2>2, <2>4 DEF R!Tear
    <3>2. QED
      BY <3>1 DEF R!RegistryNext
  <2>5. QED
    BY <2>1, <2>3, <2>4
<1>7. ASSUME NEW p \in Producers, FillBundle(p) PROVE R!RegistryNext
  BY <1>7, FillsBundle
<1>8. ASSUME NEW p \in Producers, RemoveFile(p) PROVE [R!RegistryNext]_(R!registry)
  <2>1. status = "complete" /\ UNCHANGED <<status, listed, owner, revoked>>
    BY <1>8 DEF RemoveFile, Sequential, Stage, Deleting
  <2>2. CASE UNCHANGED keyFile
    BY <2>1, <2>2, QuietStep
  <2>3. ASSUME NEW n \in Names, keyFile' = [keyFile EXCEPT ![n] = NoKey]
        PROVE  R!RegistryNext
    <3>1. R!Lose(n)
      BY <2>1, <2>3, LosesKey
    <3>2. QED
      BY <3>1 DEF R!RegistryNext
  <2>4. Tree(p) \subseteq Names
    BY BelowAssumption DEF Tree, TypeOK, Jobs
  <2>5. QED
    BY <1>8, <2>2, <2>3, <2>4 DEF RemoveFile
<1>9. CASE UNCHANGED vars
  BY <1>9, QuietStep DEF vars
<1>10. QED
  BY <1>1, <1>2, <1>3, <1>4, <1>5, <1>6, <1>7, <1>8, <1>9
  DEF CrashNext, Next, Step, Entering, Moving

LEMMA RegistryInitially == Init => R!RegistryInit
BY KeysAssumption DEF Init, R!RegistryInit, EmptyDoc, HeldKey, KeysIn

\* Producers that take turns, killed wherever they may be, give the readers of their
\* files the registry: one entry changes at a time, keys are on file before they are
\* listed, and what has been dropped does not come back.
THEOREM ImplementsRegistry == CrashSpec /\ []Serial => KeepsRegistry
<1>1. TypeOK /\ Owned /\ Sequential /\ [CrashNext]_vars => [R!RegistryNext]_(R!registry)
  BY RegistryStep
<1>2. QED
  BY <1>1, RegistryInitially, StaysSequential, PTL DEF CrashSpec, KeepsRegistry, R!RegistrySpec
=============================================================================
