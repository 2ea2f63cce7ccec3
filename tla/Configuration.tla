---------------------------- MODULE Configuration ----------------------------
(***************************************************************************)
(* How a service comes to its identity: from_env chooses three files, and   *)
(* from_files reads the first of them, in Go also the second.               *)
(*                                                                         *)
(* A path is the sequence of its names; the empty sequence is the empty     *)
(* string.  The disk is a function from paths to contents: of an identity   *)
(* file the string in it without the white space around, of a key file the  *)
(* key, of a bundle file the document.                                     *)
(*                                                                         *)
(* AddService is the other end: where provisioning puts the three files,    *)
(* which ServiceEnv has to find again.                                     *)
(***************************************************************************)
EXTENDS BundleDocument

CONSTANT Unset  \* a variable of the environment that is not there

ASSUME UnsetAssumption == Unset # <<>>
\* What stands for a malformed entry is not what add_service writes.
ASSUME EntryAssumption == \A k \in Keys : {PublicJwk(k)} # KeyLess

Roles == {"id", "key", "bundle"}
DirFilename == [id |-> "id", key |-> "key.pem", bundle |-> "bundle.json"]

\* SPIFFILE_DIR is env.dir, and SPIFFILE_ID_FILE and the others env.id, env.key
\* and env.bundle.
IsSet(path) == path \notin {Unset, <<>>}
InDir(env, role) ==
  IF IsSet(env.dir) THEN Append(env.dir, DirFilename[role]) ELSE Unset

\* A mistake to be caught: the directory, where there is one, is all that counts.
FilesDirFirst(env) ==
  [r \in Roles |-> IF IsSet(env.dir) THEN InDir(env, r) ELSE env[r]]

\* An empty variable counts as unset.  So it does in Go, which sees no difference.
Files(env) == [r \in Roles |-> IF IsSet(env[r]) THEN env[r] ELSE InDir(env, r)]

\* In TypeScript an empty variable hides the directory.
FilesTypeScript(env) ==
  [r \in Roles |-> IF env[r] # Unset THEN env[r] ELSE InDir(env, r)]

\* What becomes of the start with these files: "Started", or the error.
FromFiles(files, disk) ==
  IF \E r \in Roles : ~IsSet(files[r]) THEN "NotConfigured"
  ELSE IF files.id \notin DOMAIN disk THEN "NoFile"
  ELSE IF ~IsSpiffeId(disk[files.id]) THEN "InvalidSpiffeId"
  ELSE "Started"

FromFilesGo(files, disk) ==
  IF FromFiles(files, disk) # "Started" THEN FromFiles(files, disk)
  ELSE IF files.key \notin DOMAIN disk THEN "NoFile"
  ELSE IF disk[files.key] \notin Keys THEN "InvalidKey"
  ELSE "Started"

\* The environment that points at the files of a provisioned service.
ServiceEnv(root, name) ==
  LET dir == root \o <<"services">> \o name IN
  [dir |-> Unset, id |-> Append(dir, "id"), key |-> Append(dir, "key.pem"),
   bundle |-> Append(root, "bundle.json")]

-----------------------------------------------------------------------------
(* The files that provisioning leaves, when nothing cuts it short *)

\* A file written, whatever it held before.
Write(disk, path, content) ==
  [p \in DOMAIN disk \cup {path} |-> IF p = path THEN content ELSE disk[p]]

\* The ID of the service that the texts between the slashes of its name make.
IdOf(domain, name) == [scheme |-> TRUE, parts |-> <<domain>> \o name]

\* The document with one entry set, and without those that parsing has skipped.
SetKeys(doc, id, jwks) ==
  ToDict(doc.trust_domain,
         [i \in Kept(doc) \cup {id} |-> IF i = id THEN jwks ELSE doc.identities[i]])

\* add_service raises without a bundle or with a name that makes no ID, and leaves
\* a service that has a key alone; it is given the key pair it would generate.  As in
\* Provision, no service is called as a file of another, orders/id beside orders.
AddService(disk, root, name, key) ==
  LET bundlePath == Append(root, "bundle.json")
      doc == disk[bundlePath]
      id == IdOf(doc.trust_domain, name)
      serviceDir == root \o <<"services">> \o name
      keyPath == Append(serviceDir, "key.pem")
      keyed == Write(disk, keyPath, key)
      named == Write(keyed, Append(serviceDir, "id"), id)
  IN IF \/ bundlePath \notin DOMAIN disk \/ ParsePython(doc) # "Parsed"
        \/ ~IsSpiffeId(id)
        \/ keyPath \in DOMAIN disk
     THEN disk
     ELSE Write(named, bundlePath, SetKeys(doc, id, {PublicJwk(key)}))
=============================================================================
