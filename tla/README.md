# spiffile in TLA+

A model of [spiffile](../src/README.md), SPIFFE identities delivered as files, in
its three implementations (Python, TypeScript, Go): modules, TLC configurations
that check them on small instances, and theorems that TLAPS proves for all
instances.

## The system

A *producer* maintains a provisioning directory: `bundle.json`, which binds every
SPIFFE ID of a trust domain to public keys, and for each service an `id` and a
`key.pem`. Files are delivered to *workloads*. A workload mints short-lived JWTs
with its own key and verifies the tokens of its peers against its copy of the
bundle. Nothing else connects the parts: no server, no messages, only files that
change under their readers.

| component | state | operations | interacts with |
|---|---|---|---|
| bundle source (`bundle.py`, `bundle.ts`, `bundle.go`) | cached bundle, stamp (mtime, size); in Go a mutex | `get` | every `verify` of a process, on any thread; the file, written by others; every producer operation reads through a new one |
| key source (`identity.*`) | cached private key, its kid, stamp; in Go a mutex | `get` | every `token` of a process; the file |
| minting and verification (`identity.*`) | none | `token`, `verify`, `unverified_audience` | both sources, the clock, the token of a peer |
| bundle document (`bundle.*`) | none | parse, lookup, write | bundle source, provisioning |
| SPIFFE IDs (`spiffe_id.py`, `spiffeId.ts`, `spiffeid.go`) | none | parse | all of the above |
| provisioning (`provision.*`) | the directory | `init_root`, `add_service`, `rotate_service`, `remove_service` | other producers, through the files |
| configuration (`from_env`, `from_files`, `service_env`) | none | environment to three files, the start of a service | at start only; the files |
| keys (`keys.*`, `spiffile.go`) | none | generate, encode, thumbprint | minting, provisioning |

What is hard, and what makes each part correct:

- **Sources.** A file changes between the stat, the read and the stores; a stamp
  may repeat; threads reload at once; a read meets a file written half-way.
  Correct: the cache heals (a later `get` notices whatever it missed), no answer is
  older than the call, key and kid belong together, every thread ends up current,
  and nobody hangs on the mutex.
- **Verification.** Three implementations, in different orders, on three libraries.
  Correct: only keys bound to the claimed `sub` count; every honest token is
  accepted whatever else is in the bundle; the three agree, or Python is the
  strictest.
- **Provisioning.** Two or three files are written one after the other, in place,
  without a lock. Correct: completed operations mean what they say, a kill leaves
  what the next operation can put right, revoked keys stay revoked, and no key is
  ever bound to two names.
- **Together.** Bundles and key files reach each service by ways of their own, tokens
  are under way meanwhile, clocks differ. Correct: an accepted token is from
  whom it says; a revocation that has arrived is final; a rotation with an overlap
  costs no token that a verifier could already check; and both get everywhere.

## Modules

| module | models | main definitions and the code |
|---|---|---|
| `WatchedFile` | a file as writers leave it and `stat` shows it | `Replace` (rename by kubelet or a secrets operator), `Truncate`/`Fill` (`write_text`), `Remove` (`unlink`), `FileStamp` |
| `BundleSource` | `FileBundleSource` | `Enter`, `Stat`/`StatFails`, `Hit`/`Miss`, `Read`/`ReadFails`, `Store`, `Return`: the calls inside `get`, one action each |
| `FreshSource` | what such a source promises, with no cache | `Publish`, `Call`, `Answer` |
| `KeySource` | `_FileKeySource` | as above; `StoreKey` and `StoreKid` are the two ends of the call to `public_jwk` |
| `Provision` | the four operations | one action per file-system call; `Crash`; `NewDoc` is the document an operation writes |
| `Registry` | what provisioning promises to readers of its files | `Found`, `Tear`, `Hold`, `Lose`, `Register`, `Revoke`: one change of the files each, no operations, no read-modify-write |
| `SpiffeId` | `SpiffeId.parse` | `IsSpiffeId` |
| `BundleDocument` | parsing, lookup, writing | `ParsePython`, `ParseTypeScript`, `ParseGo`, `Kept`, `KeysFor`, `PublicJwk`, `ToDict`; `Rewritten` is what provisioning writes back |
| `Verification` | `token`, `verify`, `unverified_audience` | `Mint`; `VerifyPython`, `VerifyTypeScript`, `VerifyGo`, with the checks in the order of the code |
| `Configuration` | `from_env`, `from_files`, `service_env`, where `add_service` writes | `Files`, `FilesTypeScript`; `FromFiles`, `FromFilesGo`; `ServiceEnv`, and `AddService`, the files an uninterrupted `add_service` leaves, path by path |
| `VerifyCases` | one service in three languages | `Init` picks an environment and a disk, `Start` starts the three, `Verify` gives each the same token |
| `System` | the parts together | `Provide` (a step of `Registry`), `SyncBundle` and `SyncKey` (a delivery, seen by the reload on access), `Issue`, `Forget`, `Tick`; `Outcomes` is what a verifier makes of a token |
| `Deployment` | the parts together, with provisioning call by call | `DeploymentNext`: a step of `Provision` or one of the services of `System` |
| `MC*` | instances for TLC | values of the constants |
| `*Proofs` | theorems | see below |

`BundleSource` and `KeySource` extend `WatchedFile`; where calls do not overlap both
implement `FreshSource` under a refinement mapping. `Verification` and `Configuration` extend
`BundleDocument`, which extends `SpiffeId`, and `VerifyCases` extends both.

`System` is layered. It does not take the calls of `Provision` but the `Registry` that
`Provision` implements (`KeepsRegistry`: a torn bundle is one that cannot be read, a key
file truncated or removed holds no key), and not the cache of the sources
but their promise (`FreshSource`, which both implement, and `PairMatches` and
`EventuallyCurrent`): a service that looks at its files sees what was last delivered.
That is the Go source and, with one thread, the other two. Python threads that reload
at once may for a moment see an older bundle again, though never one older than what
was on file when the oldest of the overlapping calls began (`StaleByOverlapOnly`), and
may keep an older key (`KeyPython`), so for them what `System` shows holds between such
races. What it takes unabridged is verification: every question asked of it goes through
`ToDict`, the parse, the lookup, the candidates and the claims of all three languages.

`Deployment` takes the layer of `Registry` out again: it extends `Provision`, with every
file-system call and kill, and sets the services of `System` on top of what the files
amount to. With producers that take turns it is proved to implement the safety part of
`System` (`ImplementsSystem`), so that what holds there in every state holds of the calls
too; one run asks it about a rotation step by step.

Definitions commented "a mistake to be caught" are no part of the model. Each is a
wrong version of its neighbour, and replacing the neighbour by it makes TLC find a
property violated; `PROJECT.json` lists them under `mutants`.

### What the model abstracts

- A document is its version number: the v-th complete content of the file. A file
  that is truncated and not yet filled does not parse, and one that is removed fails
  the stat, or the read when it goes between the two. A key pair is one value; the
  kid of a key, its thumbprint, is the key itself (SHA-256 taken as injective), and a
  signature is good for the one key that made it.
- `Locked = FALSE` is Python with the GIL. A thread is taken to be switched only
  around calls (stat, read, parse, `public_jwk`), which is where the interpreter
  checks for a switch; the two stores that end a bundle reload run together. The
  check and the return after a hit are separate steps, one more switch than
  most interpreters take, so what holds here holds there. Free-threaded builds
  are not modelled. With one thread both modules are the TypeScript source.
- A change of the clock between writes is `mtime + 1`, a write in the same tick leaves
  it alone (`Coarse`). The clock never goes backwards.
- In `System` a delivery is of the file as it is; it may be late or skipped, so a copy
  may be any number of versions behind, and a bundle torn by a kill may arrive
  as it is. Deliveries do not go backwards. A service may mint in the name of
  another (`Issue(n, sub, v)`), which no honest service does. Clocks are apart by `MaxSkew`
  at most, which is at most the leeway. Services do not restart: a restart
  forgets the caches, which `System` does not have.
- In `Configuration` a path is a sequence of names and a disk a function on paths;
  an empty variable is the empty path. Reading and parsing the key, the id and the
  bundle is in what the disk holds.
- In `Provision` the names are valid ones (the parse in front of the file system is
  `SpiffeId`), the bundle has no malformed entries, file modes are left out, and a torn
  `id` file counts as there. Two producers that write `bundle.json` at once leave either
  document or a mixture that does not parse.
- Parsing maps a string to the texts between its slashes; which texts have only
  allowed characters is a constant, since the code tests it with a fixed set.
- pyjwt and golang-jwt do what the options at the call sites ask of them. PyJWT
  rejects `exp <= now - leeway` and a future `iat`; golang-jwt accepts until
  `exp + leeway` and looks at `iat` only when told to.

## What is checked

All runs that pass, with what they bound:

| run | instance | shows |
|---|---|---|
| `BundleGo` | 2 goroutines, 3 documents of one size, fine clock, both kinds of writer, removals | `HitIsCurrent`, `ReturnsFresh`, `KeepsPromise`, `EventuallyCurrent`, `GetReturns` |
| `BundlePython` | 2 threads, no lock, coarse clock, 3 documents of different sizes, replaced | `HitIsCurrent`, `StaleByOverlapOnly`, `EventuallyCurrent`; `ReturnsFresh` is not claimed: a thread that hit may return what a slower thread has just stored |
| `KeyGo` | 2 goroutines, 3 keys, fine clock, both kinds of writer, removals | `HitIsCurrent`, `PairMatches`, `KeepsPromise`, `EventuallyCurrent`, `GetReturns` |
| `ProvisionPython` | 1 producer, killed anywhere; 2 names, one nested under the other; 3 keys | the guarantees of completed operations, `RevokedStaysOut`, `OnlyRevocationDrops`, `ListedHasKeyFile`, `TornIsLeftAlone`, `Binding`, and the refinement `KeepsRegistry` |
| `ProvisionGo` | 2 producers interleaved; 2 names, one nested under the other; 3 keys; recursive removal | `Binding` |
| `Verify` | 6 strings as `sub`; 2 keys, every set of at most two elements of a keys array, JWKs or not, skipped entries, malformed tops; the environments made of unset, empty, present and dangling variables, on a disk with a mounted directory and a provisioned root; 3 times around now | `OnlyBoundKeys`, `PythonIsStrictest`, `Parity`, `HonestAccepted`, `RewritingKeepsVerdicts`, `StartsAlike` |
| `System` | 2 services, of which one verifies; 2 keys; lifetime 2, 3 moments, skew and leeway 1; 1 token at a time | `Authentic`, `RevocationHolds`, `OverlapHolds`, `Converges`, `RevocationReaches` |

Why the bounds are enough: a stale stamp needs the document statted, the one read
and one more on top, which is three; a race needs two threads, and a third would
only repeat one of them, as no step counts threads. In `Provision` three keys let a
service rotate, with and without the old key, while another service holds one (with two
a rotation could not be told from one that keeps everybody's keys), or a service be
removed and added again twice. A bundle entry of two JWKs is enough
to have a match and a decoy. Time in `Verify` has the last tick of the
leeway, the present, and the first moment in the future; the leeway is 1.
In `System` two keys are a service's old and new one, or one of each service; one
verifier is enough, since none sees another, and one token, since `verify` keeps no state
and no two tokens meet. Three moments let a token of lifetime 2 expire. The safety
properties of `Verify` and `System`, and those of `ProvisionPython`, are proved without
these bounds.

Fairness: `WF(Proceed)` for every thread, since a thread inside `get` is
scheduled again; `SF(Enter)` because requests keep arriving and a contended
`sync.Mutex` passes to a waiter that has waited too long. No writer is fair: the
file may change or stay as it likes. `EventuallyCurrent` speaks of files that end up
complete; `GetReturns` does not. In `System`, `WF(SyncBundle)` and `WF(SyncKey)` say that
the last write of a file is delivered in the end (PROFILE.md 5 sets revocation latency
to distribution latency) and then seen (`EventuallyCurrent`). Nobody is made to
provision, to mint, or to finish what a kill cut short: `Converges` and
`RevocationReaches` speak of roots that come to rest.

Runs that show where the code and what it says differ:

| run | what is said | what happens |
|---|---|---|
| `KeyPython` | python/README.md: rotation propagates without restarts | two threads reload at once: the old key stays cached under the new kid and stamp |
| `ProvisionReAdd` | `add_service` registers the key, idempotent on re-add | after a kill between its two writes, re-adding returns and registers nothing; a rotation repairs the entry, and nothing a missing `id` |
| `VerifyIat` | PROFILE.md 4: `iat` is validated with leeway | Go does not look at `iat` |
| `VerifyErrors` | `InvalidTokenError` for everything but an unknown identity | a `sub` that does not parse raises `InvalidSpiffeIdError` |
| `DeploymentOverlap` | `rotate_service`: the old key stays so that bundle copies not yet refreshed keep working | the service signs with the new key at once, which such a copy does not list; in-flight tokens do keep working (`OverlapHolds`) |

Three more disagreements have no run of their own:

- PROFILE.md 1.3 calls the check of mtime and size sufficient. With a clock that does
  not separate two writes of one size, the second after the first is read, the older
  document stays: `CacheHeals` needs `StampsDistinguish`, which says just that.
- PROFILE.md 1.3 has producers replace the bundle by write and rename. The code writes in
  place, and a kill in between leaves a root that every operation refuses for
  good; `TornIsLeftAlone` says that at least nothing makes it worse.
- PROFILE.md 5 lists a new key before the key file is switched. `rotate_service` and
  `add_service` write the key file first, which is why `Registry` has `Hold` before
  `Register`.

## What is proved

Under the assumptions named in the modules, for every value of the constants:

- `TypeCorrect`, `KeyTypeCorrect`, `ProvisionTypeCorrect`: type invariants.
- `CacheHeals`, if `StampsDistinguish` (a fine clock, or documents of different
  sizes that are replaced by rename), locked or not. `HitIsCurrent` is not
  inductive: the danger sits in a thread that is about to store. `Healing` says of
  the stored pair and of every pair a thread holds that its stamp was taken at a time
  no later than its document: a stamp that still is the file's own vouches for it.
- `AnswersFresh` and `KeepsThePromise`, if also calls do not overlap (`Exclusive`: there
  is a mutex, or one thread only, which is TypeScript and single-threaded Python).
  `Guarded` adds that one thread at most is inside `get`, that a hit it has
  decided on is of a document no older than its call, and so is what it has read. The refinement
  then maps `Enter` to `Call`, the ends of a call to `Answer`, a complete write to
  `Publish` and everything else to a stutter.
- `StaleAtMostByOverlap`, if `StampsDistinguish`, locked or not: what the Python source
  still promises to threads that overlap. An answer is no older than what was on file
  when some call began that was under way when its own did (`begun` remembers those).
  `Overlapping` says that what a thread has read, or has found in the cache, is no older
  than its call, and that what another may store over it before it answers is no
  older than one of the calls under way.
- `KidNamesKey`, `KeyCacheHeals` and `KeyKeepsThePromise`, if `Exclusive` and
  `StampsDistinguish`. `Together` says that outside the section of the thread in `get` key
  and kid are one version, `Recent` that what that thread is about to answer with is
  no older than its call; with both, the key source implements `FreshSource` too, by
  the mapping that takes a pair to its key. Without the lock the first two fail
  (`KeyPython`).
- `KeysBindOneName`: `Binding` for any number of producers, killed anywhere.
  `Owned` ties every key, in a file, in the bundle or in the hands of a producer
  (including the bundle it read long ago) to the one name it was made for.
- For any number of producers that take turns (`Serial`: no operation begins while another
  is neither over nor killed), killed anywhere: `RevocationLasts`, `TornStopsAll`, and for
  those that unlink files one by one (`~Recursive`, Python) `EntriesKeepKeyFiles` and
  `OthersAreKept`. None of these is inductive: the danger is in what a producer read long
  ago. `Sequential`
  says per stage of an operation what it may rely on: until it has written, what
  it read is still on file; once its key is written, the key is in the file and in
  no bundle yet; while it deletes, the entry is gone.
- `RotationRegisters` and `RemovalRevokes`, for one producer (`OneProducer`): they say what
  the files are when an operation has returned and until that producer starts
  another, which the operations of a second one may change in between.
- `ImplementsRegistry`: for producers that take turns, under the same invariant every
  step of `Provision` is a step of `Registry` or a stutter: `FillKey` is `Hold`,
  `TruncateKey` and `UnlinkKey` are `Lose`, `TruncateBundle` is `Tear`, `FillBundle` is
  `Found`, `Register` or `Revoke`.
- `LookupIsScoped`, `Strictest`, `SameVerdicts`, `HonestIsAccepted`, `RewritingIsHarmless`,
  `SameStart`: the six properties of `VerifyCases`, for every token, document, environment, disk,
  clock and leeway. The invariant (`Determined`) says that outcomes are the functions of
  the inputs they are; the content is in lemmas about `verify` itself
  (`AcceptedIsBound`, `PythonStrictest`, `TypeScriptNoStricter`, `GoNoStricter`,
  `HonestVerified`, `RewritingIsInvisible` in `VerificationProofs`). `RewritingIsHarmless`
  supposes that what stands for a malformed member is no map (`MarksAreNoMaps`),
  which TLA+ leaves open for model values.
- `AddedServiceWorks`: the producer and the consumer meet. `AddService` says where
  `add_service` writes and what, `ServiceEnv` where a consumer looks; on any disk where
  the former gets to its end, under any root and for any name, the latter starts the
  service in all three languages with its own ID and key, and every implementation
  with the bundle of the root accepts what it mints. `AddingLeavesOthers`: every other
  service of the root, a nested one too, keeps its files and its keys; the paths of
  two names are apart, and so are their IDs. `MountedServiceStarts` is the first half
  for a service that is given a directory. They suppose `MarksAreNoMaps`, and that the
  marker for an unset variable is no path.
- `TokensAreAuthentic`, `RevocationIsFinal`, `OverlapWorks`: `Authentic`,
  `RevocationHolds` and `OverlapHolds` for any services, keys, lifetime, skew within the
  leeway, deliveries and bounds. `SystemInv` relates each copy to the root and to what
  it was: its keys are of the service they are listed under, it lists no key it
  has ceased to list before, and it lists every key it ever listed that the root still
  lists. The step from copies to verdicts cites the lemmas about `verify`.
  `MarksAreNothingElse` keeps the markers for what is missing apart from names,
  numbers and entries; TLC evaluates it.
- `ImplementsSystem`: `Deployment`, with producers that take turns, implements the safety
  part of `System`. A call of a producer is a step of the registry or nothing that
  `System` can see, by the lemma behind `ImplementsRegistry`; the services are the same.
  `RevocationSticks` and `OverlapSurvives` carry the theorems of `System` over, from
  the same assumptions on the constants (`SystemAssumptions`).
- `RotationWorks` and `RemovalWorks`, for one producer killed anywhere: what the operations
  promise, from end to end. Once a rotation has returned and its two files have been
  delivered, every verifier accepts the service's tokens; once a removal has returned
  and the bundle has been delivered, nothing signed with any key ever made for the
  service is accepted, under any name. They join `RotationRegisters` and
  `RemovalRevokes` to the next two.
- `DeliveredIsAccepted`, `UnlistedIsRefused`: what `Converges` and `RevocationReaches`
  come to, once they have come to it. When root and copies agree, verifiers accept and
  refuse what they should. That deliveries make them agree, and in the end do, is
  liveness and left to TLC.
- `AlwaysAuthentic`: in `Deployment` an accepted token is authentic even if producers
  overlap, when the directory is no registry any more and revocations may be undone.
  `Genuine` says that copies, whatever they are copies of, list keys under their
  owners; it rests on `Owned`.

Only model-checked: all liveness (`EventuallyCurrent`, `GetReturns`, `Converges`,
`RevocationReaches`), as the provers used have no rule for fairness and none for
`ENABLED`. Proved and not run by TLC on every check: the theorems about `Deployment`,
whose complete state space (2.7 million states with one producer and no clock, no
violation) takes longer than a run should.

## Not modelled

- Cryptography and encodings: key generation, PEM, coordinates, SHA-256, the base64 and
  JSON of a token. The kid is the key and a signature the key that made it.
- JSON below what `BundleDocument` says: a kid that is no string, a JWK for which a
  library raises an error of an unexpected class, duplicate members.
- Claims of other types than those of the profile, `token` with a lifetime that is not
  positive, `verify` with an audience of its own or a leeway of 0 (which Go takes
  for the default).
- Error texts, logging, file modes, the class declarations and re-exports of the packages.
- The conformance suite (`src/conformance`): fixtures and a matrix of tests across the
  languages, no part of the running system.
- What two producers at once lose of each other's entries, and the nested services
  whose key files Go and TypeScript delete while their entries stay: both happen, in
  `Provision` too, and no property denies it. The properties that would are claimed for
  producers that take turns, and `ListedHasKeyFile` for Python.
- A service called as a file of another (`orders/id` beside `orders`).
- Free-threaded Python, clocks that go backwards, deliveries that go backwards, and
  of producers that overlap all but `Binding` and `Authentic`: the code documents no
  concurrent use.
- The static key source, which is a constant.
