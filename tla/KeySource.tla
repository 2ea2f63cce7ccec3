----------------------------- MODULE KeySource -----------------------------
(***************************************************************************)
(* _FileKeySource: the hot-reloading cache in front of key.pem that mints   *)
(* every token of a process.  It caches two things, the private key and the *)
(* kid that names its public half in the token header; the kid of version v *)
(* of the key is v.                                                         *)
(*                                                                         *)
(* Locked = TRUE is the Go source.  Locked = FALSE is the Python source:    *)
(* between the store of _key and the store of _kid it calls public_jwk,     *)
(* and other threads may run there.  With one thread it is the TypeScript   *)
(* source too.                                                              *)
(***************************************************************************)
EXTENDS WatchedFile

CONSTANTS
  Threads,  \* the threads (or goroutines) that mint tokens
  Nobody,   \* the holder of a free mutex
  Locked    \* whether get() holds the mutex

ASSUME NobodyAssumption == Nobody \notin Threads
ASSUME LockedAssumption == Locked \in BOOLEAN

VARIABLES
  key,      \* _key: the cached private key, or NoVersion
  kid,      \* _kid: the kid cached with it
  stat,     \* _stat: the stamp they were cached under
  holder,   \* who holds the mutex
  pc,       \* where each thread is in get()
  current,  \* per thread: the stamp it took
  parsed,   \* per thread: the key it parsed
  result,   \* per thread: the pair its last get() returned, or NoPair
  floor     \* per thread: history only, the version on file when it entered get()

cacheVars == <<key, kid, stat>>
threadVars == <<holder, pc, current, parsed, result, floor>>
vars == <<fileVars, cacheVars, threadVars>>

NoStamp == <<0, 0>>
Stamps == Nat \X Nat
Cacheable == Versions \cup {NoVersion}
Pair(k, i) == [key |-> k, kid |-> i]
NoPair == Pair(NoVersion, NoVersion)

TypeOK ==
  /\ FileTypeOK
  /\ key \in Cacheable
  /\ kid \in Cacheable
  /\ stat \in Stamps
  /\ holder \in Threads \cup {Nobody}
  /\ pc \in [Threads -> {"idle", "stat", "check", "read", "key", "kid", "return"}]
  /\ current \in [Threads -> Stamps]
  /\ parsed \in [Threads -> Cacheable]
  /\ result \in [Threads -> [key : Cacheable, kid : Cacheable]]
  /\ floor \in [Threads -> Versions]

Init ==
  /\ FileInit
  /\ key = NoVersion
  /\ kid = NoVersion
  /\ stat = NoStamp
  /\ holder = Nobody
  /\ pc = [t \in Threads |-> "idle"]
  /\ current = [t \in Threads |-> NoStamp]
  /\ parsed = [t \in Threads |-> NoVersion]
  /\ result = [t \in Threads |-> NoPair]
  /\ floor = [t \in Threads |-> 1]

\* get() is entered and the mutex taken.
Enter(t) ==
  /\ pc[t] = "idle"
  /\ Locked => holder = Nobody
  /\ holder' = IF Locked THEN t ELSE holder
  /\ floor' = [floor EXCEPT ![t] = version]
  /\ pc' = [pc EXCEPT ![t] = "stat"]
  /\ UNCHANGED <<fileVars, cacheVars, current, parsed, result>>

\* A mistake to be caught: only the mtime is kept.
StatWithoutSize(t) ==
  /\ pc[t] = "stat"
  /\ there
  /\ current' = [current EXCEPT ![t] = <<mtime>>]
  /\ pc' = [pc EXCEPT ![t] = "check"]
  /\ UNCHANGED <<fileVars, cacheVars, holder, parsed, result, floor>>

Stat(t) ==
  /\ pc[t] = "stat"
  /\ there
  /\ current' = [current EXCEPT ![t] = FileStamp]
  /\ pc' = [pc EXCEPT ![t] = "check"]
  /\ UNCHANGED <<fileVars, cacheVars, holder, parsed, result, floor>>

\* A mistake to be caught: what is cached is never looked at again.
CachedForever(t) == key # NoVersion

Cached(t) == key # NoVersion /\ current[t] = stat

Check(t) ==
  /\ pc[t] = "check"
  /\ pc' = [pc EXCEPT ![t] = IF Cached(t) THEN "return" ELSE "read"]
  /\ UNCHANGED <<fileVars, cacheVars, holder, current, parsed, result, floor>>

\* The call ends with the pair p, releasing the mutex.
Finish(t, p) ==
  /\ result' = [result EXCEPT ![t] = p]
  /\ holder' = IF Locked THEN Nobody ELSE holder
  /\ pc' = [pc EXCEPT ![t] = "idle"]

\* The file is gone: the call fails, and what is cached stays cached.
StatFails(t) ==
  /\ pc[t] = "stat"
  /\ ~there
  /\ Finish(t, NoPair)
  /\ UNCHANGED <<fileVars, cacheVars, current, parsed, floor>>

Read(t) ==
  /\ pc[t] = "read"
  /\ intact
  /\ parsed' = [parsed EXCEPT ![t] = version]
  /\ pc' = [pc EXCEPT ![t] = "key"]
  /\ UNCHANGED <<fileVars, cacheVars, holder, current, result, floor>>

\* A mistake to be caught: the error path does not release the mutex.
ReadFailsHolding(t) ==
  /\ pc[t] = "read"
  /\ ~intact
  /\ result' = [result EXCEPT ![t] = NoPair]
  /\ pc' = [pc EXCEPT ![t] = "idle"]
  /\ UNCHANGED <<fileVars, cacheVars, holder, current, parsed, floor>>

\* A truncated PEM does not parse, and one removed since the stat cannot be
\* read; nothing is cached.
ReadFails(t) ==
  /\ pc[t] = "read"
  /\ ~intact
  /\ Finish(t, NoPair)
  /\ UNCHANGED <<fileVars, cacheVars, current, parsed, floor>>

\* _key is assigned, and public_jwk is called on it.
StoreKey(t) ==
  /\ pc[t] = "key"
  /\ key' = parsed[t]
  /\ pc' = [pc EXCEPT ![t] = "kid"]
  /\ UNCHANGED <<fileVars, kid, stat, holder, current, parsed, result, floor>>

\* Mistakes to be caught: the stamp is taken after the read ...
StoreLateStamp(t) ==
  /\ pc[t] = "kid"
  /\ kid' = parsed[t]
  /\ stat' = FileStamp
  /\ Finish(t, Pair(key, parsed[t]))
  /\ UNCHANGED <<fileVars, key, current, parsed, floor>>

\* ... and the kid is computed for the first key only.
StoreFirstKid(t) ==
  /\ pc[t] = "kid"
  /\ kid' = IF kid = NoVersion THEN parsed[t] ELSE kid
  /\ stat' = current[t]
  /\ Finish(t, Pair(key, kid'))
  /\ UNCHANGED <<fileVars, key, current, parsed, floor>>

\* public_jwk has returned: _kid and _stat are assigned and the pair returned.
StoreKid(t) ==
  /\ pc[t] = "kid"
  /\ kid' = parsed[t]
  /\ stat' = current[t]
  /\ Finish(t, Pair(key, parsed[t]))
  /\ UNCHANGED <<fileVars, key, current, parsed, floor>>

Return(t) ==
  /\ pc[t] = "return"
  /\ Finish(t, Pair(key, kid))
  /\ UNCHANGED <<fileVars, cacheVars, current, parsed, floor>>

Proceed(t) ==
  \/ Stat(t) \/ StatFails(t) \/ Check(t) \/ Read(t) \/ ReadFails(t)
  \/ StoreKey(t) \/ StoreKid(t) \/ Return(t)

Write == FileNext /\ UNCHANGED <<cacheVars, threadVars>>

Next == Write \/ \E t \in Threads : Enter(t) \/ Proceed(t)

Spec == Init /\ [][Next]_vars

\* Threads that have entered get() are scheduled, and tokens keep being minted.
FairSpec ==
  /\ Spec
  /\ \A t \in Threads : WF_vars(Proceed(t)) /\ SF_vars(Enter(t))

-----------------------------------------------------------------------------
(* Correctness *)

\* The cache heals itself: a stored stamp that is the file's own goes with the
\* key now on file, and with the kid of that key.
HitIsCurrent ==
  key # NoVersion /\ Shows(stat) => key = version /\ kid = version

\* get() never returns the kid of one key with another key: the token header
\* would name a key that did not sign it, and every verifier that has both
\* keys tries the named one only and rejects.
PairMatches == \A t \in Threads : result[t].key = result[t].kid

\* Key rotation reaches every minting thread without a restart: once the file
\* stays complete and unchanged, every thread mints with the key on file, named
\* by its own kid.
EventuallyCurrent ==
  (<>[]intact) => \A t \in Threads : <>[](result[t] = Pair(version, version))

\* No thread is shut out of minting and no get() hangs, also when key.pem stays
\* truncated or removed for ever and every call fails.
GetReturns ==
  \A t \in Threads : []<>(pc[t] # "idle") /\ []<>(pc[t] = "idle")

\* Of the key alone the cache cannot be told from reading the file on every call:
\* every call that does not fail answers with a key that was on file during the
\* call, so that no token is signed with a key rotated out before it was asked for.
Promise == INSTANCE FreshSource WITH
  calling <- [t \in Threads |-> pc[t] # "idle"],
  answer <- [t \in Threads |-> result[t].key]
KeepsPromise == Promise!Spec
=============================================================================
