---------------------------- MODULE BundleSource ----------------------------
(***************************************************************************)
(* FileBundleSource: the hot-reloading cache in front of bundle.json that   *)
(* every Verify of a process goes through.  Several threads of the process  *)
(* share one source, and the file changes under them.                       *)
(*                                                                         *)
(* Locked = TRUE is the Go source, which holds a mutex for the whole call.  *)
(* Locked = FALSE is the Python source, which has no lock: threads switch   *)
(* where the interpreter may switch them, around the calls to stat, read    *)
(* and from_dict, while the two attribute stores and the return that end a  *)
(* reload have no call between them and run as one step of the interpreter. *)
(* With a single thread it is also the TypeScript source: its get() is      *)
(* synchronous, but the file still changes between the stat and the read.   *)
(***************************************************************************)
EXTENDS WatchedFile

CONSTANTS
  Threads,  \* the threads (or goroutines) that call get()
  Nobody,   \* the holder of a free mutex
  Locked    \* whether get() holds the mutex

ASSUME NobodyAssumption == Nobody \notin Threads
ASSUME LockedAssumption == Locked \in BOOLEAN

VARIABLES
  bundle,  \* _bundle: the cached document, or NoVersion
  stat,    \* _stat: the stamp it was cached under
  holder,  \* who holds the mutex
  pc,      \* where each thread is in get()
  current, \* per thread: the stamp it took
  doc,     \* per thread: the document it read
  result,  \* per thread: what its last get() returned, NoVersion for an error
  floor,   \* per thread: history only, the version on file when it entered get()
  begun    \* per thread: history only, the floors of the calls under way at that
           \* moment, its own included

cacheVars == <<bundle, stat>>
threadVars == <<holder, pc, current, doc, result, floor, begun>>
vars == <<fileVars, cacheVars, threadVars>>

NoStamp == <<0, 0>>
Stamps == Nat \X Nat

TypeOK ==
  /\ FileTypeOK
  /\ bundle \in Versions \cup {NoVersion}
  /\ stat \in Stamps
  /\ holder \in Threads \cup {Nobody}
  /\ pc \in [Threads -> {"idle", "stat", "check", "read", "store", "return"}]
  /\ current \in [Threads -> Stamps]
  /\ doc \in [Threads -> Versions \cup {NoVersion}]
  /\ result \in [Threads -> Versions \cup {NoVersion}]
  /\ floor \in [Threads -> Versions]
  /\ begun \in [Threads -> SUBSET Versions]

Init ==
  /\ FileInit
  /\ bundle = NoVersion
  /\ stat = NoStamp
  /\ holder = Nobody
  /\ pc = [t \in Threads |-> "idle"]
  /\ current = [t \in Threads |-> NoStamp]
  /\ doc = [t \in Threads |-> NoVersion]
  /\ result = [t \in Threads |-> NoVersion]
  /\ floor = [t \in Threads |-> 1]
  /\ begun = [t \in Threads |-> {1}]

\* get() is entered and the mutex taken.
Enter(t) ==
  /\ pc[t] = "idle"
  /\ Locked => holder = Nobody
  /\ holder' = IF Locked THEN t ELSE holder
  /\ floor' = [floor EXCEPT ![t] = version]
  /\ begun' = [begun EXCEPT ![t] =
                 {version} \cup {floor[u] : u \in {v \in Threads : pc[v] # "idle"}}]
  /\ pc' = [pc EXCEPT ![t] = "stat"]
  /\ UNCHANGED <<fileVars, cacheVars, current, doc, result>>

\* A mistake to be caught: only the mtime is kept.
StatWithoutSize(t) ==
  /\ pc[t] = "stat"
  /\ there
  /\ current' = [current EXCEPT ![t] = <<mtime>>]
  /\ pc' = [pc EXCEPT ![t] = "check"]
  /\ UNCHANGED <<fileVars, cacheVars, holder, doc, result, floor, begun>>

Stat(t) ==
  /\ pc[t] = "stat"
  /\ there
  /\ current' = [current EXCEPT ![t] = FileStamp]
  /\ pc' = [pc EXCEPT ![t] = "check"]
  /\ UNCHANGED <<fileVars, cacheVars, holder, doc, result, floor, begun>>

\* A mistake to be caught: what is cached is never looked at again.
CachedForever(t) == bundle # NoVersion

Cached(t) == bundle # NoVersion /\ current[t] = stat

Hit(t) ==
  /\ pc[t] = "check"
  /\ Cached(t)
  /\ pc' = [pc EXCEPT ![t] = "return"]
  /\ UNCHANGED <<fileVars, cacheVars, holder, current, doc, result, floor, begun>>

Miss(t) ==
  /\ pc[t] = "check"
  /\ ~Cached(t)
  /\ pc' = [pc EXCEPT ![t] = "read"]
  /\ UNCHANGED <<fileVars, cacheVars, holder, current, doc, result, floor, begun>>

\* The call ends with outcome r, releasing the mutex.
Finish(t, r) ==
  /\ result' = [result EXCEPT ![t] = r]
  /\ holder' = IF Locked THEN Nobody ELSE holder
  /\ pc' = [pc EXCEPT ![t] = "idle"]

\* The file is gone: the call fails, and what is cached stays cached.
StatFails(t) ==
  /\ pc[t] = "stat"
  /\ ~there
  /\ Finish(t, NoVersion)
  /\ UNCHANGED <<fileVars, cacheVars, current, doc, floor, begun>>

Read(t) ==
  /\ pc[t] = "read"
  /\ intact
  /\ doc' = [doc EXCEPT ![t] = version]
  /\ pc' = [pc EXCEPT ![t] = "store"]
  /\ UNCHANGED <<fileVars, cacheVars, holder, current, result, floor, begun>>

\* A mistake to be caught: the error path does not release the mutex.
ReadFailsHolding(t) ==
  /\ pc[t] = "read"
  /\ ~intact
  /\ result' = [result EXCEPT ![t] = NoVersion]
  /\ pc' = [pc EXCEPT ![t] = "idle"]
  /\ UNCHANGED <<fileVars, cacheVars, holder, current, doc, floor, begun>>

\* A truncated document does not parse, and one removed since the stat cannot
\* be read: the cache is untouched.
ReadFails(t) ==
  /\ pc[t] = "read"
  /\ ~intact
  /\ Finish(t, NoVersion)
  /\ UNCHANGED <<fileVars, cacheVars, current, doc, floor, begun>>

\* A mistake to be caught: the stamp is taken after the read, not before it.
StoreLateStamp(t) ==
  /\ pc[t] = "store"
  /\ bundle' = doc[t]
  /\ stat' = FileStamp
  /\ Finish(t, doc[t])
  /\ UNCHANGED <<fileVars, current, doc, floor, begun>>

Store(t) ==
  /\ pc[t] = "store"
  /\ bundle' = doc[t]
  /\ stat' = current[t]
  /\ Finish(t, doc[t])
  /\ UNCHANGED <<fileVars, current, doc, floor, begun>>

\* After a hit: the attribute is read again, and may have been replaced.
Return(t) ==
  /\ pc[t] = "return"
  /\ Finish(t, bundle)
  /\ UNCHANGED <<fileVars, cacheVars, current, doc, floor, begun>>

Proceed(t) ==
  \/ Stat(t) \/ StatFails(t) \/ Hit(t) \/ Miss(t)
  \/ Read(t) \/ ReadFails(t) \/ Store(t) \/ Return(t)

Write == FileNext /\ UNCHANGED <<cacheVars, threadVars>>

Next == Write \/ \E t \in Threads : Enter(t) \/ Proceed(t)

Spec == Init /\ [][Next]_vars

\* A call that has begun is carried through (the scheduler runs every thread),
\* and requests keep arriving at every thread; strong fairness because a
\* contended sync.Mutex hands itself over to a waiter that has waited too long.
FairSpec ==
  /\ Spec
  /\ \A t \in Threads : WF_vars(Proceed(t)) /\ SF_vars(Enter(t))

-----------------------------------------------------------------------------
(* Correctness *)

\* The cache heals itself: whenever the stored stamp is the stamp of the file
\* as it is now, so that the next get() would hit, the stored bundle is the
\* newest complete document.  This is why the code stats before it reads and
\* stores the stamp only with the document it parsed.
HitIsCurrent ==
  bundle # NoVersion /\ Shows(stat) => bundle = version

\* What a completed get() returned is no older than the document that was on
\* file when get() was entered: a revocation already on disk is obeyed by every
\* later verification, on every thread.
ReturnsFresh ==
  \A t \in Threads :
    pc[t] = "idle" /\ result[t] # NoVersion => result[t] >= floor[t]

\* Without the mutex an answer may be older than its call, when a slower thread has
\* stored over what this one found, but by an overlap of calls at most: it is no
\* older than the document on file when its own call began, or one that was still
\* under way then.  So a revocation on disk is obeyed by every call that begins
\* after the calls which began before it have ended.
StaleByOverlapOnly ==
  \A t \in Threads :
    pc[t] = "idle" /\ result[t] # NoVersion => \E v \in begun[t] : v <= result[t]

\* Rotation and revocation reach every thread without a restart: once the file
\* stays complete and unchanged, every thread's get() ends up returning it.
EventuallyCurrent ==
  (<>[]intact) => \A t \in Threads : <>[](result[t] = version)

\* No thread is shut out and no get() hangs: every thread keeps entering get()
\* and returning from it, also when the file stays truncated or removed for ever
\* and every call fails.
GetReturns ==
  \A t \in Threads : []<>(pc[t] # "idle") /\ []<>(pc[t] = "idle")

\* Under the mutex the cache cannot be told from reading the file on every
\* call: every call that does not fail answers with a document that was on file
\* during the call.
Promise == INSTANCE FreshSource WITH
  calling <- [t \in Threads |-> pc[t] # "idle"], answer <- result
KeepsPromise == Promise!Spec
=============================================================================
