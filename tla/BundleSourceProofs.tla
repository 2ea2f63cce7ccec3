------------------------- MODULE BundleSourceProofs -------------------------
(***************************************************************************)
(* Proofs about BundleSource, for any number of threads, any bound on the   *)
(* number of documents and any sizes.                                      *)
(***************************************************************************)
EXTENDS BundleSource, WatchedFileProofs

\* The type of the state, on its own inductive for both disciplines.
THEOREM TypeCorrect == Spec => []TypeOK
<1> USE MaxVersionAssumption, SizeOfAssumption, LockedAssumption, NobodyAssumption
    DEF TypeOK, FileTypeOK, Versions, NoVersion, Stamps, NoStamp
<1>1. Init => TypeOK
  BY DEF Init, FileInit
<1>2. TypeOK /\ [Next]_vars => TypeOK'
  <2> SUFFICES ASSUME TypeOK, [Next]_vars PROVE TypeOK'
    OBVIOUS
  <2>1. CASE Write
    <3>1. FileTypeOK'
      BY <2>1, WriteTyped DEF Write
    <3>2. UNCHANGED <<cacheVars, threadVars>>
      BY <2>1 DEF Write
    <3>3. QED
      BY <3>1, <3>2 DEF cacheVars, threadVars
  <2>0. ASSUME NEW t \in Threads, Enter(t) PROVE TypeOK'
    BY <2>0 DEF Enter, fileVars, cacheVars
  <2>2. ASSUME NEW t \in Threads, Stat(t) PROVE TypeOK'
    <3>1. FileStamp \in Nat \X Nat
      BY DEF FileStamp
    <3>2. QED
      BY <2>2, <3>1 DEF Stat, fileVars, cacheVars
  <2>3. ASSUME NEW t \in Threads, Hit(t) \/ Miss(t) PROVE TypeOK'
    <3>1. PICK step \in {"read", "return"} : pc' = [pc EXCEPT ![t] = step]
      BY <2>3 DEF Hit, Miss
    <3>2. UNCHANGED <<fileVars, cacheVars, holder, current, doc, result, floor, begun>>
      BY <2>3 DEF Hit, Miss
    <3>3. QED
      BY <3>1, <3>2 DEF fileVars, cacheVars
  <2>4. ASSUME NEW t \in Threads, Read(t) PROVE TypeOK'
    BY <2>4 DEF Read, fileVars, cacheVars
  <2>5. ASSUME NEW t \in Threads, StatFails(t) \/ ReadFails(t) PROVE TypeOK'
    <3>1. Finish(t, NoVersion)
      BY <2>5 DEF StatFails, ReadFails
    <3>2. UNCHANGED <<fileVars, cacheVars, current, doc, floor, begun>>
      BY <2>5 DEF StatFails, ReadFails
    <3>3. QED
      BY <3>1, <3>2 DEF Finish, fileVars, cacheVars
  <2>6. ASSUME NEW t \in Threads, Store(t) PROVE TypeOK'
    BY <2>6 DEF Store, Finish, fileVars
  <2>7. ASSUME NEW t \in Threads, Return(t) PROVE TypeOK'
    BY <2>7 DEF Return, Finish, fileVars, cacheVars
  <2>8. CASE UNCHANGED vars
    BY <2>8 DEF vars, fileVars, cacheVars, threadVars
  <2>9. QED
    BY <2>0, <2>1, <2>2, <2>3, <2>4, <2>5, <2>6, <2>7, <2>8 DEF Next, Proceed
<1>3. QED
  BY <1>1, <1>2, PTL DEF Spec

-----------------------------------------------------------------------------
(* The cache heals itself *)

\* The inductive invariant: HitIsCurrent, carried through the reload of every
\* thread that holds a stamp and the document it read after taking it.
Healing ==
  /\ ~InPlace /\ there => intact
  /\ StampTaken(stat)
  /\ bundle # NoVersion => Vouches(stat, bundle)
  /\ \A t \in Threads : StampTaken(current[t])
  /\ \A t \in Threads : pc[t] = "store" => Vouches(current[t], doc[t])

\* Healing is preserved by every step, with or without the mutex.
LEMMA HealingStep ==
  ASSUME StampsDistinguish, TypeOK, Healing, [Next]_vars PROVE Healing'
<1> USE DEF Healing, NoVersion
<1>1. CASE Write
  <2> USE <1>1 DEF Write, cacheVars, threadVars, TypeOK, Stamps
  <2>1. (~InPlace /\ there => intact)'
    BY WriteRestamps
  <2>2. StampTaken(stat)' /\ ~Shows(stat)'
    BY WriteRestamps DEF StampTaken
  <2>3. \A t \in Threads : StampTaken(current[t])' /\ ~Shows(current[t])'
    BY WriteRestamps DEF StampTaken
  <2>4. QED
    BY <2>1, <2>2, <2>3 DEF Vouches
<1> USE DEF Vouches, Shows, FileStamp, StampTaken
<1>0. ASSUME NEW t \in Threads, Enter(t) PROVE Healing'
  BY <1>0 DEF Enter, fileVars, cacheVars, TypeOK
<1>2. ASSUME NEW t \in Threads, Stat(t) PROVE Healing'
  <2>1. StampTaken(FileStamp)
    BY StatTakesStamp DEF TypeOK
  <2>2. QED
    BY <1>2, <2>1 DEF Stat, fileVars, cacheVars, TypeOK
<1>3. ASSUME NEW t \in Threads, Hit(t) \/ Miss(t) PROVE Healing'
  BY <1>3 DEF Hit, Miss, fileVars, cacheVars, TypeOK
<1>4. ASSUME NEW t \in Threads, Read(t) PROVE Healing'
  BY <1>4 DEF Read, fileVars, cacheVars, TypeOK
<1>5. ASSUME NEW t \in Threads, StatFails(t) \/ ReadFails(t) PROVE Healing'
  BY <1>5 DEF StatFails, ReadFails, Finish, fileVars, cacheVars, TypeOK
<1>6. ASSUME NEW t \in Threads, Store(t) PROVE Healing'
  BY <1>6 DEF Store, Finish, fileVars, TypeOK
<1>7. ASSUME NEW t \in Threads, Return(t) PROVE Healing'
  BY <1>7 DEF Return, Finish, fileVars, cacheVars, TypeOK
<1>8. CASE UNCHANGED vars
  BY <1>8 DEF vars, fileVars, cacheVars, threadVars
<1>9. QED
  BY <1>0, <1>1, <1>2, <1>3, <1>4, <1>5, <1>6, <1>7, <1>8 DEF Next, Proceed

LEMMA HealingInvariant ==
  ASSUME StampsDistinguish PROVE Spec => []Healing
<1>1. Init => Healing
  BY DEF Init, FileInit, Healing, StampTaken, NoStamp, NoVersion
<1>2. TypeOK /\ Healing /\ [Next]_vars => Healing'
  BY HealingStep
<1>3. QED
  BY <1>1, <1>2, TypeCorrect, PTL DEF Spec

\* A cache hit is never out of date: with stamps that tell documents apart, a
\* stored stamp equal to the file's goes with the newest document, in Go with
\* its mutex and in Python without one.
THEOREM CacheHeals ==
  ASSUME StampsDistinguish PROVE Spec => []HitIsCurrent
<1>1. Healing => HitIsCurrent
  BY DEF Healing, HitIsCurrent, Vouches
<1>2. QED
  BY <1>1, HealingInvariant, PTL

-----------------------------------------------------------------------------
(* However many calls overlap: no answer is older than the overlap *)

\* The inductive invariant.  A document in the hands of a thread is no older than
\* the thread's call, and a stamp that two threads took is of one document: so a hit
\* is on a document no older than the call, and what another thread may store over
\* it before the answer is no older than one of the calls under way.
Overlapping ==
  /\ \A t \in Threads : floor[t] <= version
  /\ \A t, u \in Threads :
       pc[t] # "idle" /\ pc[u] # "idle" => \E v \in begun[t] : v <= floor[u]
  /\ \A t \in Threads : pc[t] = "store" => floor[t] <= doc[t]
  /\ \A t \in Threads : pc[t] = "check" /\ Cached(t) => floor[t] <= bundle
  /\ \A t, u \in Threads :
       pc[t] = "check" /\ pc[u] = "store" /\ current[t] = current[u]
         => floor[t] <= doc[u]
  /\ \A t \in Threads : pc[t] = "return" => \E v \in begun[t] : v <= bundle
  /\ StaleByOverlapOnly

LEMMA OverlappingStep ==
  ASSUME TypeOK, Healing, Overlapping, [Next]_vars PROVE Overlapping'
<1> USE MaxVersionAssumption
    DEF Overlapping, Cached, StaleByOverlapOnly, TypeOK, FileTypeOK, NoVersion, Versions
<1>1. CASE Write
  <2>1. UNCHANGED <<bundle, stat, holder, pc, current, doc, result, floor, begun>>
    BY <1>1 DEF Write, cacheVars, threadVars
  <2>2. version' \in Nat /\ version' >= version
    BY <1>1 DEF Write, FileNext, Replace, Truncate, Fill, Remove
  <2>3. QED
    BY <2>1, <2>2
<1> USE DEF fileVars, cacheVars
<1>0. ASSUME NEW t \in Threads, Enter(t) PROVE Overlapping'
  BY <1>0 DEF Enter
<1>2. ASSUME NEW t \in Threads, Stat(t) PROVE Overlapping'
  <2>1. bundle # NoVersion /\ FileStamp = stat => bundle = version
    BY <1>2 DEF Stat, Healing, Vouches, Shows
  <2>2. \A u \in Threads : pc[u] = "store" /\ FileStamp = current[u] => doc[u] = version
    BY <1>2 DEF Stat, Healing, Vouches, Shows
  <2>3. QED
    BY <1>2, <2>1, <2>2 DEF Stat
<1>3. ASSUME NEW t \in Threads, Hit(t) \/ Miss(t) PROVE Overlapping'
  BY <1>3 DEF Hit, Miss
<1>4. ASSUME NEW t \in Threads, Read(t) PROVE Overlapping'
  BY <1>4 DEF Read
<1>5. ASSUME NEW t \in Threads, StatFails(t) \/ ReadFails(t) PROVE Overlapping'
  BY <1>5 DEF StatFails, ReadFails, Finish
<1>6. ASSUME NEW t \in Threads, Store(t) PROVE Overlapping'
  BY <1>6 DEF Store, Finish
<1>7. ASSUME NEW t \in Threads, Return(t) PROVE Overlapping'
  BY <1>7 DEF Return, Finish
<1>8. CASE UNCHANGED vars
  BY <1>8 DEF vars, threadVars
<1>9. QED
  BY <1>0, <1>1, <1>2, <1>3, <1>4, <1>5, <1>6, <1>7, <1>8 DEF Next, Proceed

\* Locked or not, an answer is older than its call by an overlap of calls at most:
\* in Python a revocation on disk is obeyed by every verification that begins once
\* the calls that began before it have ended.
THEOREM StaleAtMostByOverlap ==
  ASSUME StampsDistinguish PROVE Spec => []StaleByOverlapOnly
<1>1. Init => Overlapping
  BY MaxVersionAssumption
  DEF Init, FileInit, Overlapping, StaleByOverlapOnly, NoVersion
<1>2. TypeOK /\ Healing /\ Overlapping /\ [Next]_vars => Overlapping'
  BY OverlappingStep
<1>3. Overlapping => StaleByOverlapOnly
  BY DEF Overlapping
<1>4. QED
  BY <1>1, <1>2, <1>3, TypeCorrect, HealingInvariant, PTL DEF Spec

-----------------------------------------------------------------------------
(* One call at a time: every answer is fresh *)

\* Calls of get() do not overlap: they hold the mutex (Go), or a single thread
\* makes them all (TypeScript, and a Python service of one thread).
Exclusive == Locked \/ \A t, u \in Threads : t = u

\* The inductive invariant: as no other call is under way, a thread that found its
\* stamp in the cache, or that read a document, does not lose what it found; every
\* document in flight lies between the thread's floor and the newest one.
Guarded ==
  /\ Locked => \A t \in Threads : pc[t] # "idle" <=> holder = t
  /\ bundle <= version
  /\ \A t \in Threads : floor[t] <= version
  /\ \A t \in Threads : pc[t] = "check" /\ Cached(t) => floor[t] <= bundle
  /\ \A t \in Threads : pc[t] = "return" => floor[t] <= bundle
  /\ \A t \in Threads : pc[t] = "store" => doc[t] \in floor[t]..version
  /\ \A t \in Threads : result[t] <= version
  /\ ReturnsFresh

LEMMA GuardedStep ==
  ASSUME Exclusive, TypeOK, Healing, Guarded, [Next]_vars PROVE Guarded'
<1> USE NobodyAssumption DEF Exclusive, Guarded, Cached, ReturnsFresh, TypeOK, NoVersion,
                             Versions
<1>1. CASE Write
  <2>1. UNCHANGED <<bundle, stat, holder, pc, current, doc, result, floor, begun>>
    BY <1>1 DEF Write, cacheVars, threadVars
  <2>2. version' \in Nat /\ version' >= version
    BY <1>1, MaxVersionAssumption
    DEF Write, FileNext, Replace, Truncate, Fill, Remove, FileTypeOK
  <2>3. QED
    BY <2>1, <2>2, MaxVersionAssumption DEF FileTypeOK
<1> USE MaxVersionAssumption DEF FileTypeOK, fileVars, cacheVars
<1>0. ASSUME NEW t \in Threads, Enter(t) PROVE Guarded'
  BY <1>0 DEF Enter
<1>2. ASSUME NEW t \in Threads, Stat(t) PROVE Guarded'
  <2>1. bundle # NoVersion /\ FileStamp = stat => bundle = version
    BY <1>2 DEF Stat, Healing, Vouches, Shows
  <2>2. QED
    BY <1>2, <2>1 DEF Stat
<1>3. ASSUME NEW t \in Threads, Hit(t) \/ Miss(t) PROVE Guarded'
  BY <1>3 DEF Hit, Miss
<1>4. ASSUME NEW t \in Threads, Read(t) PROVE Guarded'
  BY <1>4 DEF Read
<1>5. ASSUME NEW t \in Threads, StatFails(t) \/ ReadFails(t) PROVE Guarded'
  BY <1>5 DEF StatFails, ReadFails, Finish
<1>6. ASSUME NEW t \in Threads, Store(t) PROVE Guarded'
  BY <1>6 DEF Store, Finish
<1>7. ASSUME NEW t \in Threads, Return(t) PROVE Guarded'
  BY <1>7 DEF Return, Finish
<1>8. CASE UNCHANGED vars
  BY <1>8 DEF vars, threadVars
<1>9. QED
  BY <1>0, <1>1, <1>2, <1>3, <1>4, <1>5, <1>6, <1>7, <1>8 DEF Next, Proceed

LEMMA GuardedInvariant ==
  ASSUME Exclusive, StampsDistinguish PROVE Spec => []Guarded
<1>1. Init => Guarded
  BY MaxVersionAssumption, NobodyAssumption
  DEF Init, FileInit, Guarded, ReturnsFresh, NoVersion
<1>2. TypeOK /\ Healing /\ Guarded /\ [Next]_vars => Guarded'
  BY GuardedStep
<1>3. QED
  BY <1>1, <1>2, TypeCorrect, HealingInvariant, PTL DEF Spec

\* The source never answers with a bundle older than the one on file when the
\* call began: a key revoked on disk is refused by every later verification of
\* the process, in Go on any goroutine, elsewhere on its one thread.
THEOREM AnswersFresh ==
  ASSUME Exclusive, StampsDistinguish PROVE Spec => []ReturnsFresh
<1>1. Guarded => ReturnsFresh
  BY DEF Guarded
<1>2. QED
  BY <1>1, GuardedInvariant, PTL

-----------------------------------------------------------------------------
(* The source implements FreshSource *)

LEMMA PromiseStep ==
  ASSUME TypeOK, Guarded, [Next]_vars
  PROVE  [Promise!Next]_(Promise!vars)
<1> USE MaxVersionAssumption DEF TypeOK, FileTypeOK, Versions, NoVersion,
        fileVars, cacheVars, threadVars
<1> DEFINE calling == [t \in Threads |-> pc[t] # "idle"]
<1>1. CASE Write
  <2>1. UNCHANGED <<calling, floor, result>>
    BY <1>1 DEF Write
  <2>2. CASE version' = version
    BY <2>1, <2>2 DEF Promise!vars
  <2>3. CASE version' = version + 1
    <3>1. version < MaxVersion
      BY <1>1, <2>3 DEF Write, FileNext, Replace, Truncate, Fill, Remove
    <3>2. Promise!Publish
      BY <2>1, <2>3, <3>1 DEF Promise!Publish
    <3>3. QED
      BY <3>2 DEF Promise!Next
  <2>4. QED
    BY <1>1, <2>2, <2>3 DEF Write, FileNext, Replace, Truncate, Fill, Remove
<1>2. ASSUME NEW t \in Threads, Enter(t) PROVE Promise!Call(t)
  <2>1. calling' = [calling EXCEPT ![t] = TRUE]
    BY <1>2 DEF Enter
  <2>2. ~calling[t]
    BY <1>2 DEF Enter
  <2>3. QED
    BY <1>2, <2>1, <2>2 DEF Enter, Promise!Call
<1>3. ASSUME NEW t \in Threads, Stat(t) \/ Hit(t) \/ Miss(t) \/ Read(t)
      PROVE  UNCHANGED Promise!vars
  <2>1. UNCHANGED calling
    BY <1>3 DEF Stat, Hit, Miss, Read
  <2>2. UNCHANGED <<version, floor, result>>
    BY <1>3 DEF Stat, Hit, Miss, Read
  <2>3. QED
    BY <2>1, <2>2 DEF Promise!vars
<1>4. ASSUME NEW t \in Threads, StatFails(t) \/ ReadFails(t) \/ Store(t) \/ Return(t)
      PROVE  Promise!Answer(t)
  <2>1. calling[t]
    BY <1>4 DEF StatFails, ReadFails, Store, Return
  <2>2. calling' = [calling EXCEPT ![t] = FALSE]
    BY <1>4 DEF StatFails, ReadFails, Store, Return, Finish
  <2>3. UNCHANGED <<version, floor>>
    BY <1>4 DEF StatFails, ReadFails, Store, Return
  <2>4. \E a \in {0} \cup floor[t]..version : result' = [result EXCEPT ![t] = a]
    <3>1. CASE StatFails(t) \/ ReadFails(t)
      BY <3>1 DEF StatFails, ReadFails, Finish
    <3>2. CASE Store(t)
      <4>1. doc[t] \in {0} \cup floor[t]..version
        BY <3>2 DEF Store, Guarded
      <4>2. QED
        BY <3>2, <4>1 DEF Store, Finish
    <3>3. CASE Return(t)
      <4>1. bundle \in {0} \cup floor[t]..version
        BY <3>3 DEF Return, Guarded
      <4>2. QED
        BY <3>3, <4>1 DEF Return, Finish
    <3>4. QED
      BY <1>4, <3>1, <3>2, <3>3
  <2>5. QED
    BY <2>1, <2>2, <2>3, <2>4 DEF Promise!Answer
<1>5. CASE UNCHANGED vars
  BY <1>5 DEF vars, Promise!vars
<1>6. QED
  BY <1>1, <1>2, <1>3, <1>4, <1>5 DEF Next, Proceed, Promise!Next

\* The Go source, and the others on one thread, are fresh sources: every behaviour
\* of the cache, its mutex and the file under it is a behaviour of FreshSource.
THEOREM KeepsThePromise ==
  ASSUME Exclusive, StampsDistinguish PROVE Spec => KeepsPromise
<1>1. Init => Promise!Init
  BY DEF Init, FileInit, NoVersion, Promise!Init
<1>2. TypeOK /\ Guarded /\ [Next]_vars => [Promise!Next]_(Promise!vars)
  BY PromiseStep
<1>3. QED
  BY <1>1, <1>2, TypeCorrect, GuardedInvariant, PTL
  DEF Spec, KeepsPromise, Promise!Spec
=============================================================================
