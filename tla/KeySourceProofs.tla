--------------------------- MODULE KeySourceProofs ---------------------------
(***************************************************************************)
(* Proofs about KeySource where calls do not overlap (the Go source with    *)
(* its mutex, the others with one thread), for any number of goroutines,    *)
(* any bound on the number of keys and any sizes.                          *)
(***************************************************************************)
EXTENDS KeySource, WatchedFileProofs

\* The type of the state, on its own inductive with and without the mutex.
THEOREM KeyTypeCorrect == Spec => []TypeOK
<1> USE MaxVersionAssumption, SizeOfAssumption, LockedAssumption, NobodyAssumption
    DEF TypeOK, FileTypeOK, Versions, NoVersion, Stamps, NoStamp, Cacheable
<1>1. Init => TypeOK
  BY DEF Init, FileInit, NoPair, Pair
<1>2. TypeOK /\ [Next]_vars => TypeOK'
  <2> SUFFICES ASSUME TypeOK, [Next]_vars PROVE TypeOK'
    OBVIOUS
  <2>1. CASE Write
    <3>1. FileTypeOK'
      BY <2>1, WriteTyped DEF Write
    <3>2. UNCHANGED <<cacheVars, threadVars>>
      BY <2>1 DEF Write
    <3>3. QED
      BY <3>1, <3>2 DEF cacheVars, threadVars
  <2>0. ASSUME NEW t \in Threads, Enter(t) PROVE TypeOK'
    BY <2>0 DEF Enter, fileVars, cacheVars
  <2>2. ASSUME NEW t \in Threads, Stat(t) PROVE TypeOK'
    <3>1. FileStamp \in Nat \X Nat
      BY DEF FileStamp
    <3>2. QED
      BY <2>2, <3>1 DEF Stat, fileVars, cacheVars
  <2>3. ASSUME NEW t \in Threads, Check(t) PROVE TypeOK'
    BY <2>3 DEF Check, fileVars, cacheVars
  <2>4. ASSUME NEW t \in Threads, Read(t) PROVE TypeOK'
    BY <2>4 DEF Read, fileVars, cacheVars
  <2>5. ASSUME NEW t \in Threads, StatFails(t) \/ ReadFails(t) PROVE TypeOK'
    <3>1. Finish(t, NoPair)
      BY <2>5 DEF StatFails, ReadFails
    <3>2. UNCHANGED <<fileVars, cacheVars, current, parsed, floor>>
      BY <2>5 DEF StatFails, ReadFails
    <3>3. NoPair \in [key : Cacheable, kid : Cacheable]
      BY DEF NoPair, Pair
    <3>4. QED
      BY <3>1, <3>2, <3>3 DEF Finish, fileVars, cacheVars
  <2>6. ASSUME NEW t \in Threads, StoreKey(t) PROVE TypeOK'
    BY <2>6 DEF StoreKey, fileVars
  <2>7. ASSUME NEW t \in Threads, StoreKid(t) PROVE TypeOK'
    BY <2>7 DEF StoreKid, Finish, Pair, fileVars
  <2>8. ASSUME NEW t \in Threads, Return(t) PROVE TypeOK'
    BY <2>8 DEF Return, Finish, Pair, fileVars, cacheVars
  <2>9. CASE UNCHANGED vars
    BY <2>9 DEF vars, fileVars, cacheVars, threadVars
  <2>10. QED
    BY <2>0, <2>1, <2>2, <2>3, <2>4, <2>5, <2>6, <2>7, <2>8, <2>9 DEF Next, Proceed
<1>3. QED
  BY <1>1, <1>2, PTL DEF Spec

-----------------------------------------------------------------------------
(* The key and its kid stay together *)

\* Calls of get() do not overlap: they hold the mutex (Go), or a single thread
\* makes them all (TypeScript, and a Python service of one thread).
Exclusive == Locked \/ \A t, u \in Threads : t = u

\* The inductive invariant.  One thread at a time is in get().  Once it has found
\* the cache out of date the stored stamp can never match the file again, so the
\* half-replaced cache between the two stores is never taken for current; at every
\* other moment the pair agrees.
Together ==
  /\ ~InPlace /\ there => intact
  /\ StampTaken(stat)
  /\ \A t \in Threads : StampTaken(current[t])
  /\ Locked => \A t \in Threads : pc[t] # "idle" <=> holder = t
  /\ key = NoVersion => ~Shows(stat)
  /\ \A t \in Threads : pc[t] = "check" /\ Shows(stat) => current[t] = stat
  /\ \A t \in Threads : pc[t] \in {"read", "key", "kid"} => ~Shows(stat)
  /\ \A t \in Threads : pc[t] \in {"key", "kid"} => Vouches(current[t], parsed[t])
  /\ \A t \in Threads : pc[t] \in {"key", "kid"} => parsed[t] # NoVersion
  /\ \A t \in Threads : pc[t] = "kid" => key = parsed[t]
  /\ (\A t \in Threads : pc[t] # "kid") => key = kid
  /\ HitIsCurrent
  /\ PairMatches

LEMMA TogetherStep ==
  ASSUME Exclusive, StampsDistinguish, TypeOK, Together, [Next]_vars
  PROVE  Together'
<1> USE NobodyAssumption DEF Exclusive, Together, NoVersion, TypeOK, HitIsCurrent, PairMatches
<1>1. CASE Write
  <2> USE <1>1 DEF Write, cacheVars, threadVars, Stamps
  <2>1. (~InPlace /\ there => intact)'
    BY WriteRestamps
  <2>2. StampTaken(stat)' /\ ~Shows(stat)'
    BY WriteRestamps DEF StampTaken
  <2>3. \A t \in Threads : StampTaken(current[t])' /\ ~Shows(current[t])'
    BY WriteRestamps DEF StampTaken
  <2>4. UNCHANGED <<key, kid, stat, holder, pc, current, parsed, result, floor>>
    OBVIOUS
  <2>5. QED
    BY <2>1, <2>2, <2>3, <2>4 DEF Vouches
<1> USE DEF Vouches, Shows, FileStamp, StampTaken, fileVars, cacheVars
<1>0. ASSUME NEW t \in Threads, Enter(t) PROVE Together'
  BY <1>0 DEF Enter
<1>2. ASSUME NEW t \in Threads, Stat(t) PROVE Together'
  <2>1. StampTaken(FileStamp)
    BY StatTakesStamp
  <2>2. QED
    BY <1>2, <2>1 DEF Stat
<1>3. ASSUME NEW t \in Threads, Check(t) PROVE Together'
  BY <1>3 DEF Check, Cached
<1>4. ASSUME NEW t \in Threads, Read(t) PROVE Together'
  BY <1>4 DEF Read, FileTypeOK, Versions
<1>5. ASSUME NEW t \in Threads, StatFails(t) \/ ReadFails(t) PROVE Together'
  <2>1. NoPair.key = NoPair.kid
    BY DEF NoPair, Pair
  <2>2. QED
    BY <1>5, <2>1 DEF StatFails, ReadFails, Finish
<1>6. ASSUME NEW t \in Threads, StoreKey(t) PROVE Together'
  BY <1>6 DEF StoreKey
<1>7. ASSUME NEW t \in Threads, StoreKid(t) PROVE Together'
  BY <1>7 DEF StoreKid, Finish, Pair
<1>8. ASSUME NEW t \in Threads, Return(t) PROVE Together'
  BY <1>8 DEF Return, Finish, Pair
<1>9. CASE UNCHANGED vars
  BY <1>9 DEF vars, threadVars
<1>10. QED
  BY <1>0, <1>1, <1>2, <1>3, <1>4, <1>5, <1>6, <1>7, <1>8, <1>9 DEF Next, Proceed

LEMMA TogetherInvariant ==
  ASSUME Exclusive, StampsDistinguish PROVE Spec => []Together
<1>1. Init => Together
  BY NobodyAssumption, SizeOfAssumption, MaxVersionAssumption
  DEF Init, FileInit, Together, HitIsCurrent, PairMatches, NoPair, Pair, NoVersion,
      NoStamp, StampTaken, FileStamp, Shows
<1>2. TypeOK /\ Together /\ [Next]_vars => Together'
  BY TogetherStep
<1>3. QED
  BY <1>1, <1>2, KeyTypeCorrect, PTL DEF Spec

\* Where calls do not overlap no token is ever signed with one key and named after
\* another.
THEOREM KidNamesKey ==
  ASSUME Exclusive, StampsDistinguish PROVE Spec => []PairMatches
<1>1. Together => PairMatches
  BY DEF Together
<1>2. QED
  BY <1>1, TogetherInvariant, PTL

\* Where calls do not overlap the key cache heals itself: a stored stamp equal to
\* the file's goes with the key on file and with its own kid.
THEOREM KeyCacheHeals ==
  ASSUME Exclusive, StampsDistinguish PROVE Spec => []HitIsCurrent
<1>1. Together => HitIsCurrent
  BY DEF Together
<1>2. QED
  BY <1>1, TogetherInvariant, PTL

-----------------------------------------------------------------------------
(* The source implements FreshSource *)

\* The inductive invariant: a hit that a thread has decided on, and a key that it
\* parsed, are no older than its call.
Recent ==
  /\ key <= version
  /\ \A t \in Threads : floor[t] <= version
  /\ \A t \in Threads : pc[t] = "check" /\ Cached(t) => floor[t] <= key
  /\ \A t \in Threads : pc[t] = "return" => floor[t] <= key
  /\ \A t \in Threads : pc[t] \in {"key", "kid"} => parsed[t] \in floor[t]..version

LEMMA RecentStep ==
  ASSUME Exclusive, TypeOK, Together, Recent, [Next]_vars PROVE Recent'
<1> USE MaxVersionAssumption, NobodyAssumption
    DEF Exclusive, Recent, Cached, TypeOK, Cacheable, NoVersion, Versions, FileTypeOK
<1>1. CASE Write
  <2>1. UNCHANGED <<key, kid, stat, holder, pc, current, parsed, result, floor>>
    BY <1>1 DEF Write, cacheVars, threadVars
  <2>2. version' \in Nat /\ version' >= version
    BY <1>1 DEF Write, FileNext, Replace, Truncate, Fill, Remove
  <2>3. QED
    BY <2>1, <2>2
<1> USE DEF fileVars, cacheVars
<1>0. ASSUME NEW t \in Threads, Enter(t) PROVE Recent'
  BY <1>0 DEF Enter
<1>2. ASSUME NEW t \in Threads, Stat(t) PROVE Recent'
  <2>1. key # NoVersion /\ FileStamp = stat => key = version
    BY <1>2 DEF Stat, Together, HitIsCurrent, Shows
  <2>2. QED
    BY <1>2, <2>1 DEF Stat
<1>3. ASSUME NEW t \in Threads, Check(t) PROVE Recent'
  BY <1>3 DEF Check
<1>4. ASSUME NEW t \in Threads, Read(t) PROVE Recent'
  BY <1>4 DEF Read
<1>5. ASSUME NEW t \in Threads, StatFails(t) \/ ReadFails(t) PROVE Recent'
  BY <1>5 DEF StatFails, ReadFails, Finish
<1>6. ASSUME NEW t \in Threads, StoreKey(t) PROVE Recent'
  BY <1>6 DEF StoreKey, Together
<1>7. ASSUME NEW t \in Threads, StoreKid(t) PROVE Recent'
  BY <1>7 DEF StoreKid, Finish, Together
<1>8. ASSUME NEW t \in Threads, Return(t) PROVE Recent'
  BY <1>8 DEF Return, Finish
<1>9. CASE UNCHANGED vars
  BY <1>9 DEF vars, threadVars
<1>10. QED
  BY <1>0, <1>1, <1>2, <1>3, <1>4, <1>5, <1>6, <1>7, <1>8, <1>9 DEF Next, Proceed

LEMMA RecentInvariant ==
  ASSUME Exclusive, StampsDistinguish PROVE Spec => []Recent
<1>1. Init => Recent
  BY MaxVersionAssumption DEF Init, FileInit, Recent, NoVersion
<1>2. TypeOK /\ Together /\ Recent /\ [Next]_vars => Recent'
  BY RecentStep
<1>3. QED
  BY <1>1, <1>2, KeyTypeCorrect, TogetherInvariant, PTL DEF Spec

LEMMA KeyPromiseStep ==
  ASSUME TypeOK, Together, Recent, [Next]_vars
  PROVE  [Promise!Next]_(Promise!vars)
<1> USE MaxVersionAssumption DEF TypeOK, FileTypeOK, Versions, NoVersion, Cacheable,
        fileVars, cacheVars, threadVars
<1> DEFINE calling == [t \in Threads |-> pc[t] # "idle"]
           answer == [t \in Threads |-> result[t].key]
<1>1. CASE Write
  <2>1. UNCHANGED <<calling, floor, answer>>
    BY <1>1 DEF Write
  <2>2. CASE version' = version
    BY <2>1, <2>2 DEF Promise!vars
  <2>3. CASE version' = version + 1
    <3>1. version < MaxVersion
      BY <1>1, <2>3 DEF Write, FileNext, Replace, Truncate, Fill, Remove
    <3>2. Promise!Publish
      BY <2>1, <2>3, <3>1 DEF Promise!Publish
    <3>3. QED
      BY <3>2 DEF Promise!Next
  <2>4. QED
    BY <1>1, <2>2, <2>3 DEF Write, FileNext, Replace, Truncate, Fill, Remove
<1>2. ASSUME NEW t \in Threads, Enter(t) PROVE Promise!Call(t)
  <2>1. calling' = [calling EXCEPT ![t] = TRUE] /\ ~calling[t]
    BY <1>2 DEF Enter
  <2>2. UNCHANGED <<version, answer>> /\ floor' = [floor EXCEPT ![t] = version]
    BY <1>2 DEF Enter
  <2>3. QED
    BY <2>1, <2>2 DEF Promise!Call
<1>3. ASSUME NEW t \in Threads, Stat(t) \/ Check(t) \/ Read(t) \/ StoreKey(t)
      PROVE  UNCHANGED Promise!vars
  <2>1. UNCHANGED calling
    BY <1>3 DEF Stat, Check, Read, StoreKey
  <2>2. UNCHANGED <<version, floor, result>>
    BY <1>3 DEF Stat, Check, Read, StoreKey
  <2>3. QED
    BY <2>1, <2>2 DEF Promise!vars
<1>4. ASSUME NEW t \in Threads, StatFails(t) \/ ReadFails(t) \/ StoreKid(t) \/ Return(t)
      PROVE  Promise!Answer(t)
  <2>1. calling[t]
    BY <1>4 DEF StatFails, ReadFails, StoreKid, Return
  <2>2. calling' = [calling EXCEPT ![t] = FALSE]
    BY <1>4 DEF StatFails, ReadFails, StoreKid, Return, Finish
  <2>3. UNCHANGED <<version, floor>>
    BY <1>4 DEF StatFails, ReadFails, StoreKid, Return
  <2>4. PICK p \in [key : {0} \cup floor[t]..version, kid : Nat] :
               result' = [result EXCEPT ![t] = p]
    <3>1. CASE StatFails(t) \/ ReadFails(t)
      <4>1. NoPair \in [key : {0} \cup floor[t]..version, kid : Nat]
        BY DEF NoPair, Pair
      <4>2. QED
        BY <3>1, <4>1 DEF StatFails, ReadFails, Finish
    <3>2. CASE StoreKid(t)
      <4>1. key \in floor[t]..version
        BY <3>2 DEF StoreKid, Together, Recent
      <4>2. Pair(key, parsed[t]) \in [key : {0} \cup floor[t]..version, kid : Nat]
        BY <4>1 DEF Pair
      <4>3. QED
        BY <3>2, <4>2 DEF StoreKid, Finish
    <3>3. CASE Return(t)
      <4>1. key \in {0} \cup floor[t]..version
        BY <3>3 DEF Return, Recent
      <4>2. Pair(key, kid) \in [key : {0} \cup floor[t]..version, kid : Nat]
        BY <4>1 DEF Pair
      <4>3. QED
        BY <3>3, <4>2 DEF Return, Finish
    <3>4. QED
      BY <1>4, <3>1, <3>2, <3>3
  <2>5. answer' = [answer EXCEPT ![t] = p.key]
    BY <2>4
  <2>6. QED
    BY <2>1, <2>2, <2>3, <2>4, <2>5 DEF Promise!Answer
<1>5. CASE UNCHANGED vars
  BY <1>5 DEF vars, Promise!vars
<1>6. QED
  BY <1>1, <1>2, <1>3, <1>4, <1>5 DEF Next, Proceed, Promise!Next

\* Where calls do not overlap the key source is a fresh source too: no token is
\* signed with a key that was rotated out before the token was asked for.
THEOREM KeyKeepsThePromise ==
  ASSUME Exclusive, StampsDistinguish PROVE Spec => KeepsPromise
<1>1. Init => Promise!Init
  <2>1. NoPair.key = 0
    BY DEF NoPair, Pair, NoVersion
  <2>2. QED
    BY <2>1 DEF Init, FileInit, Promise!Init
<1>2. TypeOK /\ Together /\ Recent /\ [Next]_vars => [Promise!Next]_(Promise!vars)
  BY KeyPromiseStep
<1>3. QED
  BY <1>1, <1>2, KeyTypeCorrect, TogetherInvariant, RecentInvariant, PTL
  DEF Spec, KeepsPromise, Promise!Spec
=============================================================================
