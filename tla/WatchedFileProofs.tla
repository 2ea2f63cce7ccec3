-------------------------- MODULE WatchedFileProofs --------------------------
(***************************************************************************)
(* Facts about the watched file that the proofs about its caches rest on.   *)
(***************************************************************************)
EXTENDS WatchedFile, TLAPS

LEMMA WriteTyped ==
  ASSUME FileTypeOK, FileNext PROVE FileTypeOK'
<1> USE MaxVersionAssumption DEF FileTypeOK, Versions, FileNext
<1>1. there' \in BOOLEAN /\ intact' \in BOOLEAN /\ (intact' => there')
  BY DEF Replace, Truncate, Fill, Remove
<1>2. mtime' \in Nat
  BY DEF Replace, Truncate, Fill, Remove, Touch
<1>3. version' \in 1..MaxVersion
  BY DEF Replace, Truncate, Fill, Remove
<1>4. QED
  BY <1>1, <1>2, <1>3

\* s is a stamp the file has carried by now.
StampTaken(s) ==
  \/ s[1] < mtime
  \/ s[1] = mtime /\ (s[2] = 0 \/ \E v \in 1..version : s[2] = SizeOf[v])

\* If s still is the stamp of the file then v is the newest document.
Vouches(s, v) == Shows(s) => v = version

\* A stamp that a stat returns is one the file has carried.
LEMMA StatTakesStamp ==
  ASSUME FileTypeOK PROVE StampTaken(FileStamp)
BY DEF FileTypeOK, StampTaken, FileStamp, Versions

\* A write gives the file a stamp it never had, and a removed file has none: whatever
\* was cached or is being cached under an older stamp will be found out of date.
LEMMA WriteRestamps ==
  ASSUME StampsDistinguish, FileTypeOK, FileNext, ~InPlace /\ there => intact,
         NEW s \in Nat \X Nat, StampTaken(s)
  PROVE  /\ ~Shows(s)'
         /\ \/ s[1] < mtime'
            \/ s[1] = mtime' /\ (s[2] = 0 \/ \E v \in 1..version' : s[2] = SizeOf[v])
         /\ (~InPlace /\ there => intact)'
<1> USE MaxVersionAssumption, SizeOfAssumption
    DEF FileTypeOK, Versions, StampTaken, FileStamp, Shows
<1>0. CASE Remove
  BY <1>0 DEF Remove
<1>1. CASE ~Remove /\ mtime' = mtime + 1
  BY <1>1 DEF FileNext, Replace, Truncate, Fill
<1>2. CASE ~Remove /\ mtime' = mtime /\ Coarse
  <2>1. ~InPlace /\ Replace
    BY <1>2 DEF StampsDistinguish, FileNext, Truncate, Fill
  <2>2. \A v \in 1..version : SizeOf[v] # SizeOf[version + 1]
    BY <2>1, <1>2 DEF StampsDistinguish, Replace
  <2>3. SizeOf[version + 1] # 0
    BY <2>1 DEF Replace
  <2>4. version' = version + 1 /\ intact'
    BY <2>1 DEF Replace
  <2>5. FileStamp' = <<mtime, SizeOf[version + 1]>>
    BY <2>4, <1>2
  <2>6. s # FileStamp'
    BY <2>2, <2>3, <2>5
  <2>7. QED
    BY <2>1, <2>4, <2>6, <1>2
<1>3. QED
  BY <1>0, <1>1, <1>2 DEF FileNext, Replace, Truncate, Fill, Touch
=============================================================================
