---------------------------- MODULE SystemProofs ----------------------------
(***************************************************************************)
(* Proofs about the parts together, for any services, keys, lifetimes and   *)
(* clocks, and any order of provisioning, delivery, minting and verifying.  *)
(***************************************************************************)
EXTENDS System, VerificationProofs

\* The inductive invariant: the types, ...
Copies == [Names -> SUBSET Keys]

SystemTypeOK ==
  /\ readable \in BOOLEAN
  /\ listed \in Copies
  /\ held \in [Names -> Keys \cup {NoKey}]
  /\ owner \in [Keys -> Names \cup {NoName}]
  /\ published \subseteq Keys
  /\ bundleCopy \in [Verifiers -> Copies \cup {Unreadable}]
  /\ keyCopy \in [Names -> Keys \cup {NoKey}]
  /\ now \in Nat
  /\ learned \in [Verifiers -> SUBSET Keys]
  /\ dropped \in [Verifiers -> SUBSET Keys]

\* ... at the root, keys held and listed by the service they were made for, ...
RootOwned ==
  /\ \A n \in Names : held[n] \in Keys => owner[held[n]] = n
  /\ \A n \in Names : \A k \in listed[n] : owner[k] = n /\ k \in published

\* ... in each copy, keys of their service, among those it has learned, which
\* are all those it has learned and the root still lists, and no dropped one; ...
CopyOwned(v) ==
  bundleCopy[v] # Unreadable =>
    /\ \A n \in Names : \A k \in bundleCopy[v][n] : owner[k] = n
    /\ KeysIn(bundleCopy[v]) \cap dropped[v] = {}
    /\ KeysIn(listed) \cap learned[v] \subseteq KeysIn(bundleCopy[v])

Remembered(v) ==
  /\ learned[v] \subseteq published
  /\ dropped[v] \subseteq learned[v]
  /\ dropped[v] \cap KeysIn(listed) = {}

\* ... and tokens as Identity.token makes them, no later than now.
Minted(t) ==
  \E sub \in Names, v \in Verifiers, k \in Keys, iat \in 0..now :
    t = Mint(sub, k, k, v, iat, TTL)

SystemInv ==
  /\ SystemTypeOK
  /\ RootOwned
  /\ \A v \in Verifiers : CopyOwned(v) /\ Remembered(v)
  /\ \A t \in inFlight : Minted(t)

-----------------------------------------------------------------------------
(* The invariant is inductive *)

LEMMA SystemInit == Init => SystemInv
<1> SUFFICES ASSUME Init PROVE SystemInv
  OBVIOUS
<1>1. /\ readable = FALSE /\ listed = [n \in Names |-> {}] /\ held = [n \in Names |-> NoKey]
      /\ owner = [k \in Keys |-> NoName] /\ published = {}
      /\ bundleCopy = [v \in Verifiers |-> Unreadable] /\ keyCopy = [n \in Names |-> NoKey]
      /\ inFlight = {} /\ now = 0
      /\ learned = [v \in Verifiers |-> {}] /\ dropped = [v \in Verifiers |-> {}]
  BY DEF Init, ServicesInit, R!RegistryInit
<1>2. SystemTypeOK
  BY <1>1 DEF SystemTypeOK, Copies
<1>3. RootOwned
  BY <1>1, NoKeyAssumption DEF RootOwned
<1>4. \A v \in Verifiers : CopyOwned(v) /\ Remembered(v)
  BY <1>1 DEF CopyOwned, Remembered
<1>5. QED
  BY <1>1, <1>2, <1>3, <1>4 DEF SystemInv

\* A step of the root makes a key for one service, and lists no key that has been
\* listed before.
RootStepped ==
  /\ readable' \in BOOLEAN /\ listed' \in Copies
  /\ held' \in [Names -> Keys \cup {NoKey}]
  /\ owner' \in [Keys -> Names \cup {NoName}]
  /\ published' \subseteq Keys /\ published \subseteq published'
  /\ \A k \in Keys : owner[k] # NoName => owner'[k] = owner[k]
  /\ RootOwned'
  /\ KeysIn(listed') \cap published \subseteq KeysIn(listed)

LEMMA RegistryStep ==
  ASSUME SystemInv, R!RegistryNext
  PROVE  RootStepped
<1> USE DEF SystemInv, SystemTypeOK, RootOwned, Copies
<1>1. CASE R!Found \/ R!Tear
  <2>1. readable' \in BOOLEAN /\ UNCHANGED <<listed, held, owner, published>>
    BY <1>1 DEF R!Found, R!Tear
  <2>2. RootOwned'
    BY <2>1
  <2>3. QED
    BY <2>1, <2>2 DEF RootStepped, KeysIn
<1>2. ASSUME NEW n \in Names, NEW k \in Keys, R!Hold(n, k) PROVE RootStepped
  <2>1. /\ UNCHANGED <<readable, listed, published>>
        /\ held' = [held EXCEPT ![n] = k] /\ owner' = [owner EXCEPT ![k] = n]
        /\ owner[k] = NoName
    BY <1>2 DEF R!Hold
  <2>2. \A m \in Names : owner[k] # m
    BY <2>1, NamesAssumption
  <2>3. ASSUME NEW m \in Names, held'[m] \in Keys PROVE owner'[held'[m]] = m
    BY <2>1, <2>2, <2>3
  <2>4. ASSUME NEW m \in Names, NEW i \in listed[m] PROVE owner'[i] = m
    BY <2>1, <2>2
  <2>5. RootOwned'
    BY <2>1, <2>3, <2>4
  <2>6. QED
    BY <2>1, <2>5 DEF RootStepped, KeysIn
<1>3. ASSUME NEW n \in Names, NEW keep \in BOOLEAN, R!Register(n, keep) PROVE RootStepped
  <2>1. /\ readable' = TRUE /\ UNCHANGED <<held, owner>>
        /\ held[n] \in Keys \ published /\ published' = published \cup {held[n]}
        /\ listed' = [listed EXCEPT ![n] = {held[n]} \cup IF keep THEN @ ELSE {}]
    BY <1>3 DEF R!Register
  <2>2. /\ listed' \in Copies /\ listed'[n] \subseteq {held[n]} \cup listed[n]
        /\ \A m \in Names \ {n} : listed'[m] = listed[m]
    BY <2>1
  <2>3. RootOwned'
    <3>1. \A m \in Names : \A k \in listed'[m] : owner'[k] = m /\ k \in published'
      BY <2>1, <2>2
    <3>2. QED
      BY <2>1, <3>1
  <2>4. KeysIn(listed') \cap published \subseteq KeysIn(listed)
    BY <2>1, <2>2 DEF KeysIn
  <2>5. QED
    BY <2>1, <2>2, <2>3, <2>4 DEF RootStepped
<1>4. ASSUME NEW n \in Names, R!Lose(n) PROVE RootStepped
  BY <1>4, NoKeyAssumption DEF R!Lose, RootStepped, KeysIn
<1>5. ASSUME NEW n \in Names, R!Revoke(n) PROVE RootStepped
  <2>1. /\ readable' = TRUE /\ UNCHANGED <<held, owner, published>>
        /\ listed' = [listed EXCEPT ![n] = {}]
    BY <1>5 DEF R!Revoke
  <2>2. listed' \in Copies /\ \A m \in Names : listed'[m] \subseteq listed[m]
    BY <2>1
  <2>3. RootOwned'
    BY <2>1, <2>2
  <2>4. QED
    BY <2>1, <2>2, <2>3 DEF RootStepped, KeysIn
<1>6. QED
  BY <1>1, <1>2, <1>3, <1>4, <1>5 DEF R!RegistryNext

\* What copies list they learned, and what they learned is owned for good.
LEMMA ProvideStep ==
  ASSUME SystemInv, Provide
  PROVE  SystemInv'
<1>1. RootStepped /\ UNCHANGED <<bundleCopy, keyCopy, learned, dropped, inFlight, now>>
  BY RegistryStep DEF Provide, deliveries
<1>2. SystemTypeOK'
  BY <1>1 DEF RootStepped, SystemInv, SystemTypeOK
<1>3. ASSUME NEW v \in Verifiers PROVE CopyOwned(v)' /\ Remembered(v)'
  <2>1. /\ CopyOwned(v) /\ Remembered(v)
        /\ learned[v] \subseteq published /\ dropped[v] \subseteq published
    BY DEF SystemInv, Remembered
  <2>2. dropped[v] \cap KeysIn(listed') = {}
    BY <1>1, <2>1 DEF RootStepped, Remembered
  <2>3. Remembered(v)'
    BY <1>1, <2>1, <2>2 DEF RootStepped, Remembered, KeysIn
  <2>4. KeysIn(listed') \cap learned[v] \subseteq KeysIn(listed)
    BY <1>1, <2>1 DEF RootStepped
  <2>5. ASSUME bundleCopy[v] # Unreadable, NEW n \in Names, NEW k \in bundleCopy[v][n]
        PROVE  owner'[k] = n
    <3>1. owner[k] = n /\ k \in Keys
      BY <2>1, <2>5 DEF CopyOwned, SystemInv, SystemTypeOK, Copies
    <3>2. QED
      BY <1>1, <3>1, NamesAssumption DEF RootStepped
  <2>6. CopyOwned(v)'
    BY <1>1, <2>1, <2>4, <2>5 DEF CopyOwned, KeysIn
  <2>7. QED
    BY <2>3, <2>6
<1>4. \A t \in inFlight' : Minted(t)'
  BY <1>1 DEF SystemInv, Minted
<1>5. QED
  BY <1>1, <1>2, <1>3, <1>4 DEF SystemInv, RootStepped

\* A new copy lists what the root lists.
LEMMA SyncBundleStep ==
  ASSUME SystemInv, NEW w \in Verifiers, SyncBundle(w)
  PROVE  SystemInv'
<1>1. /\ UNCHANGED <<readable, listed, held, owner, published, keyCopy, inFlight, now>>
      /\ bundleCopy' = [bundleCopy EXCEPT ![w] = IF readable THEN listed ELSE Unreadable]
      /\ IF readable
           THEN /\ learned' = [learned EXCEPT ![w] = @ \cup KeysIn(listed)]
                /\ dropped' = [dropped EXCEPT ![w] = @ \cup (learned[w] \ KeysIn(listed))]
           ELSE UNCHANGED <<learned, dropped>>
  BY DEF SyncBundle, root
<1>2. KeysIn(listed) \subseteq published /\ published \subseteq Keys
  BY DEF SystemInv, RootOwned, KeysIn, SystemTypeOK
<1>3. SystemTypeOK'
  BY <1>1, <1>2 DEF SystemInv, SystemTypeOK, Copies
<1>4. RootOwned'
  BY <1>1 DEF SystemInv, RootOwned
<1>5. ASSUME NEW v \in Verifiers PROVE CopyOwned(v)' /\ Remembered(v)'
  <2>1. CopyOwned(v) /\ Remembered(v)
    BY DEF SystemInv
  <2>2. CASE v # w \/ ~readable
    <3>1. /\ learned'[v] = learned[v] /\ dropped'[v] = dropped[v]
          /\ bundleCopy'[v] \in {bundleCopy[v], Unreadable}
      BY <1>1, <2>2 DEF SystemInv, SystemTypeOK
    <3>2. QED
      BY <1>1, <2>1, <3>1 DEF CopyOwned, Remembered, KeysIn
  <2>3. CASE v = w /\ readable
    <3>1. /\ learned'[v] = learned[v] \cup KeysIn(listed)
          /\ dropped'[v] = dropped[v] \cup (learned[v] \ KeysIn(listed))
          /\ bundleCopy'[v] = listed
      BY <1>1, <2>3 DEF SystemInv, SystemTypeOK
    <3>2. dropped'[v] \cap KeysIn(listed) = {}
      BY <2>1, <3>1 DEF Remembered
    <3>3. Remembered(v)'
      BY <1>1, <1>2, <2>1, <3>1, <3>2 DEF Remembered, KeysIn
    <3>4. CopyOwned(v)'
      BY <1>1, <3>1, <3>2 DEF CopyOwned, SystemInv, RootOwned, KeysIn
    <3>5. QED
      BY <3>3, <3>4
  <2>4. QED
    BY <2>2, <2>3
<1>6. \A t \in inFlight' : Minted(t)'
  BY <1>1 DEF SystemInv, Minted
<1>7. QED
  BY <1>3, <1>4, <1>5, <1>6 DEF SystemInv

\* The other steps leave the root and the copies of the bundle alone.
LEMMA OtherStep ==
  ASSUME SystemInv, UNCHANGED <<root, bundleCopy, learned, dropped>>,
         keyCopy' \in [Names -> Keys \cup {NoKey}], now' \in Nat,
         \A t \in inFlight' : Minted(t)'
  PROVE  SystemInv'
<1>1. SystemTypeOK'
  BY DEF SystemInv, SystemTypeOK, root
<1>2. RootOwned'
  BY DEF SystemInv, RootOwned, root
<1>3. ASSUME NEW v \in Verifiers PROVE CopyOwned(v)' /\ Remembered(v)'
  BY DEF SystemInv, CopyOwned, Remembered, KeysIn, root
<1>4. QED
  BY <1>1, <1>2, <1>3 DEF SystemInv

LEMMA SystemStep ==
  ASSUME SystemInv, [Next]_vars
  PROVE  SystemInv'
<1>1. CASE Provide
  BY <1>1, ProvideStep
<1>2. ASSUME NEW v \in Verifiers, SyncBundle(v) PROVE SystemInv'
  BY <1>2, SyncBundleStep
<1>3. ASSUME NEW n \in Names, SyncKey(n) PROVE SystemInv'
  <2>1. /\ UNCHANGED <<root, bundleCopy, learned, dropped, inFlight, now>>
        /\ keyCopy' = [keyCopy EXCEPT ![n] = held[n]]
    BY <1>3 DEF SyncKey
  <2>2. keyCopy' \in [Names -> Keys \cup {NoKey}] /\ now' \in Nat
    BY <2>1 DEF SystemInv, SystemTypeOK
  <2>3. \A t \in inFlight' : Minted(t)'
    BY <2>1 DEF SystemInv, Minted
  <2>4. QED
    BY <2>1, <2>2, <2>3, OtherStep
<1>4. ASSUME NEW n \in Names, NEW sub \in Names, NEW v \in Verifiers, Issue(n, sub, v)
      PROVE  SystemInv'
  <2>1. /\ UNCHANGED <<root, bundleCopy, learned, dropped, keyCopy, now>>
        /\ keyCopy[n] # NoKey
        /\ inFlight' = inFlight \cup {Mint(sub, keyCopy[n], keyCopy[n], v, now, TTL)}
    BY <1>4 DEF Issue, deliveries
  <2>2. keyCopy[n] \in Keys /\ now \in 0..now
    BY <2>1 DEF SystemInv, SystemTypeOK
  <2>3. \A t \in inFlight' : Minted(t)'
    BY <2>1, <2>2 DEF SystemInv, Minted
  <2>4. QED
    BY <2>1, <2>3, OtherStep DEF SystemInv, SystemTypeOK
<1>5. ASSUME NEW t \in inFlight, Forget(t) PROVE SystemInv'
  <2>1. /\ UNCHANGED <<root, bundleCopy, learned, dropped, keyCopy, now>>
        /\ inFlight' \subseteq inFlight
    BY <1>5 DEF Forget, deliveries
  <2>2. \A s \in inFlight' : Minted(s)'
    BY <2>1 DEF SystemInv, Minted
  <2>3. QED
    BY <2>1, <2>2, OtherStep DEF SystemInv, SystemTypeOK
<1>6. CASE Tick
  <2>1. /\ UNCHANGED <<root, bundleCopy, learned, dropped, keyCopy, inFlight>>
        /\ now' = now + 1 /\ now \in Nat
    BY <1>6 DEF Tick, deliveries, SystemInv, SystemTypeOK
  <2>2. 0..now \subseteq 0..now'
    BY <2>1
  <2>3. \A s \in inFlight' : Minted(s)'
    BY <2>1, <2>2 DEF SystemInv, Minted
  <2>4. QED
    BY <2>1, <2>3, OtherStep DEF SystemInv, SystemTypeOK
<1>7. CASE UNCHANGED vars
  <2>1. UNCHANGED <<root, bundleCopy, learned, dropped, keyCopy, inFlight, now>>
    BY <1>7 DEF vars, deliveries
  <2>2. \A s \in inFlight' : Minted(s)'
    BY <2>1 DEF SystemInv, Minted
  <2>3. QED
    BY <2>1, <2>2, OtherStep DEF SystemInv, SystemTypeOK
<1>8. QED
  BY <1>1, <1>2, <1>3, <1>4, <1>5, <1>6, <1>7 DEF Next, ServicesNext

LEMMA StaysInv == SafeSpec => []SystemInv
<1>1. QED
  BY SystemInit, SystemStep, PTL DEF SafeSpec

-----------------------------------------------------------------------------
(* What a service makes of a token, given the copy it has *)

\* The bundle binds to an identity the keys of its copy.
LEMMA CopyKeys ==
  ASSUME NEW v \in Verifiers, bundleCopy[v] # Unreadable, NEW id,
         NEW j \in KeysFor(ToDict(TrustDomain, EntriesFor(bundleCopy[v])), id)
  PROVE  id \in Names /\ j.key \in bundleCopy[v][id]
<1> DEFINE doc == ToDict(TrustDomain, EntriesFor(bundleCopy[v]))
<1>1. doc.identities = EntriesFor(bundleCopy[v])
  BY DEF ToDict
<1>2. id \in DOMAIN doc.identities /\ j \in doc.identities[id]
  BY DEF KeysFor, Kept
<1>3. id \in Names /\ \E k \in bundleCopy[v][id] : j = PublicJwk(k)
  BY <1>1, <1>2 DEF EntriesFor
<1>4. QED
  BY <1>3 DEF PublicJwk

LEMMA CopyListed ==
  ASSUME SystemInv, NEW v \in Verifiers, bundleCopy[v] # Unreadable, NEW n \in Names,
         NEW k \in bundleCopy[v][n]
  PROVE  LET doc == ToDict(TrustDomain, EntriesFor(bundleCopy[v])) IN
         /\ ParsePython(doc) = "Parsed" /\ KeysFor(doc, n) \subseteq Jwk
         /\ PublicJwk(k) \in KeysFor(doc, n)
<1> DEFINE copy == bundleCopy[v]
           entries == EntriesFor(copy)
           doc == ToDict(TrustDomain, entries)
           S == {m \in Names : copy[m] # {}}
<1>1. copy \in Copies
  BY DEF SystemInv, SystemTypeOK
<1>2. \A m \in Names : {PublicJwk(i) : i \in copy[m]} \subseteq Jwk
  BY <1>1 DEF Copies, PublicJwk, Jwk
<1>3. /\ entries = [m \in S |-> {PublicJwk(i) : i \in copy[m]}]
      /\ entries \in [S -> SUBSET Jwk] /\ n \in S
  BY <1>2 DEF EntriesFor
<1>4. entries \notin {Absent, Null, Array}
  <2>1. S \in SUBSET Names
    OBVIOUS
  <2> HIDE DEF S, entries
  <2>2. QED
    BY <1>3, <2>1, MarksAreNothingElse
<1>5. /\ doc.trust_domain = TrustDomain /\ doc.version = BundleVersion
      /\ doc.identities = entries
  BY DEF ToDict
<1>6. TrustDomain \in TrustDomainText /\ IsSpiffeId(n) /\ TrustDomainOf(n) = TrustDomain
  BY NamesAssumption DEF IsSpiffeId
<1> HIDE DEF doc
<1>7. ParsePython(doc) = "Parsed"
  BY <1>4, <1>5, <1>6, MarksAssumption DEF ParsePython
<1>8. entries[n] \in SUBSET Jwk /\ PublicJwk(k) \in entries[n]
  BY <1>2, <1>3
<1>9. entries[n] \notin {KeyLess, {}}
  BY <1>8, MarksAreNothingElse
<1>10. n \in DOMAIN entries
  BY <1>3
<1> HIDE DEF entries
<1>11. KeysFor(doc, n) = entries[n]
  BY <1>4, <1>5, <1>6, <1>9, <1>10 DEF KeysFor, Kept
<1>12. QED
  BY <1>7, <1>8, <1>11 DEF doc, entries, copy

\* What may be accepted is signed by a key that the copy lists for its sub.
LEMMA AcceptedIsCopied ==
  ASSUME NEW v \in Verifiers, NEW t, Minted(t), MayAccept(t, v)
  PROVE  /\ bundleCopy[v] # Unreadable
         /\ t.sub \in Names /\ t.signer \in bundleCopy[v][t.sub] /\ t.aud = v
<1> DEFINE doc == ToDict(TrustDomain, EntriesFor(bundleCopy[v]))
<1>1. PICK c \in Clocks : "Accepted" \in Outcomes(t, v, c)
  BY DEF MayAccept
<1>2. /\ bundleCopy[v] # Unreadable
      /\ \/ VerifyPython(t, doc, v, c) = "Accepted"
         \/ VerifyTypeScript(t, doc, v, c) = "Accepted"
         \/ VerifyGo(t, doc, v, c) = "Accepted"
  BY <1>1 DEF Outcomes
<1>3. t.signer \in Keys
  BY DEF Minted, Mint
<1>4. t.aud = v /\ \E j \in KeysFor(doc, t.sub) : j.key = t.signer
  BY <1>2, <1>3, AcceptedIsBound
<1>5. QED
  BY <1>2, <1>4, CopyKeys

\* Who a token says it is from is who it is from.
THEOREM TokensAreAuthentic == SafeSpec => []Authentic
<1>1. SystemInv => Authentic
  <2> SUFFICES ASSUME SystemInv, NEW v \in Verifiers, NEW t \in inFlight, MayAccept(t, v)
               PROVE  owner[t.signer] = t.sub /\ t.aud = v
    BY DEF Authentic
  <2>1. Minted(t) /\ CopyOwned(v)
    BY DEF SystemInv
  <2>2. QED
    BY <2>1, AcceptedIsCopied DEF CopyOwned
<1>2. QED
  BY <1>1, StaysInv, PTL

\* What a copy has ceased to list is never accepted again.
THEOREM RevocationIsFinal == SafeSpec => []RevocationHolds
<1>1. SystemInv => RevocationHolds
  <2> SUFFICES ASSUME SystemInv, NEW v \in Verifiers, NEW t \in inFlight, MayAccept(t, v)
               PROVE  t.signer \notin dropped[v]
    BY DEF RevocationHolds
  <2>1. t.signer \in KeysIn(bundleCopy[v]) /\ bundleCopy[v] # Unreadable
    BY AcceptedIsCopied DEF KeysIn, SystemInv
  <2>2. QED
    BY <2>1 DEF SystemInv, CopyOwned
<1>2. QED
  BY <1>1, StaysInv, PTL

\* What the copy lists is accepted until it expires, in every implementation and
\* however the clock differs.
LEMMA CopiedIsAccepted ==
  ASSUME SystemInv, NEW v \in Verifiers, bundleCopy[v] # Unreadable,
         NEW sub \in Names, NEW k \in bundleCopy[v][sub], NEW iat \in 0..now,
         now < iat + TTL
  PROVE  MustAccept(Mint(sub, k, k, v, iat, TTL), v)
<1> DEFINE t == Mint(sub, k, k, v, iat, TTL)
           doc == ToDict(TrustDomain, EntriesFor(bundleCopy[v]))
           exp == iat + TTL
<1> SUFFICES ASSUME NEW c \in Clocks PROVE Outcomes(t, v, c) = {"Accepted"}
  BY DEF MustAccept
<1>1. /\ ParsePython(doc) = "Parsed" /\ KeysFor(doc, sub) \subseteq Jwk
      /\ PublicJwk(k) \in KeysFor(doc, sub)
  BY CopyListed
<1>2. k \in Keys /\ now \in Nat
  BY DEF SystemInv, SystemTypeOK, Copies
<1>3. /\ iat \in Int /\ iat <= now /\ TTL \in Int /\ c \in Int
      /\ c >= now - Leeway /\ c <= now + Leeway
  <2>1. PICK s \in -MaxSkew..MaxSkew : c = now + s
    BY DEF Clocks
  <2>2. QED
    BY <1>2, <2>1, SkewAssumption, LeewayAssumption
<1>4. iat <= c + Leeway /\ c < exp + Leeway /\ exp \in Int /\ exp - iat = TTL
  BY <1>2, <1>3, LeewayAssumption
<1> HIDE DEF exp, doc
<1>5. /\ sub # Absent /\ IsSpiffeId(sub) /\ Listed # v /\ Null # v
      /\ iat # Absent /\ exp # Absent
  BY <1>3, <1>4, NamesAssumption, MarksAreNothingElse
<1>6. t = Mint(sub, k, k, v, iat, exp - iat)
  BY <1>4
<1>7. /\ VerifyPython(t, doc, v, c) = "Accepted"
      /\ VerifyTypeScript(t, doc, v, c) = "Accepted"
      /\ VerifyGo(t, doc, v, c) = "Accepted"
  BY <1>1, <1>2, <1>3, <1>4, <1>5, <1>6, HonestVerified
<1>8. QED
  BY <1>7 DEF Outcomes, doc

\* What is listed and known to a verifier is accepted, in every implementation and
\* however its clock differs.
THEOREM OverlapWorks == SafeSpec => []OverlapHolds
<1>1. SystemInv => OverlapHolds
  <2> SUFFICES ASSUME SystemInv, NEW v \in Verifiers, NEW t \in inFlight,
                      owner[t.signer] = t.sub, t.aud = v, now < t.exp,
                      t.signer \in KeysIn(listed) \cap learned[v],
                      bundleCopy[v] # Unreadable
               PROVE  MustAccept(t, v)
    BY DEF OverlapHolds
  <2>1. PICK sub \in Names, w \in Verifiers, k \in Keys, iat \in 0..now :
          t = Mint(sub, k, k, w, iat, TTL)
    BY DEF SystemInv, Minted
  <2>2. t.sub = sub /\ t.signer = k /\ w = v /\ t.exp = iat + TTL
    BY <2>1 DEF Mint
  <2>3. k \in bundleCopy[v][sub]
    <3>1. PICK n \in Names : k \in bundleCopy[v][n]
      BY <2>2 DEF SystemInv, CopyOwned, KeysIn
    <3>2. owner[k] = n
      BY <3>1 DEF SystemInv, CopyOwned
    <3>3. QED
      BY <2>2, <3>1, <3>2
  <2>4. QED
    BY <2>1, <2>2, <2>3, CopiedIsAccepted
<1>2. QED
  BY <1>1, StaysInv, PTL

-----------------------------------------------------------------------------
(* What Converges and RevocationReaches come to, but for the fairness *)

Delivered(n, v) == readable /\ keyCopy[n] = held[n] /\ bundleCopy[v] = listed

\* Once the root and both copies agree, a verifier accepts, in every implementation,
\* whatever the service signs with a listed key, ...
THEOREM DeliveredIsAccepted ==
  SafeSpec => [](\A n \in Names, v \in Verifiers :
    Delivered(n, v) /\ held[n] \in listed[n] => MustAccept(FreshToken(n, v), v))
<1>1. SystemInv => \A n \in Names, v \in Verifiers :
        Delivered(n, v) /\ held[n] \in listed[n] => MustAccept(FreshToken(n, v), v)
  <2> SUFFICES ASSUME SystemInv, NEW n \in Names, NEW v \in Verifiers,
                      Delivered(n, v), held[n] \in listed[n]
               PROVE  MustAccept(FreshToken(n, v), v)
    OBVIOUS
  <2>1. bundleCopy[v] # Unreadable /\ keyCopy[n] \in bundleCopy[v][n]
    BY MarksAreNothingElse DEF Delivered, SystemInv, SystemTypeOK, Copies
  <2>2. now \in 0..now /\ now < now + TTL
    BY SkewAssumption DEF SystemInv, SystemTypeOK
  <2>3. QED
    BY <2>1, <2>2, CopiedIsAccepted DEF FreshToken
<1>2. QED
  BY <1>1, StaysInv, PTL

\* ... and refuses, from any service and under any name, what is signed with a key
\* that its copy does not list.
THEOREM UnlistedIsRefused ==
  SafeSpec => [](\A k \in Keys, v \in Verifiers :
    (bundleCopy[v] # Unreadable => k \notin KeysIn(bundleCopy[v]))
      => \A n \in Names : ~MayAccept(Mint(n, k, k, v, now, TTL), v))
<1>1. SystemInv => \A k \in Keys, v \in Verifiers :
        (bundleCopy[v] # Unreadable => k \notin KeysIn(bundleCopy[v]))
          => \A n \in Names : ~MayAccept(Mint(n, k, k, v, now, TTL), v)
  <2> SUFFICES ASSUME SystemInv, NEW k \in Keys, NEW v \in Verifiers, NEW n \in Names,
                      MayAccept(Mint(n, k, k, v, now, TTL), v)
               PROVE  bundleCopy[v] # Unreadable /\ k \in KeysIn(bundleCopy[v])
    OBVIOUS
  <2> DEFINE t == Mint(n, k, k, v, now, TTL)
  <2>1. now \in 0..now
    BY DEF SystemInv, SystemTypeOK
  <2>2. Minted(t)
    BY <2>1 DEF Minted
  <2>3. t.signer = k /\ t.sub = n
    BY DEF Mint
  <2>4. QED
    BY <2>2, <2>3, AcceptedIsCopied DEF KeysIn
<1>2. QED
  BY <1>1, StaysInv, PTL
=============================================================================
