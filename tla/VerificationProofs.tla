------------------------- MODULE VerificationProofs -------------------------
(***************************************************************************)
(* Lemmas about verify in the three implementations, as functions of a      *)
(* token, a document and a moment, whatever these may be.                   *)
(***************************************************************************)
EXTENDS Verification, TLAPS

\* Neither rule for choosing candidates reaches beyond the keys it is given.
LEMMA CandidatesBound ==
  ASSUME NEW t, NEW jwks
  PROVE  /\ Candidates(t, jwks) \subseteq jwks
         /\ CandidatesGo(t, jwks) \subseteq jwks \cap Jwk
BY DEF Candidates, CandidatesGo

\* The keys a document binds to an identity stand in the entry of that identity,
\* which belongs to the trust domain of the document.
LEMMA KeysForBound ==
  ASSUME NEW doc, NEW id, NEW j \in KeysFor(doc, id)
  PROVE  /\ IsSpiffeId(id) /\ TrustDomainOf(id) = doc.trust_domain
         /\ j \in doc.identities[id]
BY DEF KeysFor, Kept

\* What TypeScript makes of an element that is no object has no key, ...
LEMMA AsJwkBound ==
  ASSUME NEW t, t.signer \in Keys, NEW jwks, Null \notin jwks,
         NEW j \in AsJwk(jwks), j.key = t.signer
  PROVE  j \in jwks \ {Null, Scalar}
BY MarksAssumption DEF AsJwk

\* ... and it makes nothing of an object.
LEMMA AsJwkObjects ==
  ASSUME NEW jwks \in SUBSET Jwk
  PROVE  AsJwk(jwks) = jwks
BY ElementsAssumption DEF AsJwk

\* What each implementation accepts is signed by a key that the document binds to
\* the claimed sub and carries the audience asked for.
LEMMA AcceptedIsBound ==
  ASSUME NEW t, t.signer \in Keys, NEW doc, NEW me, NEW now,
         \/ VerifyPython(t, doc, me, now) = "Accepted"
         \/ VerifyTypeScript(t, doc, me, now) = "Accepted"
         \/ VerifyGo(t, doc, me, now) = "Accepted"
  PROVE  /\ IsSpiffeId(t.sub) /\ TrustDomainOf(t.sub) = doc.trust_domain
         /\ \E j \in KeysFor(doc, t.sub) \ {Null, Scalar} : j.key = t.signer
         /\ t.aud = me
<1> DEFINE jwks == KeysFor(doc, t.sub)
<1>1. CASE VerifyPython(t, doc, me, now) = "Accepted"
  <2>1. ParsePython(doc) # "Accepted"
    BY DEF ParsePython
  <2>2. Signed(t, Candidates(t, jwks)) /\ ClaimsPython(t, me, now)
    BY <1>1, <2>1 DEF VerifyPython
  <2>3. \E j \in jwks : j.key = t.signer
    BY <2>2, CandidatesBound DEF Signed
  <2>4. jwks \subseteq Jwk
    BY <1>1, <2>1 DEF VerifyPython
  <2>5. QED
    BY <2>2, <2>3, <2>4, KeysForBound, ElementsAssumption DEF ClaimsPython
<1>2. CASE VerifyTypeScript(t, doc, me, now) = "Accepted"
  <2>1. ParseTypeScript(doc) # "Accepted"
    BY DEF ParseTypeScript
  <2>2. /\ Signed(t, Candidates(t, AsJwk(jwks))) /\ ClaimsTypeScript(t, me, now)
        /\ Null \notin jwks
    BY <1>2, <2>1 DEF VerifyTypeScript
  <2>3. PICK j \in AsJwk(jwks) : j.key = t.signer
    BY <2>2, CandidatesBound DEF Signed
  <2>4. j \in jwks \ {Null, Scalar}
    BY <2>2, <2>3, AsJwkBound
  <2>5. QED
    BY <2>2, <2>3, <2>4, KeysForBound DEF ClaimsTypeScript
<1>3. CASE VerifyGo(t, doc, me, now) = "Accepted"
  <2>1. ParseGo(doc) # "Accepted"
    BY DEF ParseGo
  <2>2. Signed(t, CandidatesGo(t, jwks)) /\ ClaimsGo(t, me, now)
    BY <1>3, <2>1 DEF VerifyGo
  <2>3. \E j \in jwks \cap Jwk : j.key = t.signer
    BY <2>2, CandidatesBound DEF Signed
  <2>4. QED
    BY <2>2, <2>3, KeysForBound, ElementsAssumption DEF ClaimsGo
<1>4. QED
  BY <1>1, <1>2, <1>3

-----------------------------------------------------------------------------
(* The three compared *)

\* The types of the two moments in a token.
Timed(t) == t.exp \in Int \cup {Absent} /\ t.iat \in Int \cup {Absent}

\* A document with an entry that is kept parses in all languages or in none: ...
LEMMA KeptParses ==
  ASSUME NEW doc, NEW id, KeysFor(doc, id) # {}, ParsePython(doc) = "Parsed"
  PROVE  ParseTypeScript(doc) = "Parsed" /\ ParseGo(doc) = "Parsed"
<1>1. doc.trust_domain \in TrustDomainText
  BY DEF KeysFor, Kept, IsSpiffeId
<1>2. QED
  BY <1>1, MarksAssumption DEF ParsePython, ParseTypeScript, ParseGo

LEMMA KeptParsesPython ==
  ASSUME NEW doc, NEW id, KeysFor(doc, id) # {},
         ParseTypeScript(doc) = "Parsed" \/ ParseGo(doc) = "Parsed"
  PROVE  ParsePython(doc) = "Parsed"
BY MarksAssumption DEF ParsePython, ParseTypeScript, ParseGo, KeysFor

\* ... and a signature that Python finds among its candidates Go finds among its
\* own.
LEMMA GoFindsWhatPythonFinds ==
  ASSUME NEW t, t.signer \in Keys, NEW jwks \in SUBSET Jwk, Signed(t, Candidates(t, jwks))
  PROVE  Signed(t, CandidatesGo(t, jwks))
<1> DEFINE usable == {j \in jwks : j.key # Unusable}
           named == {j \in usable : t.kid # Absent /\ j.kid = t.kid}
<1>1. PICK j \in Candidates(t, jwks) : j.key = t.signer
  BY DEF Signed
<1>2. j \in usable
  BY <1>1, CandidatesBound, MarksAssumption
<1>3. CASE named = {}
  BY <1>1, <1>2, <1>3 DEF Signed, CandidatesGo
<1>4. CASE named # {}
  BY <1>1, <1>2, <1>4 DEF Signed, Candidates, CandidatesGo
<1>5. QED
  BY <1>3, <1>4

\* Whatever Python accepts the others accept.
LEMMA PythonStrictest ==
  ASSUME NEW t, t.signer \in Keys, Timed(t), NEW doc, NEW me, NEW now \in Int,
         Null # me, Listed # me,
         VerifyPython(t, doc, me, now) = "Accepted"
  PROVE  /\ VerifyTypeScript(t, doc, me, now) = "Accepted"
         /\ VerifyGo(t, doc, me, now) = "Accepted"
<1> DEFINE jwks == KeysFor(doc, t.sub)
<1>1. ParsePython(doc) # "Accepted"
  BY DEF ParsePython
<1>2. /\ t.sub # Absent /\ IsSpiffeId(t.sub)
      /\ ParsePython(doc) = "Parsed" /\ jwks # {} /\ jwks \subseteq Jwk
      /\ Signed(t, Candidates(t, jwks)) /\ ClaimsPython(t, me, now)
  BY <1>1 DEF VerifyPython
<1>3. ParseTypeScript(doc) = "Parsed" /\ ParseGo(doc) = "Parsed"
  BY <1>2, KeptParses
<1>4. Null \notin jwks /\ AsJwk(jwks) = jwks
  BY <1>2, AsJwkObjects, ElementsAssumption
<1>5. Signed(t, CandidatesGo(t, jwks))
  BY <1>2, GoFindsWhatPythonFinds
<1>6. /\ t.alg = "ES256" /\ t.aud = me
      /\ ClaimsTypeScript(t, me, now) /\ ClaimsGo(t, me, now)
  BY <1>2, LeewayAssumption DEF Timed, ClaimsPython, ClaimsTypeScript, ClaimsGo
<1>7. VerifyTypeScript(t, doc, me, now) = "Accepted"
  BY <1>2, <1>3, <1>4, <1>6 DEF VerifyTypeScript
<1>8. VerifyGo(t, doc, me, now) = "Accepted"
  BY <1>2, <1>3, <1>5, <1>6 DEF VerifyGo
<1>9. QED
  BY <1>7, <1>8

\* What another implementation accepts Python accepts, but for the last tick, the
\* iat, the kid and the unusable keys that Parity names.
LEMMA TypeScriptNoStricter ==
  ASSUME NEW t, t.signer \in Keys, Timed(t), NEW doc, NEW me, NEW now \in Int,
         Listed # me,
         VerifyTypeScript(t, doc, me, now) = "Accepted",
         KeysFor(doc, t.sub) \subseteq Jwk, t.exp + Leeway # now
  PROVE  VerifyPython(t, doc, me, now) = "Accepted"
<1> DEFINE jwks == KeysFor(doc, t.sub)
<1>1. ParseTypeScript(doc) # "Accepted"
  BY DEF ParseTypeScript
<1>2. /\ t.alg = "ES256" /\ t.sub # Absent /\ IsSpiffeId(t.sub)
      /\ ClaimsTypeScript(t, me, now)
      /\ ParseTypeScript(doc) = "Parsed" /\ jwks # {}
      /\ Signed(t, Candidates(t, AsJwk(jwks)))
  BY <1>1 DEF VerifyTypeScript
<1>3. ParsePython(doc) = "Parsed" /\ AsJwk(jwks) = jwks
  BY <1>2, KeptParsesPython, AsJwkObjects
<1>4. ClaimsPython(t, me, now)
  BY <1>2, LeewayAssumption DEF Timed, ClaimsPython, ClaimsTypeScript
<1>5. t.aud # Listed
  BY <1>2 DEF ClaimsTypeScript
<1>6. QED
  BY <1>2, <1>3, <1>4, <1>5 DEF VerifyPython

LEMMA GoNoStricter ==
  ASSUME NEW t, t.signer \in Keys, Timed(t), NEW doc, NEW me, NEW now \in Int,
         Listed # me,
         VerifyGo(t, doc, me, now) = "Accepted",
         KeysFor(doc, t.sub) \subseteq Jwk,
         t.iat # Absent => t.iat <= now + Leeway,
         t.kid # Absent,
         \A j \in KeysFor(doc, t.sub) : j.kid = t.kid => j.key # Unusable
  PROVE  VerifyPython(t, doc, me, now) = "Accepted"
<1> DEFINE jwks == KeysFor(doc, t.sub)
<1>1. ParseGo(doc) # "Accepted"
  BY DEF ParseGo
<1>2. /\ t.sub # Absent /\ IsSpiffeId(t.sub) /\ t.aud # Listed
      /\ ParseGo(doc) = "Parsed" /\ jwks # {}
      /\ Signed(t, CandidatesGo(t, jwks)) /\ ClaimsGo(t, me, now)
  BY <1>1 DEF VerifyGo
<1>3. ParsePython(doc) = "Parsed"
  BY <1>2, KeptParsesPython
<1>4. ClaimsPython(t, me, now)
  BY <1>2, LeewayAssumption DEF Timed, ClaimsPython, ClaimsGo
<1>5. Signed(t, Candidates(t, jwks))
  BY <1>2 DEF Signed, Candidates, CandidatesGo
<1>6. QED
  BY <1>2, <1>3, <1>4, <1>5 DEF VerifyPython

\* A token that was minted with a listed key, whose lifetime is not over, is
\* accepted.
LEMMA HonestVerified ==
  ASSUME NEW sub, sub # Absent, IsSpiffeId(sub), NEW k \in Keys,
         NEW me, Listed # me, Null # me,
         NEW iat \in Int, iat # Absent, NEW exp \in Int, exp # Absent,
         NEW now \in Int, iat <= now + Leeway, now < exp + Leeway,
         NEW doc, ParsePython(doc) = "Parsed",
         KeysFor(doc, sub) \subseteq Jwk, PublicJwk(k) \in KeysFor(doc, sub)
  PROVE  LET t == Mint(sub, k, k, me, iat, exp - iat) IN
         /\ VerifyPython(t, doc, me, now) = "Accepted"
         /\ VerifyTypeScript(t, doc, me, now) = "Accepted"
         /\ VerifyGo(t, doc, me, now) = "Accepted"
<1> DEFINE t == Mint(sub, k, k, me, iat, exp - iat)
           jwks == KeysFor(doc, sub)
<1>1. /\ t.alg = "ES256" /\ t.kid = k /\ t.sub = sub /\ t.aud = me /\ t.iat = iat
      /\ t.exp = exp /\ t.signer = k
  BY DEF Mint
<1> HIDE DEF t
<1>2. PublicJwk(k).kid = k /\ PublicJwk(k).key = k
  BY DEF PublicJwk
<1>3. Signed(t, Candidates(t, jwks))
  BY <1>1, <1>2 DEF Signed, Candidates
<1>4. ClaimsPython(t, me, now)
  BY <1>1, LeewayAssumption DEF ClaimsPython
<1>5. VerifyPython(t, doc, me, now) = "Accepted"
  BY <1>1, <1>3, <1>4 DEF VerifyPython
<1>6. t.signer \in Keys /\ Timed(t)
  BY <1>1 DEF Timed
<1>7. /\ VerifyTypeScript(t, doc, me, now) = "Accepted"
      /\ VerifyGo(t, doc, me, now) = "Accepted"
  BY <1>5, <1>6, PythonStrictest
<1>8. QED
  BY <1>5, <1>7 DEF t

-----------------------------------------------------------------------------
(* A document that is written back *)

\* No function is taken for a member that is missing or of another type.
MarksAreNoMaps == \A doc : Rewritten(doc).identities \notin {Absent, Null, Array}

LEMMA RewrittenKeys ==
  ASSUME NEW doc, MarksAreNoMaps, ParsePython(doc) = "Parsed", NEW id
  PROVE  KeysFor(Rewritten(doc), id) = KeysFor(doc, id)
<1> DEFINE new == Rewritten(doc)
<1>1. /\ new.trust_domain = doc.trust_domain
      /\ new.identities = [i \in Kept(doc) |-> doc.identities[i]]
  BY DEF Rewritten, ToDict
<1>2. doc.identities # Array /\ new.identities # Array
  BY DEF ParsePython, MarksAreNoMaps
<1>3. Kept(new) = Kept(doc)
  BY <1>1 DEF Kept
<1>4. QED
  BY <1>1, <1>2, <1>3 DEF KeysFor

LEMMA RewrittenParses ==
  ASSUME NEW doc, MarksAreNoMaps, ParsePython(doc) = "Parsed"
  PROVE  /\ ParsePython(Rewritten(doc)) = "Parsed"
         /\ ParseTypeScript(Rewritten(doc)) = ParseTypeScript(doc)
         /\ ParseGo(Rewritten(doc)) = ParseGo(doc)
<1> DEFINE new == Rewritten(doc)
<1>1. /\ new.trust_domain = doc.trust_domain /\ new.version = BundleVersion
      /\ new.identities \notin {Absent, Null, Array}
  BY DEF Rewritten, ToDict, MarksAreNoMaps
<1> HIDE DEF new
<1>2. /\ doc.version = BundleVersion /\ doc.trust_domain # Absent
      /\ doc.identities \notin {Absent, Null, Array}
  BY DEF ParsePython
<1>3. QED
  BY <1>1, <1>2, MarksAssumption DEF ParsePython, ParseTypeScript, ParseGo, new

LEMMA RewritingIsInvisible ==
  ASSUME NEW t, NEW doc, NEW me, NEW now, MarksAreNoMaps, ParsePython(doc) = "Parsed"
  PROVE  /\ VerifyPython(t, Rewritten(doc), me, now) = VerifyPython(t, doc, me, now)
         /\ VerifyTypeScript(t, Rewritten(doc), me, now) = VerifyTypeScript(t, doc, me, now)
         /\ VerifyGo(t, Rewritten(doc), me, now) = VerifyGo(t, doc, me, now)
BY RewrittenKeys, RewrittenParses DEF VerifyPython, VerifyTypeScript, VerifyGo
=============================================================================
