---------------------------- MODULE Verification ----------------------------
(***************************************************************************)
(* Identity.token and Identity.verify of the three implementations, verify  *)
(* as the function it computes: from a token, the document in bundle.json   *)
(* and the clock to an outcome.  The checks stand in the order the code     *)
(* makes them, which is what the three differ in.                           *)
(*                                                                         *)
(* A signature is good for the one key that made it.  Algorithms and the    *)
(* checks of exp, iat and aud inside pyjwt and golang-jwt are those the     *)
(* options at the call sites ask for.                                       *)
(***************************************************************************)
EXTENDS Integers, BundleDocument

CONSTANTS
  Listed,    \* an aud that is an array
  Leeway     \* clock-skew leeway in seconds

\* Not 0, which the Go code takes for the default.
ASSUME LeewayAssumption == Leeway \in Nat \ {0}

\* What Identity.token of id puts in a token for aud, signed with key.
Mint(id, key, kid, aud, now, ttl) ==
  [alg |-> "ES256", kid |-> kid, sub |-> id, aud |-> aud,
   iat |-> now, exp |-> now + ttl, signer |-> key]

\* Keys with the kid of the header, and all bound keys when there is none.
Candidates(t, jwks) ==
  LET named == {j \in jwks : j.kid = t.kid} IN IF named = {} THEN jwks ELSE named

\* A mistake to be caught: no falling back to all bound keys.
CandidatesNamed(t, jwks) ==
  {j \in jwks \cap Jwk : j.key # Unusable /\ t.kid # Absent /\ j.kid = t.kid}

\* To TypeScript an element that is no object is an object without members.
AsJwk(jwks) ==
  {IF j = Scalar THEN [kid |-> Absent, key |-> Unusable] ELSE j : j \in jwks}

\* The Go code drops what is no usable key first and never matches a missing kid.
CandidatesGo(t, jwks) ==
  LET usable == {j \in jwks \cap Jwk : j.key # Unusable}
      named == {j \in usable : t.kid # Absent /\ j.kid = t.kid}
  IN IF named = {} THEN usable ELSE named

Signed(t, jwks) == \E j \in jwks : j.key = t.signer

-----------------------------------------------------------------------------
(* The aud of a token that has not been verified, for routing *)

\* The default of an aud that is not there is None, and null in TypeScript.
UnverifiedAudience(t) ==
  IF t.aud \in {Absent, Null} THEN "None"
  ELSE IF t.aud = Listed THEN "InvalidToken" ELSE t.aud

UnverifiedAudienceGo(t) ==
  IF t.aud = Absent THEN "None"
  ELSE IF t.aud \in {Listed, Null} THEN "InvalidToken" ELSE t.aud

-----------------------------------------------------------------------------
(* Python *)

ClaimsPython(t, me, now) ==
  /\ t.alg = "ES256"
  /\ t.aud = me
  /\ t.exp # Absent /\ t.exp > now - Leeway
  /\ t.iat # Absent => t.iat <= now + Leeway

\* A mistake to be caught: the trust domain's keys in one set, as in the standard
\* SPIFFE bundle.
VerifyFlat(t, doc, me, now) ==
  IF t.sub = Absent \/ t.aud = Listed THEN "InvalidToken"
  ELSE IF ~IsSpiffeId(t.sub) THEN "InvalidSpiffeId"
  ELSE IF ParsePython(doc) # "Parsed" THEN ParsePython(doc)
  ELSE IF KeysFor(doc, t.sub) = {} THEN "UnknownIdentity"
  ELSE IF /\ Signed(t, Candidates(t, Jwk \cap UNION {KeysFor(doc, i) : i \in Kept(doc)}))
          /\ ClaimsPython(t, me, now)
         THEN "Accepted"
  ELSE "InvalidToken"

VerifyPython(t, doc, me, now) ==
  IF t.sub = Absent THEN "InvalidToken"
  ELSE IF ~IsSpiffeId(t.sub) THEN "InvalidSpiffeId"
  ELSE IF t.aud = Listed THEN "InvalidToken"
  ELSE IF ParsePython(doc) # "Parsed" THEN ParsePython(doc)
  ELSE IF KeysFor(doc, t.sub) = {} THEN "UnknownIdentity"
  ELSE IF ~(KeysFor(doc, t.sub) \subseteq Jwk) THEN "AttributeError"
  ELSE IF Signed(t, Candidates(t, KeysFor(doc, t.sub))) /\ ClaimsPython(t, me, now)
         THEN "Accepted"
  ELSE "InvalidToken"

-----------------------------------------------------------------------------
(* TypeScript: the claims come before the bundle *)

\* A mistake to be caught: iat goes unchecked.
ClaimsTypeScriptAnyIat(t, me, now) ==
  /\ t.aud = me
  /\ t.exp # Absent /\ t.exp + Leeway >= now

ClaimsTypeScript(t, me, now) ==
  /\ t.aud = me
  /\ t.exp # Absent /\ t.exp + Leeway >= now
  /\ t.iat # Absent => t.iat - Leeway <= now

VerifyTypeScript(t, doc, me, now) ==
  IF t.alg # "ES256" \/ t.sub = Absent THEN "InvalidToken"
  ELSE IF ~IsSpiffeId(t.sub) THEN "InvalidSpiffeId"
  ELSE IF ~ClaimsTypeScript(t, me, now) THEN "InvalidToken"
  ELSE IF ParseTypeScript(doc) # "Parsed" THEN ParseTypeScript(doc)
  ELSE IF KeysFor(doc, t.sub) = {} THEN "UnknownIdentity"
  ELSE IF Null \in KeysFor(doc, t.sub) THEN "TypeError"
  ELSE IF Signed(t, Candidates(t, AsJwk(KeysFor(doc, t.sub)))) THEN "Accepted"
  ELSE "InvalidToken"

-----------------------------------------------------------------------------
(* Go: the parser options ask for no check of iat *)

ClaimsGo(t, me, now) ==
  /\ t.alg = "ES256"
  /\ t.aud = me
  /\ t.exp # Absent /\ now < t.exp + Leeway

VerifyGo(t, doc, me, now) ==
  IF t.sub = Absent THEN "InvalidToken"
  ELSE IF ~IsSpiffeId(t.sub) THEN "InvalidSpiffeId"
  ELSE IF t.aud \in {Listed, Null} THEN "InvalidToken"
  ELSE IF ParseGo(doc) # "Parsed" THEN ParseGo(doc)
  ELSE IF KeysFor(doc, t.sub) = {} THEN "UnknownIdentity"
  ELSE IF Signed(t, CandidatesGo(t, KeysFor(doc, t.sub))) /\ ClaimsGo(t, me, now)
         THEN "Accepted"
  ELSE "InvalidToken"
=============================================================================
