----------------------------- MODULE VerifyCases -----------------------------
(***************************************************************************)
(* A service in the three implementations: started from one environment and *)
(* disk, then given one token at one moment, for every combination of a set *)
(* of inputs.                                                              *)
(***************************************************************************)
EXTENDS Verification, Configuration

CONSTANTS
  Setups,  \* bound: the environments tried, each with the disk it meets
  Subs,    \* bound: the strings tried as sub
  Auds,    \* bound: the strings tried as aud
  Times,   \* bound: the values of exp and iat tried
  Now,     \* the moment of verification
  NoToken

ASSUME TimesAssumption == Times \subseteq Int /\ Absent \notin Times /\ Now \in Int
\* What stands for a missing or malformed aud is in no file.
ASSUME ContentsAssumption ==
  \A s \in Setups : \A path \in DOMAIN s.disk : s.disk[path] \notin {Absent, Null, Listed}

VARIABLES
  setup,   \* the environment and the disk
  start,   \* per language: "Pending", then what became of the start
  token,
  outcome  \* per language: "Pending", then what verify made of the token

vars == <<setup, start, token, outcome>>

Tokens ==
  [alg : {"ES256", "other"}, kid : Keys \cup {Absent}, sub : Subs \cup {Absent},
   aud : Auds \cup {Absent, Null, Listed},
   exp : Times \cup {Absent}, iat : Times \cup {Absent}, signer : Keys]

Languages == {"python", "typescript", "go"}
Pending == [l \in Languages |-> "Pending"]

\* The files the service was started with, the identity it has and the document
\* that is in its bundle file.
FilesOf(l) == IF l = "typescript" THEN FilesTypeScript(setup.env) ELSE Files(setup.env)
Me(l) == setup.disk[FilesOf(l).id]
Document(l) == setup.disk[FilesOf(l).bundle]

Init ==
  /\ setup \in Setups
  /\ start = Pending
  /\ token = NoToken
  /\ outcome = Pending

Started ==
  [python |-> FromFiles(FilesOf("python"), setup.disk),
   typescript |-> FromFiles(FilesOf("typescript"), setup.disk),
   go |-> FromFilesGo(FilesOf("go"), setup.disk)]

Start ==
  /\ start = Pending
  /\ start' = Started
  /\ UNCHANGED <<setup, token, outcome>>

Ready(l) == start[l] = "Started" /\ FilesOf(l).bundle \in DOMAIN setup.disk

Answer(l, verdict) == IF Ready(l) THEN verdict ELSE "NoIdentity"
Verdicts(t) ==
  [python |-> Answer("python", VerifyPython(t, Document("python"), Me("python"), Now)),
   typescript |-> Answer("typescript",
                    VerifyTypeScript(t, Document("typescript"), Me("typescript"), Now)),
   go |-> Answer("go", VerifyGo(t, Document("go"), Me("go"), Now))]

Verify ==
  /\ outcome = Pending
  /\ {l \in Languages : Ready(l)} # {}
  /\ \E t \in Tokens : token' = t /\ outcome' = Verdicts(t)
  /\ UNCHANGED <<setup, start>>

Next == Start \/ Verify

Spec == Init /\ [][Next]_vars

-----------------------------------------------------------------------------
(* Correctness *)

Accepts(l) == outcome[l] = "Accepted"

\* The heart of the profile: whatever the header names, however the candidate
\* keys are chosen and however the document is parsed, an accepted token is
\* signed by a key that the document binds to the very sub it claims, an identity
\* of the document's own trust domain, and was minted for the service that the
\* identity file names, and for no other: every router reads so before.
BoundTo(t, doc, me) ==
  /\ IsSpiffeId(t.sub) /\ TrustDomainOf(t.sub) = doc.trust_domain
  /\ \E j \in doc.identities[t.sub] \ {Null, Scalar} : j.key = t.signer
  /\ UnverifiedAudience(t) = me /\ UnverifiedAudienceGo(t) = me

OnlyBoundKeys ==
  \A l \in Languages : Accepts(l) => BoundTo(token, Document(l), Me(l))

AnyEmpty == \E r \in Roles : setup.env[r] = <<>>
KeyFileIsGood ==
  LET path == FilesOf("go").key IN path \in DOMAIN setup.disk /\ setup.disk[path] \in Keys

\* Whatever variables are unset or empty and whatever files are missing or bad, no
\* implementation starts a service on other files than another, and all start it or
\* none, but for two cases: TypeScript refuses to start where a variable is empty, and
\* Go where there is no key that it can use yet.
StartsAlike ==
  /\ \A l \in Languages : start[l] = "Started" =>
       start["python"] = "Started" /\ FilesOf(l) = FilesOf("python")
  /\ start["python"] = "Started" =>
       /\ start["typescript"] = "Started" <=> ~AnyEmpty
       /\ start["go"] = "Started" <=> KeyFileIsGood

\* No variable of the environment is there and empty, and no file is missing.
WellConfigured ==
  /\ ~AnyEmpty
  /\ Ready("go")

\* The Python code is the strictest of the three: whatever it accepts the others
\* accept as well, for any token, any document and any moment.
PythonIsStrictest ==
  WellConfigured /\ Accepts("python") => \A l \in Languages : Accepts(l)

\* The parity contract, the other way: what another implementation accepts Python
\* accepts too, if no element of the keys array of the sub is other than an object,
\* except for TypeScript on the last tick of the leeway, and for Go on an iat in the
\* future, on a missing kid, and when a key that the header names is unusable.
Comparable(l) ==
  LET jwks == KeysFor(Document(l), token.sub) IN
  /\ jwks \subseteq Jwk
  /\ l = "typescript" => token.exp + Leeway # Now
  /\ l = "go" => /\ token.iat # Absent => token.iat <= Now + Leeway
                 /\ token.kid # Absent
                 /\ \A j \in jwks : j.kid = token.kid => j.key # Unusable

Parity ==
  \A l \in Languages : WellConfigured /\ Accepts(l) /\ Comparable(l) => Accepts("python")

\* A token minted by Identity.token with a listed key is accepted by every
\* implementation until its lifetime and the leeway are over, whatever else is
\* in the bundle: malformed entries, entries of another trust domain, unusable
\* keys, keys without a kid, keys that share its kid.
WellFormed(doc) ==
  /\ doc.trust_domain \in TrustDomainText
  /\ doc.version = BundleVersion
  /\ doc.identities \notin {Absent, Null, Array}

Honest(t, me) ==
  /\ t.sub # Absent /\ IsSpiffeId(t.sub)
  /\ t.iat # Absent /\ t.exp # Absent
  /\ t = Mint(t.sub, t.signer, t.signer, me, t.iat, t.exp - t.iat)
  /\ t.iat <= Now + Leeway /\ Now < t.exp + Leeway

Registered(t, doc) ==
  /\ TrustDomainOf(t.sub) = doc.trust_domain
  /\ t.sub \in DOMAIN doc.identities /\ doc.identities[t.sub] # KeyLess
  /\ PublicJwk(t.signer) \in doc.identities[t.sub] /\ doc.identities[t.sub] \subseteq Jwk

HonestAccepted ==
  \A l \in Languages :
    /\ token # NoToken /\ WellConfigured /\ WellFormed(Document(l))
    /\ Honest(token, Me(l)) /\ Registered(token, Document(l))
    => Accepts(l)

\* What provisioning writes back of a bundle that it could read is, to every
\* verifier of every language, the bundle as it was: the entries that parsing
\* skipped, and that are now gone, have never made a difference.
RewritingKeepsVerdicts ==
  token # NoToken /\ WellConfigured /\ ParsePython(Document("python")) = "Parsed" =>
    LET doc == Rewritten(Document("python"))
        me == Me("python")
    IN outcome = [python |-> VerifyPython(token, doc, me, Now),
                  typescript |-> VerifyTypeScript(token, doc, me, Now),
                  go |-> VerifyGo(token, doc, me, Now)]

-----------------------------------------------------------------------------
(* What the documents say *)

\* A verifier validates iat with the leeway (PROFILE.md section 4, step 4).
FutureRejected ==
  \A l \in Languages :
    Accepts(l) /\ token.iat # Absent => token.iat <= Now + Leeway

\* With a readable bundle, verify raises UnknownIdentityError for an identity
\* without keys and InvalidTokenError for everything else (identity.py:153-154,
\* identity.ts:139-140); callers catch these two and answer 401.
DocumentedErrors ==
  \A l \in {"python", "typescript"} :
    Ready(l) /\ WellFormed(Document(l)) =>
      outcome[l] \in {"Pending", "Accepted", "UnknownIdentity", "InvalidToken"}
=============================================================================
