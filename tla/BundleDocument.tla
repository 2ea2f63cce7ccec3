--------------------------- MODULE BundleDocument ---------------------------
(***************************************************************************)
(* The trust bundle document and its parsing in the three implementations.  *)
(* An entry that is malformed is skipped; a document that is malformed at   *)
(* the top is refused, where the three differ in what they look at.         *)
(*                                                                         *)
(* identities is a map from strings to entries, an entry the set of the     *)
(* elements of its keys array, JWKs or not, or KeyLess when it is no object *)
(* or has no such array.                                                   *)
(***************************************************************************)
EXTENDS SpiffeId

CONSTANTS
  Keys,      \* key pairs
  Absent,    \* a member that is not there
  Null,      \* the JSON null
  Array,     \* an array where an object should be
  OtherType, \* a trust_domain that is not a string
  KeyLess,   \* an entry without an array of keys
  Scalar,    \* an element of a keys array that is no object: a string, a number
  Unusable   \* the key of a JWK from which none of the three makes a public key

BundleVersion == 1

ASSUME MarksAssumption ==
  /\ Absent # BundleVersion
  /\ {Absent, OtherType} \cap TrustDomainText = {}
  /\ {Absent, Unusable} \cap Keys = {}

\* The kid of a key (its RFC 7638 thumbprint) is the key itself.
Jwk == [kid : Keys \cup {Absent}, key : Keys \cup {Unusable}]
ASSUME ElementsAssumption == {Null, Scalar} \cap Jwk = {}

\* The JWK under which provisioning lists the key pair k.
PublicJwk(k) == [kid |-> k, key |-> k]

\* A mistake to be caught: one key per identity.
ToDictSingle(domain, entries) ==
  [trust_domain |-> domain, version |-> BundleVersion,
   identities |-> [id \in DOMAIN entries |-> {CHOOSE j \in entries[id] : TRUE}]]

\* The document that is written for a bundle, a map from identities to JWKs.
ToDict(domain, entries) ==
  [trust_domain |-> domain, version |-> BundleVersion, identities |-> entries]

\* A mistake to be caught: one entry that does not parse is the end of them all.
KeptAllOrNone(doc) ==
  IF \A id \in DOMAIN doc.identities : IsSpiffeId(id) THEN DOMAIN doc.identities ELSE {}

\* The entries that are not skipped.
Kept(doc) ==
  {id \in DOMAIN doc.identities :
     /\ IsSpiffeId(id)
     /\ TrustDomainOf(id) = doc.trust_domain
     /\ doc.identities[id] \notin {KeyLess, {}}}

\* A mistake to be caught: keys of no use here are not written back.
RewrittenUsable(doc) ==
  ToDict(doc.trust_domain,
         [id \in Kept(doc) |-> {j \in doc.identities[id] \cap Jwk : j.key # Unusable}])

\* What a provisioning operation that changes no entry makes of the document: it
\* writes back what it parsed.
Rewritten(doc) == ToDict(doc.trust_domain, [id \in Kept(doc) |-> doc.identities[id]])

\* What the top of the document makes of the parse: "Parsed", or the error.
\* Python looks at what is there and at the version, and trips over the rest.
ParsePython(doc) ==
  IF Absent \in {doc.trust_domain, doc.version, doc.identities}
    THEN "InvalidBundle"
  ELSE IF doc.version # BundleVersion THEN "InvalidBundle"
  ELSE IF doc.identities \in {Null, Array} THEN "AttributeError"
  ELSE "Parsed"

\* In TypeScript an array is an object, without entries that parse.
ParseTypeScript(doc) ==
  IF \/ doc.trust_domain \in {Absent, OtherType}
     \/ doc.version # BundleVersion
     \/ doc.identities \in {Absent, Null}
    THEN "InvalidBundle" ELSE "Parsed"

ParseGo(doc) ==
  IF \/ doc.trust_domain \in {Absent, OtherType}
     \/ doc.version # BundleVersion
     \/ doc.identities \in {Absent, Null, Array}
    THEN "InvalidBundle" ELSE "Parsed"

\* What a parsed bundle binds to id, the empty set for an unknown identity.
KeysFor(doc, id) ==
  IF doc.identities # Array /\ id \in Kept(doc) THEN doc.identities[id] ELSE {}
=============================================================================
