------------------------------- MODULE System -------------------------------
(***************************************************************************)
(* The parts together: the provisioned root, which Registry stands for; the *)
(* services, each with its own copies of the bundle and of its key file;    *)
(* and the tokens between them.                                            *)
(*                                                                         *)
(* The copies are brought up to date at any time and one by one, the bundle *)
(* and the key file of one service independently, as by a secrets operator, *)
(* kubelet and the reload on access.  A token is delayed, repeated, lost or *)
(* overtaken.  verify changes no state: what a service would make of a      *)
(* token is asked in every state.                                          *)
(***************************************************************************)
EXTENDS Verification, FiniteSets

CONSTANTS
  Names,       \* the services, by their SPIFFE IDs
  Verifiers,   \* the services that check tokens
  NoName, NoKey,
  Unreadable,  \* a copy of the bundle that does not parse, or no copy yet
  TrustDomain,
  TTL,         \* lifetime of a token
  MaxSkew,     \* how far the clocks of two services may be apart
  MaxTime,     \* bound: the last moment
  MaxInFlight  \* bound: tokens around at once

ASSUME NamesAssumption ==
  /\ \A n \in Names : IsSpiffeId(n) /\ TrustDomainOf(n) = TrustDomain
  /\ Verifiers \subseteq Names
  /\ NoName \notin Names
ASSUME NoKeyAssumption == NoKey \notin Keys
\* What is missing or malformed is no name, no number, no entry and no bundle.
ASSUME MarksAreNothingElse ==
  /\ {Absent, Null, Listed} \cap Names = {} /\ Absent \notin Int
  /\ \A S \in SUBSET Jwk : KeyLess # S
  /\ \A S \in SUBSET Names : {Absent, Null, Array} \cap [S -> SUBSET Jwk] = {}
  /\ Unreadable \notin [Names -> SUBSET Keys]
ASSUME SkewAssumption == TTL \in Nat \ {0} /\ MaxSkew \in 0..Leeway
ASSUME BoundsAssumption == MaxTime \in Nat /\ MaxInFlight \in Nat

VARIABLES
  readable, listed, held, owner, published,  \* the root, as in Registry
  bundleCopy,  \* per verifier: the bundle it sees
  keyCopy,     \* per service: the key it signs with
  inFlight,    \* the tokens that may still be shown to someone
  now,         \* the true time
  learned,     \* history only, per verifier: the keys its copies ever listed
  dropped      \* history only, per verifier: those of them a later one did not

R == INSTANCE Registry

root == <<readable, listed, held, owner, published>>

deliveries == <<bundleCopy, keyCopy, learned, dropped>>
vars == <<root, deliveries, inFlight, now>>

KeysIn(d) == UNION {d[n] : n \in Names}

ServicesInit ==
  /\ bundleCopy = [v \in Verifiers |-> Unreadable]
  /\ keyCopy = [n \in Names |-> NoKey]
  /\ inFlight = {}
  /\ now = 0
  /\ learned = [v \in Verifiers |-> {}]
  /\ dropped = [v \in Verifiers |-> {}]

Init == R!RegistryInit /\ ServicesInit

\* One step of add_service, rotate_service or remove_service, as seen from
\* outside, or a kill.
Provide == R!RegistryNext /\ UNCHANGED <<deliveries, inFlight, now>>

\* A mistake to be caught: a copy that is only ever added to.
SyncBundleMerging(v) ==
  /\ readable
  /\ bundleCopy' = [bundleCopy EXCEPT ![v] =
       [n \in Names |-> listed[n] \cup IF @ = Unreadable THEN {} ELSE @[n]]]
  /\ learned' = [learned EXCEPT ![v] = @ \cup KeysIn(listed)]
  /\ dropped' = [dropped EXCEPT ![v] = @ \cup (learned[v] \ KeysIn(listed))]
  /\ UNCHANGED <<root, keyCopy, inFlight, now>>

\* A new copy of bundle.json reaches v, whole or truncated.
SyncBundle(v) ==
  /\ bundleCopy' = [bundleCopy EXCEPT ![v] = IF readable THEN listed ELSE Unreadable]
  /\ IF readable
       THEN /\ learned' = [learned EXCEPT ![v] = @ \cup KeysIn(listed)]
            /\ dropped' = [dropped EXCEPT ![v] = @ \cup (learned[v] \ KeysIn(listed))]
       ELSE UNCHANGED <<learned, dropped>>
  /\ UNCHANGED <<root, keyCopy, inFlight, now>>

\* A mistake to be caught: a key that is read once.
SyncKeyOnce(n) ==
  /\ keyCopy[n] = NoKey
  /\ keyCopy' = [keyCopy EXCEPT ![n] = held[n]]
  /\ UNCHANGED <<root, bundleCopy, learned, dropped, inFlight, now>>

\* The key file of n reaches it.
SyncKey(n) ==
  /\ keyCopy' = [keyCopy EXCEPT ![n] = held[n]]
  /\ UNCHANGED <<root, bundleCopy, learned, dropped, inFlight, now>>

\* A token of service sub for v, made by the service n: usually of its own.
Issue(n, sub, v) ==
  /\ keyCopy[n] # NoKey
  /\ Cardinality(inFlight) < MaxInFlight
  /\ inFlight' = inFlight \cup {Mint(sub, keyCopy[n], keyCopy[n], v, now, TTL)}
  /\ UNCHANGED <<root, deliveries, now>>

\* A token is lost, or nobody has a use for it any more.
Forget(t) ==
  /\ inFlight' = inFlight \ {t}
  /\ UNCHANGED <<root, deliveries, now>>

Tick ==
  /\ now < MaxTime
  /\ now' = now + 1
  /\ UNCHANGED <<root, deliveries, inFlight>>

ServicesNext ==
  \/ Tick
  \/ \E v \in Verifiers : SyncBundle(v) \/ \E n, m \in Names : Issue(n, m, v)
  \/ \E n \in Names : SyncKey(n)
  \/ \E t \in inFlight : Forget(t)

Next == Provide \/ ServicesNext

\* Whatever happens or fails to ...
SafeSpec == Init /\ [][Next]_vars

\* ... but the last write of a file is delivered in the end (PROFILE.md section 5);
\* nobody has to provision, and time may stand still.
Fairness ==
  /\ \A v \in Verifiers : WF_vars(SyncBundle(v))
  /\ \A n \in Names : WF_vars(SyncKey(n))

Spec == SafeSpec /\ Fairness

-----------------------------------------------------------------------------
(* What a service makes of a token *)

Clocks == {now + s : s \in -MaxSkew..MaxSkew}

\* The bundle that lists these keys: an identity without keys has no entry.
EntriesFor(copy) ==
  [n \in {m \in Names : copy[m] # {}} |-> {PublicJwk(k) : k \in copy[n]}]

Outcomes(t, v, clock) ==
  LET doc == ToDict(TrustDomain, EntriesFor(bundleCopy[v])) IN
  IF bundleCopy[v] = Unreadable THEN {"InvalidBundle"}
  ELSE {VerifyPython(t, doc, v, clock), VerifyTypeScript(t, doc, v, clock),
        VerifyGo(t, doc, v, clock)}

MayAccept(t, v) == \E c \in Clocks : "Accepted" \in Outcomes(t, v, c)
MustAccept(t, v) == \A c \in Clocks : Outcomes(t, v, c) = {"Accepted"}

-----------------------------------------------------------------------------
(* Correctness *)

\* Who a token says it is from is who it is from: in whatever order keys and
\* bundles are made, dropped, delivered and used, a token that any verifier
\* accepts was signed with a key made for its sub, for that verifier.
Authentic ==
  \A v \in Verifiers, t \in inFlight :
    MayAccept(t, v) => owner[t.signer] = t.sub /\ t.aud = v

\* Revocation reaches a verifier with the bundle and stays: once a copy has
\* ceased to list a key, the verifier never again accepts a token signed with it,
\* whatever is added, rotated and delivered afterwards.
RevocationHolds ==
  \A v \in Verifiers, t \in inFlight :
    MayAccept(t, v) => t.signer \notin dropped[v]

\* Rotation with an overlap breaks nothing that a verifier could already check:
\* as long as the root lists a key that a copy of v has listed before, v accepts
\* every unexpired token a service signs with its own such key, in every
\* implementation, however many rotations go by and whichever way the clocks differ.
OverlapHolds ==
  \A v \in Verifiers, t \in inFlight :
    /\ owner[t.signer] = t.sub /\ t.aud = v /\ now < t.exp
    /\ t.signer \in KeysIn(listed) \cap learned[v] /\ bundleCopy[v] # Unreadable
    => MustAccept(t, v)

\* When the root comes to rest with a service that holds a listed key, every
\* verifier accepts for good what the service signs from then on.
FreshToken(n, v) == Mint(n, keyCopy[n], keyCopy[n], v, now, TTL)

Converges ==
  \A n \in Names, v \in Verifiers :
    <>[](readable /\ held[n] \in listed[n])
      => <>[](keyCopy[n] = held[n] /\ MustAccept(FreshToken(n, v), v))

\* A revocation that stands reaches every verifier (PROFILE.md section 5): what is
\* signed with a key that the root no longer lists is in the end refused.
RevocationReaches ==
  \A k \in Keys, v \in Verifiers :
    <>[](readable /\ k \notin KeysIn(listed))
      => <>[](\A n \in Names : ~MayAccept(Mint(n, k, k, v, now, TTL), v))

-----------------------------------------------------------------------------
(* What the documents say *)

\* A rotation that keeps the old key goes unnoticed by a verifier whose copy is
\* not refreshed yet (provision.py:75-77): as long as its copy lists a key of the
\* service that the root still lists, it accepts the service's tokens.
RotationUnnoticed ==
  \A v \in Verifiers, t \in inFlight :
    /\ owner[t.signer] = t.sub /\ t.aud = v /\ now < t.exp
    /\ bundleCopy[v] # Unreadable /\ bundleCopy[v][t.sub] \cap listed[t.sub] # {}
    /\ t.signer \in listed[t.sub]
    => MustAccept(t, v)
=============================================================================
