-------------------------- MODULE DeploymentProofs --------------------------
(***************************************************************************)
(* Proofs about producers and services together, for any of either, any     *)
(* nesting, keys, lifetimes and clocks, kills anywhere and any order of     *)
(* file-system calls, deliveries and tokens.                                *)
(***************************************************************************)
EXTENDS Deployment, ProvisionProofs, Integers

\* What System and the modules below it ask of their constants.
SystemAssumptions ==
  /\ S!MarksAssumption /\ S!ElementsAssumption /\ S!LeewayAssumption
  /\ S!NamesAssumption /\ S!NoKeyAssumption /\ S!MarksAreNothingElse
  /\ S!SkewAssumption /\ S!BoundsAssumption

-----------------------------------------------------------------------------
(* Producers that take turns *)

LEMMA RunsProvision == DeploymentSpec => CrashSpec
<1>1. DeploymentInit => Init
  BY DEF DeploymentInit
<1>2. [DeploymentNext]_<<vars, services>> => [CrashNext]_vars
  BY DEF DeploymentNext
<1>3. QED
  BY <1>1, <1>2, PTL DEF DeploymentSpec, CrashSpec

\* The registry that provisioning implements is the root of System.
LEMMA SameRegistry ==
  /\ R!RegistryInit => S!R!RegistryInit
  /\ R!RegistryNext => S!R!RegistryNext
  /\ UNCHANGED R!registry => UNCHANGED S!root
BY DEF R!RegistryInit, S!R!RegistryInit, R!RegistryNext, S!R!RegistryNext, R!registry, S!root,
       R!Found, S!R!Found, R!Tear, S!R!Tear, R!Hold, S!R!Hold, R!Lose, S!R!Lose,
       R!Register, S!R!Register, R!Revoke, S!R!Revoke

\* A call of a producer is a step of the root or nothing that System sees.
LEMMA DeploymentStep ==
  ASSUME TypeOK, Owned, Sequential, [DeploymentNext]_<<vars, services>>
  PROVE  [S!Next]_(S!vars)
<1>1. CASE CrashNext /\ UNCHANGED services
  <2>1. [R!RegistryNext]_(R!registry)
    BY <1>1, RegistryStep
  <2>2. S!R!RegistryNext \/ UNCHANGED S!root
    BY <2>1, SameRegistry
  <2>3. UNCHANGED <<S!deliveries, inFlight, now>>
    BY <1>1 DEF services, S!deliveries
  <2>4. QED
    BY <2>2, <2>3 DEF S!Next, S!Provide, S!vars
<1>2. CASE S!ServicesNext
  BY <1>2 DEF S!Next
<1>3. CASE UNCHANGED <<vars, services>>
  <2>1. UNCHANGED <<S!root, S!deliveries, inFlight, now>>
    BY <1>3 DEF vars, files, history, services, S!root, S!deliveries, HeldKey, KeysIn
  <2>2. QED
    BY <2>1 DEF S!vars
<1>4. QED
  BY <1>1, <1>2, <1>3 DEF DeploymentNext

\* Producers that take turns, killed between any two calls, services, deliveries and
\* tokens together implement System: what its root abstracts from is never seen.
THEOREM ImplementsSystem == DeploymentSpec /\ []Serial => S!SafeSpec
<1>1. DeploymentInit => S!Init
  <2>1. Init => S!R!RegistryInit
    BY SameRegistry, RegistryInitially
  <2>2. QED
    BY <2>1 DEF DeploymentInit, S!Init
<1>2. TypeOK /\ Owned /\ Sequential /\ [DeploymentNext]_<<vars, services>>
        => [S!Next]_(S!vars)
  BY DeploymentStep
<1>3. QED
  BY <1>1, <1>2, RunsProvision, StaysSequential, PTL DEF DeploymentSpec, S!SafeSpec

\* What a verifier's copies have ceased to list it never accepts again, whatever the
\* producers add, rotate, remove or leave half-done afterwards.
THEOREM RevocationSticks ==
  ASSUME SystemAssumptions
  PROVE  DeploymentSpec /\ []Serial => []S!RevocationHolds
<1>1. S!SafeSpec => []S!RevocationHolds
  BY S!RevocationIsFinal DEF SystemAssumptions
<1>2. QED
  BY <1>1, ImplementsSystem, PTL

\* What the root lists and a verifier's copy knows is accepted by every implementation,
\* through rotations, and through kills in the middle of them.
THEOREM OverlapSurvives ==
  ASSUME SystemAssumptions
  PROVE  DeploymentSpec /\ []Serial => []S!OverlapHolds
<1>1. S!SafeSpec => []S!OverlapHolds
  BY S!OverlapWorks DEF SystemAssumptions
<1>2. QED
  BY <1>1, ImplementsSystem, PTL

-----------------------------------------------------------------------------
(* What an operation that returned is good for *)

LEMMA OneIsSerial ==
  ASSUME OneProducer PROVE Serial
BY DEF OneProducer, Serial, Busy

\* When a rotation has returned and its two files have been delivered, every verifier
\* accepts what the service signs, in every implementation, whatever operations were
\* killed before it.
THEOREM RotationWorks ==
  ASSUME SystemAssumptions, OneProducer
  PROVE  DeploymentSpec => [](\A p \in Producers, v \in Verifiers :
           LET n == job[p].name IN
           Returned(p, "rotate") /\ keyCopy[n] = keyFile[n] /\ bundleCopy[v] = listed
             => S!MustAccept(S!FreshToken(n, v), v))
<1> DEFINE Works == \A p \in Producers, v \in Verifiers :
             LET n == job[p].name IN
             Returned(p, "rotate") /\ keyCopy[n] = keyFile[n] /\ bundleCopy[v] = listed
               => S!MustAccept(S!FreshToken(n, v), v)
           Accepted == \A n \in Names, v \in Verifiers :
             S!Delivered(n, v) /\ HeldKey[n] \in listed[n]
               => S!MustAccept(S!FreshToken(n, v), v)
<1>1. S!SafeSpec => []Accepted
  BY S!DeliveredIsAccepted DEF SystemAssumptions
<1>2. TypeOK /\ RotateRegisters /\ Accepted => Works
  <2> SUFFICES ASSUME TypeOK, RotateRegisters, Accepted,
                      NEW p \in Producers, NEW v \in Verifiers, Returned(p, "rotate"),
                      keyCopy[job[p].name] = keyFile[job[p].name], bundleCopy[v] = listed
               PROVE  S!MustAccept(S!FreshToken(job[p].name, v), v)
    OBVIOUS
  <2> DEFINE n == job[p].name
  <2>1. n \in Names /\ listed[n] \subseteq Keys
    BY DEF TypeOK, Jobs, Docs
  <2>2. status = "complete" /\ keyFile[n] \in listed[n]
    BY DEF RotateRegisters
  <2>3. HeldKey[n] = keyFile[n]
    BY <2>1, <2>2 DEF HeldKey
  <2>4. S!Delivered(n, v)
    BY <2>2, <2>3 DEF S!Delivered
  <2>5. QED
    BY <2>1, <2>2, <2>3, <2>4
<1> HIDE DEF Works, Accepted
<1>3. CrashSpec => []RotateRegisters
  BY RotationRegisters
<1>4. DeploymentSpec => []Works
  BY <1>1, <1>2, <1>3, OneIsSerial, RunsProvision, StaysOwned, ImplementsSystem, PTL
<1>5. QED
  BY <1>4 DEF Works

\* When a removal has returned and the bundle has been delivered, no verifier accepts
\* anything signed with any key that was ever made for the service, under any name.
THEOREM RemovalWorks ==
  ASSUME SystemAssumptions, OneProducer
  PROVE  DeploymentSpec => [](\A p \in Producers, v \in Verifiers, k \in Keys, n \in Names :
           /\ Returned(p, "remove") /\ bundleCopy[v] = listed
           /\ owner[k] = job[p].name
           => ~S!MayAccept(S!Mint(n, k, k, v, now, TTL), v))
<1> DEFINE Works == \A p \in Producers, v \in Verifiers, k \in Keys, n \in Names :
             /\ Returned(p, "remove") /\ bundleCopy[v] = listed
             /\ owner[k] = job[p].name
             => ~S!MayAccept(S!Mint(n, k, k, v, now, TTL), v)
           Refused == \A k \in Keys, v \in Verifiers :
             (bundleCopy[v] # Unreadable => k \notin S!KeysIn(bundleCopy[v]))
               => \A n \in Names : ~S!MayAccept(S!Mint(n, k, k, v, now, TTL), v)
<1>1. S!SafeSpec => []Refused
  BY S!UnlistedIsRefused DEF SystemAssumptions
<1>2. TypeOK /\ Owned /\ RemoveRevokes /\ Refused => Works
  <2> SUFFICES ASSUME TypeOK, Owned, RemoveRevokes, Refused,
                      NEW p \in Producers, NEW v \in Verifiers, NEW k \in Keys, NEW n \in Names,
                      Returned(p, "remove"), bundleCopy[v] = listed, owner[k] = job[p].name
               PROVE  ~S!MayAccept(S!Mint(n, k, k, v, now, TTL), v)
    OBVIOUS
  <2>1. listed[job[p].name] = {}
    BY DEF RemoveRevokes
  <2>2. \A m \in Names : k \notin listed[m]
    BY <2>1, ListedOwned
  <2>3. k \notin S!KeysIn(bundleCopy[v])
    BY <2>2 DEF S!KeysIn
  <2>4. QED
    BY <2>3
<1> HIDE DEF Works, Refused
<1>3. CrashSpec => []RemoveRevokes
  BY RemovalRevokes
<1>4. DeploymentSpec => []Works
  BY <1>1, <1>2, <1>3, OneIsSerial, RunsProvision, StaysOwned, ImplementsSystem, PTL
<1>5. QED
  BY <1>4 DEF Works

-----------------------------------------------------------------------------
(* Producers that overlap *)

\* Two producers may lose each other's entries and bring back what was revoked, so
\* that the directory is no registry.  It still lists every key under its owner
\* (Owned), and so do the copies, whatever they are copies of.
Genuine ==
  /\ bundleCopy \in [Verifiers -> Docs \cup {Unreadable}]
  /\ keyCopy \in [Names -> Keys \cup {NoKey}]
  /\ now \in Nat
  /\ \A v \in Verifiers : bundleCopy[v] # Unreadable =>
       \A n \in Names : \A k \in bundleCopy[v][n] : owner[k] = n
  /\ \A t \in inFlight : S!Minted(t)

\* A service changes its copies, its clock and the tokens, never the files.
LEMMA ServiceKeepsGenuine ==
  ASSUME TypeOK, Owned, Genuine, UNCHANGED vars, S!ServicesNext
  PROVE  Genuine'
<1> USE DEF Genuine
<1>1. UNCHANGED <<listed, keyFile, status, owner>>
  BY DEF vars, files, history
<1>2. ASSUME NEW w \in Verifiers, S!SyncBundle(w) PROVE Genuine'
  <2>1. /\ bundleCopy' = [bundleCopy EXCEPT ![w] =
                           IF status = "complete" THEN listed ELSE Unreadable]
        /\ UNCHANGED <<keyCopy, inFlight, now>>
    BY <1>2 DEF S!SyncBundle
  <2>2. \A n \in Names : \A k \in listed[n] : owner[k] = n
    BY ListedOwned
  <2>3. listed \in Docs
    BY DEF TypeOK
  <2>4. \A t \in inFlight' : S!Minted(t)'
    BY <2>1 DEF S!Minted
  <2>5. QED
    BY <1>1, <2>1, <2>2, <2>3, <2>4
<1>3. ASSUME NEW n \in Names, S!SyncKey(n) PROVE Genuine'
  <2>1. /\ keyCopy' = [keyCopy EXCEPT ![n] = HeldKey[n]]
        /\ UNCHANGED <<bundleCopy, inFlight, now>>
    BY <1>3 DEF S!SyncKey
  <2>2. HeldKey[n] \in Keys \cup {NoKey}
    BY DEF HeldKey
  <2>3. \A t \in inFlight' : S!Minted(t)'
    BY <2>1 DEF S!Minted
  <2>4. QED
    BY <1>1, <2>1, <2>2, <2>3
<1>4. ASSUME NEW n \in Names, NEW sub \in Names, NEW v \in Verifiers, S!Issue(n, sub, v)
      PROVE  Genuine'
  <2>1. /\ UNCHANGED <<bundleCopy, keyCopy, now>> /\ keyCopy[n] # NoKey
        /\ inFlight' = inFlight \cup {S!Mint(sub, keyCopy[n], keyCopy[n], v, now, TTL)}
    BY <1>4 DEF S!Issue, S!deliveries
  <2>2. keyCopy[n] \in Keys /\ now \in 0..now
    BY <2>1
  <2>3. \A t \in inFlight' : S!Minted(t)'
    BY <2>1, <2>2 DEF S!Minted
  <2>4. QED
    BY <1>1, <2>1, <2>3
<1>5. ASSUME NEW t \in inFlight, S!Forget(t) PROVE Genuine'
  <2>1. UNCHANGED <<bundleCopy, keyCopy, now>> /\ inFlight' \subseteq inFlight
    BY <1>5 DEF S!Forget, S!deliveries
  <2>2. QED
    BY <1>1, <2>1 DEF S!Minted
<1>6. CASE S!Tick
  <2>1. UNCHANGED <<bundleCopy, keyCopy, inFlight>> /\ now' = now + 1
    BY <1>6 DEF S!Tick, S!deliveries
  <2>2. now' \in Nat /\ 0..now \subseteq 0..now'
    BY <2>1
  <2>3. \A s \in inFlight' : S!Minted(s)'
    BY <2>1, <2>2 DEF S!Minted
  <2>4. QED
    BY <1>1, <2>1, <2>2, <2>3
<1>7. QED
  BY <1>2, <1>3, <1>4, <1>5, <1>6 DEF S!ServicesNext

\* A producer makes no key another service's.
LEMMA ProducerKeepsGenuine ==
  ASSUME TypeOK, Owned, Genuine, [CrashNext]_vars, UNCHANGED services
  PROVE  Genuine'
<1>1. UNCHANGED <<bundleCopy, keyCopy, inFlight, now>>
  BY DEF services
<1>2. ASSUME NEW v \in Verifiers, bundleCopy[v] # Unreadable, NEW n \in Names,
             NEW k \in bundleCopy[v][n]
      PROVE  owner'[k] = n
  <2>1. k \in Keys /\ owner[k] = n
    BY <1>2 DEF Genuine, Docs
  <2>2. QED
    BY <2>1, OwnersStay, NoNameAssumption
<1>3. \A t \in inFlight' : S!Minted(t)'
  BY <1>1 DEF Genuine, S!Minted
<1>4. QED
  BY <1>1, <1>2, <1>3 DEF Genuine

\* Who a token says it is from is who it is from, however many producers overlap,
\* whatever they lose of each other's work and wherever they are killed.
THEOREM AlwaysAuthentic ==
  ASSUME SystemAssumptions
  PROVE  DeploymentSpec => []S!Authentic
<1>1. DeploymentInit => Genuine
  BY DEF DeploymentInit, S!ServicesInit, Genuine
<1>2. TypeOK /\ Owned /\ Genuine /\ [DeploymentNext]_<<vars, services>> => Genuine'
  BY ServiceKeepsGenuine, ProducerKeepsGenuine DEF DeploymentNext
<1>3. Genuine => S!Authentic
  <2> SUFFICES ASSUME Genuine, NEW v \in Verifiers, NEW t \in inFlight, S!MayAccept(t, v)
               PROVE  owner[t.signer] = t.sub /\ t.aud = v
    BY DEF S!Authentic
  <2>1. S!Minted(t)
    BY DEF Genuine
  <2>2. /\ bundleCopy[v] # Unreadable
        /\ t.sub \in Names /\ t.signer \in bundleCopy[v][t.sub] /\ t.aud = v
    BY <2>1, S!AcceptedIsCopied DEF SystemAssumptions
  <2>3. QED
    BY <2>2 DEF Genuine
<1>4. QED
  BY <1>1, <1>2, <1>3, RunsProvision, StaysOwned, PTL DEF DeploymentSpec
=============================================================================
