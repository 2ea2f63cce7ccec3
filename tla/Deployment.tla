----------------------------- MODULE Deployment -----------------------------
(***************************************************************************)
(* The parts together without an abstraction between them: the producers    *)
(* with every file-system call and kill (Provision), and the services of    *)
(* System, whose copies are of the files as the producers left them.  The   *)
(* root of System is what those files amount to, as in KeepsRegistry.       *)
(***************************************************************************)
EXTENDS Provision

CONSTANTS
  Verifiers, Unreadable, TrustDomain, TTL, MaxSkew, MaxTime, MaxInFlight,  \* of System,
  TrustDomainText, SegmentText, Absent, Null, Array, OtherType, KeyLess,   \* and of
  Scalar, Unusable, Listed, Leeway                                         \* Verification

VARIABLES bundleCopy, keyCopy, inFlight, now, learned, dropped  \* as in System

services == <<bundleCopy, keyCopy, inFlight, now, learned, dropped>>

\* With what is proved of System at hand.
S == INSTANCE SystemProofs WITH
  readable <- status = "complete",
  held <- HeldKey,
  published <- KeysIn(listed) \cup revoked

DeploymentInit == Init /\ S!ServicesInit

\* A producer and a service never act at once ...
DeploymentNext ==
  \/ CrashNext /\ UNCHANGED services
  \/ UNCHANGED vars /\ S!ServicesNext

\* ... but in any order, and nobody has to act.
DeploymentSpec == DeploymentInit /\ [][DeploymentNext]_<<vars, services>>

-----------------------------------------------------------------------------
(* What the documents say *)

\* A rotation that keeps the old key goes unnoticed by a verifier whose copy is
\* not refreshed yet (provision.py:75-77), with the rotation call by call.
RotationUnnoticed == S!RotationUnnoticed
=============================================================================
