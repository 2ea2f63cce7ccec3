---------------------------- MODULE MCKeySource ----------------------------
(* Instances of KeySource for TLC.                                         *)
EXTENDS KeySource

\* The PEM of a P-256 key has the same size whatever the key.
SameSize == [v \in Versions |-> 1]
=============================================================================
