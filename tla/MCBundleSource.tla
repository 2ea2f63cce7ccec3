--------------------------- MODULE MCBundleSource ---------------------------
(* Instances of BundleSource for TLC.                                      *)
EXTENDS BundleSource

\* Rewriting a bundle of the same shape leaves its size alone ...
SameSize == [v \in Versions |-> 1]
\* ... while adding or removing an entry changes it.
DistinctSizes == [v \in Versions |-> v]
=============================================================================
