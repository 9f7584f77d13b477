---------------------------- MODULE MCSessions ------------------------------
\* Instances of Sessions for TLC.
EXTENDS Sessions, TLC
CONSTANTS v1, v2

AllAtV1 == [s \in Session |-> v1]
RequestSymmetry == Permutations(Request)
=============================================================================
