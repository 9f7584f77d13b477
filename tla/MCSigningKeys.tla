--------------------------- MODULE MCSigningKeys ---------------------------
(* Small instances of SigningKeys for TLC. *)
EXTENDS SigningKeys, TLC

InstanceSymmetry == Permutations(Instance)
=============================================================================
