--------------------------- MODULE MCKeyRotation ---------------------------
(* Small instances of KeyRotation for TLC. *)
EXTENDS KeyRotation
=============================================================================
