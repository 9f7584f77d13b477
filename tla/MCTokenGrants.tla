--------------------------- MODULE MCTokenGrants ---------------------------
(* Small instances of TokenGrants for TLC. *)
EXTENDS TokenGrants, TLC

Interchangeable ==
    Permutations(Token) \union Permutations(Request) \union Permutations(User)
    \union Permutations(Uri) \union Permutations(Challenge)
=============================================================================
