---------------------------- MODULE MCLoginFlow -----------------------------
\* Instances of LoginFlow for TLC.
EXTENDS LoginFlow, TLC

CONSTANTS u1, u2

\* u1 may lack anything, u2 lacks nothing but a second factor.
OneComplete == {[u \in User |-> IF u = u1 THEN row ELSE
                   [temporary |-> FALSE, verified |-> TRUE, totp |-> FALSE]] : row \in UserRow}
Interchangeable == Permutations(Handler) \union Permutations(Login)

\* A count that fails is looked at where requests do not overlap: where they do, the
\* only property left is UserProved, and the count is no part of it.
FailsAlone == shared = {} \/ \A l \in Login : uncounted[l] = 0
=============================================================================
