---------------------------- MODULE OneTimeToken ----------------------------
(***************************************************************************)
(* What the token endpoint promises about the tokens it keeps in the       *)
(* key-value store (authorization codes, refresh tokens, device codes):    *)
(* a token is handed to requests while it is live, it is spent once and    *)
(* for all, and a request is granted something for it only after that.     *)
(* Several requests may hold a token at the same time, because reading and *)
(* deleting it are two calls of the store; all of them may be granted.     *)
(***************************************************************************)
CONSTANTS Token, Holder

VARIABLES
    state,    \* [Token -> {"unissued", "live", "spent"}]
    holders,  \* [Token -> the requests that obtained it and are not done]
    granted   \* the tokens for which a request has been granted something

vars == <<state, holders, granted>>

Init ==
    /\ state = [t \in Token |-> "unissued"]
    /\ holders = [t \in Token |-> {}]
    /\ granted = {}

Issue(t) ==
    /\ state[t] = "unissued"
    /\ state' = [state EXCEPT ![t] = "live"]
    /\ UNCHANGED <<holders, granted>>

Take(t, h) ==
    /\ state[t] = "live"
    /\ holders' = [holders EXCEPT ![t] = @ \union {h}]
    /\ UNCHANGED <<state, granted>>

\* Deletion of one token, or expiry of any number of them.
Spend(T) ==
    /\ \A t \in T : state[t] = "live"
    /\ state' = [t \in Token |-> IF t \in T THEN "spent" ELSE state[t]]
    /\ UNCHANGED <<holders, granted>>

Grant(t, h) ==
    /\ h \in holders[t] /\ state[t] = "spent"
    /\ granted' = granted \union {t}
    /\ holders' = [holders EXCEPT ![t] = @ \ {h}]
    /\ UNCHANGED state

Drop(t, h) ==
    /\ h \in holders[t]
    /\ holders' = [holders EXCEPT ![t] = @ \ {h}]
    /\ UNCHANGED <<state, granted>>

Next ==
    \/ \E t \in Token : Issue(t)
    \/ \E t \in Token, h \in Holder : Take(t, h) \/ Grant(t, h) \/ Drop(t, h)
    \/ \E T \in SUBSET Token : Spend(T)

Spec == Init /\ [][Next]_vars

-----------------------------------------------------------------------------
TypeOK ==
    /\ state \in [Token -> {"unissued", "live", "spent"}]
    /\ holders \in [Token -> SUBSET Holder]
    /\ granted \subseteq Token

GrantedIsSpent == \A t \in granted : state[t] = "spent"
=============================================================================
