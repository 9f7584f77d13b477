----------------------------- MODULE LoginFlow ------------------------------
(***************************************************************************)
(* The interactive login (internal/handlers/login.go).  A login session    *)
(* lives in the key-value store under its login token; each handler of the *)
(* flow reads it, checks the step it is at, reads the user's rows, and     *)
(* writes back its copy with the next step (updateLoginStep).  Rows the    *)
(* handler inserts are saved when its scope is closed, after the response. *)
(*                                                                         *)
(* Requests for one login token may overlap (a browser that repeats a      *)
(* request, two tabs); the logins to which this happened are remembered,   *)
(* so that the properties can say what does not depend on it.  The life    *)
(* time of the token is left out: every write renews it, and it may expire *)
(* at any moment.                                                          *)
(***************************************************************************)
EXTENDS Naturals, FiniteSets

CONSTANTS
    User, Login, Handler, None,
    InitialUsers,  \* the rows the users may start with
    PasskeyUser,   \* the users with a passkey
    RequireEmail,  \* RequireEmailVerification of the virtual server
    Require2fa,    \* Require2fa of the virtual server
    MaxAttempts,   \* MaxFailedPasswordAttempts, five in the code
    MaxUncounted   \* bound on the counts that fail for a login

UserRow == [temporary : BOOLEAN, verified : BOOLEAN, totp : BOOLEAN]

ASSUME LoginAssumption ==
    /\ InitialUsers \subseteq [User -> UserRow]
    /\ MaxAttempts \in Nat \ {0} /\ MaxUncounted \in Nat
    /\ {RequireEmail, Require2fa} \subseteq BOOLEAN
    /\ PasskeyUser \subseteq User /\ None \notin User \union Login

VARIABLES
    users,     \* rows: [User -> [temporary, verified, totp]]
    logins,    \* login_session in the store: [Login -> LoginInfo or None]
    handler,   \* [Handler -> the request in progress]
    opened,    \* history: the logins ever started
    shared,    \* history: the logins for which two requests overlapped
    burned,    \* history: the logins whose token was deleted by a handler
    wrong,     \* history: [Login -> wrong passwords that were checked]
    uncounted, \* history: [Login -> those whose count the store did not take]
    passed,    \* history: [Login -> set of <<factor, user>>]
    sessions   \* the sessions created: set of <<login, user>>

vars == <<users, logins, handler, opened, shared, burned, wrong, uncounted, passed, sessions>>

Step == {"passwordVerification", "temporaryPassword", "emailVerification", "onboardTotp",
         "verifyTotp", "passkey", "finish"}
Operation == {"password", "reset", "email", "onboard", "totp", "passkey", "finish"}
LoginInfo == [step : Step, user : User \union {None}, attempts : 0 .. MaxAttempts - 1]

\* A request and what its handler holds.
InProgress ==
    [pc : {"idle", "compare", "count", "read", "mutate", "write", "delete", "save"},
     op : Operation \union {None}, login : Login \union {None},
     user : User \union {None}, info : LoginInfo \union {None}]

Idle == [pc |-> "idle", op |-> None, login |-> None, user |-> None, info |-> None]
At(h, pc) == handler[h].pc = pc
Leave(h) == handler' = [handler EXCEPT ![h] = Idle]

\* A request for the login token l begins, whether or not another is in progress.
Begin(h, l, r) ==
    /\ At(h, "idle") /\ handler' = [handler EXCEPT ![h] = r]
    /\ shared' = IF \E g \in Handler : handler[g].login = l THEN shared \union {l} ELSE shared

Init ==
    /\ users \in InitialUsers
    /\ logins = [l \in Login |-> None] /\ handler = [h \in Handler |-> Idle]
    /\ opened = {} /\ shared = {} /\ burned = {} /\ wrong = [l \in Login |-> 0]
    /\ uncounted = [l \in Login |-> 0] /\ passed = [l \in Login |-> {}] /\ sessions = {}

-----------------------------------------------------------------------------
(* DetermineNextLoginStep: what is left to do, in the order of the code's   *)
(* falling through its cases.                                               *)
AfterEmail(u) ==
    IF users[u].totp THEN "verifyTotp" ELSE IF Require2fa THEN "onboardTotp" ELSE "finish"
AfterReset(u) ==
    IF ~users[u].verified /\ RequireEmail THEN "emailVerification" ELSE AfterEmail(u)

\* Mutant: a temporary password is the end of the login.
NextStep_SkipsReset(step, u) ==
    CASE step = "passwordVerification" -> AfterReset(u)
      [] step = "temporaryPassword"    -> AfterReset(u)
      [] step = "emailVerification"    -> AfterEmail(u)
      [] step \in {"onboardTotp", "verifyTotp", "passkey"} -> "finish"

NextStep(step, u) ==
    CASE step = "passwordVerification" ->
            IF users[u].temporary THEN "temporaryPassword" ELSE AfterReset(u)
      [] step = "temporaryPassword"    -> AfterReset(u)
      [] step = "emailVerification"    -> AfterEmail(u)
      [] step \in {"onboardTotp", "verifyTotp", "passkey"} -> "finish"

-----------------------------------------------------------------------------
(* The environment. *)

\* BeginAuthorizationFlow without a session, or PostActivatePage.
OpenLogin ==
    /\ \E l \in Login \ opened :
          /\ logins' = [logins EXCEPT ![l] =
                [step |-> "passwordVerification", user |-> None, attempts |-> 0]]
          /\ opened' = opened \union {l}
    /\ UNCHANGED <<users, handler, shared, burned, wrong, uncounted, passed, sessions>>

Expire(l) ==
    /\ logins[l] # None /\ logins' = [logins EXCEPT ![l] = None]
    /\ UNCHANGED <<users, handler, opened, shared, burned, wrong, uncounted, passed, sessions>>

\* HandleVerifyEmail: the link of the mail.
VerifyEmail(u) ==
    /\ ~users[u].verified /\ users' = [users EXCEPT ![u].verified = TRUE]
    /\ UNCHANGED <<logins, handler, opened, shared, burned, wrong, uncounted, passed, sessions>>

-----------------------------------------------------------------------------
(* VerifyPassword reads the token and compares the password; a wrong one is *)
(* then counted in the copy it read, by a call of the store that may fail;  *)
(* a right one goes through updateLoginStep, which reads the token again.   *)
ReadForPassword(h, l) ==
    /\ logins[l] # None /\ logins[l].step = "passwordVerification"
    /\ Begin(h, l, [Idle EXCEPT !.pc = "compare", !.op = "password", !.login = l,
                                !.info = logins[l]])
    /\ UNCHANGED <<users, logins, opened, burned, wrong, uncounted, passed, sessions>>

RightPassword(h, u) ==
    /\ At(h, "compare")
    /\ handler' = [handler EXCEPT ![h].pc = "read", ![h].user = u]
    /\ UNCHANGED <<users, logins, opened, shared, burned, wrong, uncounted, passed, sessions>>

WrongPassword(h) ==
    /\ At(h, "compare")
    /\ wrong' = [wrong EXCEPT ![handler[h].login] = @ + 1]
    /\ handler' = [handler EXCEPT ![h].pc = "count"]
    /\ UNCHANGED <<users, logins, opened, shared, burned, uncounted, passed, sessions>>

\* Mutant: the copy is written back after the token was deleted.
CountAttempt_WritesBack(h) ==
    LET l == handler[h].login
        info == handler[h].info
    IN
    /\ At(h, "count")
    /\ IF info.attempts + 1 >= MaxAttempts
       THEN logins' = [logins EXCEPT ![l] = info] /\ burned' = burned \union {l}
       ELSE /\ logins' = [logins EXCEPT ![l] = [info EXCEPT !.attempts = @ + 1]]
            /\ UNCHANGED burned
    /\ Leave(h)
    /\ UNCHANGED <<users, opened, shared, wrong, uncounted, passed, sessions>>

\* DeleteToken at the cap, UpdateToken with the copy before.
CountAttempt(h) ==
    LET l == handler[h].login
        info == handler[h].info
    IN
    /\ At(h, "count")
    /\ IF info.attempts + 1 >= MaxAttempts
       THEN logins' = [logins EXCEPT ![l] = None] /\ burned' = burned \union {l}
       ELSE /\ logins' = [logins EXCEPT ![l] = [info EXCEPT !.attempts = @ + 1]]
            /\ UNCHANGED burned
    /\ Leave(h)
    /\ UNCHANGED <<users, opened, shared, wrong, uncounted, passed, sessions>>

\* DeleteToken or UpdateToken fails, or the instance stops before it: the token
\* stays as it is.
CountFails(h) ==
    LET l == handler[h].login IN
    /\ At(h, "count") /\ uncounted[l] < MaxUncounted
    /\ uncounted' = [uncounted EXCEPT ![l] = @ + 1]
    /\ Leave(h)
    /\ UNCHANGED <<users, logins, opened, shared, burned, wrong, passed, sessions>>

-----------------------------------------------------------------------------
(* updateLoginStep, for every handler that advances the login: the token is *)
(* read, the copy mutated, its next step determined, and the copy written.  *)

\* The steps of the login at which ResetTemporaryPassword, VerifyEmailToken,
\* OnboardTotp, VerifyTotp and FinishPasskeyLogin may be called.
StepOf(op) == CASE op = "reset"   -> {"temporaryPassword"}
                [] op = "email"   -> {"emailVerification"}
                [] op = "onboard" -> {"onboardTotp"}
                [] op = "totp"    -> {"verifyTotp"}
                [] op = "passkey" -> Step

\* The codes and passwords presented are right; for a passkey, an assertion of u
\* (a challenge for the login token can be had at any time).
BeginUpdate(h, l, op, u) ==
    /\ IF op = "passkey" THEN u \in PasskeyUser ELSE u = None
    /\ logins[l] # None /\ logins[l].step \in StepOf(op)
    /\ Begin(h, l, [Idle EXCEPT !.pc = "mutate", !.op = op, !.login = l, !.user = u,
                                !.info = logins[l]])
    /\ UNCHANGED <<users, logins, opened, burned, wrong, uncounted, passed, sessions>>

\* VerifyPassword reads the token once more, and not its step.
ReadAgain(h) ==
    /\ At(h, "read") /\ logins[handler[h].login] # None
    /\ handler' = [handler EXCEPT ![h].pc = "mutate", ![h].info = logins[handler[h].login]]
    /\ UNCHANGED <<users, logins, opened, shared, burned, wrong, uncounted, passed, sessions>>

\* Mutant: the password that was verified is not entered in the login.
Mutated_KeepsUser(r) ==
    CASE r.op = "password" ->
            [r.info EXCEPT !.user = IF @ = None THEN CHOOSE u \in User : TRUE ELSE @, !.attempts = 0]
      [] r.op = "passkey"  -> [r.info EXCEPT !.user = r.user, !.step = "passkey"]
      [] OTHER             -> r.info

Mutated(r) ==
    CASE r.op = "password" -> [r.info EXCEPT !.user = r.user, !.attempts = 0]
      [] r.op = "passkey"  -> [r.info EXCEPT !.user = r.user, !.step = "passkey"]
      [] OTHER             -> r.info

\* What the rows must say.
RowsAllow(op, u) == CASE op = "email" -> users[u].verified
                      [] op = "totp"  -> users[u].totp
                      [] OTHER        -> TRUE

\* A login that has reached "finish" has no next step.  SetPassword is a command
\* and saves its change at once.
Mutate(h) ==
    LET r == handler[h]
        info == Mutated(r)
    IN
    /\ At(h, "mutate") /\ RowsAllow(r.op, info.user) /\ info.step # "finish"
    /\ users' = IF r.op = "reset" THEN [users EXCEPT ![info.user].temporary = FALSE] ELSE users
    /\ handler' = [handler EXCEPT ![h].pc = "write",
          ![h].info = [info EXCEPT !.step = NextStep(info.step, info.user)]]
    /\ UNCHANGED <<logins, opened, shared, burned, wrong, uncounted, passed, sessions>>

\* Who passed what: the password and the passkey say whose they are.
Prover(r) == IF r.user # None THEN r.user ELSE r.info.user
Factor(op) == IF op = "onboard" THEN "totp" ELSE op

\* UpdateToken sets the value, whatever the store holds by now.
WriteToken(h) ==
    LET r == handler[h] IN
    /\ At(h, "write")
    /\ logins' = [logins EXCEPT ![r.login] = r.info]
    /\ passed' = [passed EXCEPT ![r.login] = @ \union {<<Factor(r.op), Prover(r)>>}]
    /\ IF r.op = "onboard" THEN handler' = [handler EXCEPT ![h].pc = "save"] ELSE Leave(h)
    /\ UNCHANGED <<users, opened, shared, burned, wrong, uncounted, sessions>>

\* UpdateToken fails: the inserted row is saved all the same.
WriteFails(h) ==
    /\ At(h, "write") /\ handler[h].op = "onboard"
    /\ handler' = [handler EXCEPT ![h].pc = "save"]
    /\ UNCHANGED <<users, logins, opened, shared, burned, wrong, uncounted, passed, sessions>>

-----------------------------------------------------------------------------
(* FinishLogin: the session is inserted, the token deleted, and the session *)
(* saved when the scope is closed.                                          *)

ReadFinished(h, l) ==
    /\ logins[l] # None /\ logins[l].step = "finish"
    /\ Begin(h, l, [Idle EXCEPT !.pc = "delete", !.op = "finish", !.login = l,
                                !.info = logins[l]])
    /\ UNCHANGED <<users, logins, opened, burned, wrong, uncounted, passed, sessions>>

DeleteToken(h) ==
    /\ At(h, "delete")
    /\ logins' = [logins EXCEPT ![handler[h].login] = None]
    /\ burned' = burned \union {handler[h].login}
    /\ handler' = [handler EXCEPT ![h].pc = "save"]
    /\ UNCHANGED <<users, opened, shared, wrong, uncounted, passed, sessions>>

DeleteFails(h) ==
    /\ At(h, "delete")
    /\ handler' = [handler EXCEPT ![h].pc = "save"]
    /\ UNCHANGED <<users, logins, opened, shared, burned, wrong, uncounted, passed, sessions>>

\* The close handler of the request's scope saves what was inserted.
CloseScope(h) ==
    LET r == handler[h] IN
    /\ At(h, "save") /\ Leave(h)
    /\ IF r.op = "finish"
       THEN sessions' = sessions \union {<<r.login, r.info.user>>} /\ UNCHANGED users
       ELSE users' = [users EXCEPT ![r.info.user].totp = TRUE] /\ UNCHANGED sessions
    /\ UNCHANGED <<logins, opened, shared, burned, wrong, uncounted, passed>>

-----------------------------------------------------------------------------
\* A check, a store call or the save fails, or the instance stops; CountFails is
\* that of a wrong password to be counted.
Abandon(h) ==
    /\ ~At(h, "idle") /\ ~At(h, "count") /\ Leave(h)
    /\ UNCHANGED <<users, logins, opened, shared, burned, wrong, uncounted, passed, sessions>>

HandlerStep(h) ==
    \/ \E l \in Login :
          \/ ReadForPassword(h, l) \/ ReadFinished(h, l)
          \/ \E op \in {"reset", "email", "onboard", "totp", "passkey"}, u \in User \union {None} : BeginUpdate(h, l, op, u)
    \/ WrongPassword(h) \/ CountAttempt(h) \/ CountFails(h) \/ \E u \in User : RightPassword(h, u)
    \/ ReadAgain(h) \/ Mutate(h) \/ WriteToken(h) \/ WriteFails(h)
    \/ DeleteToken(h) \/ DeleteFails(h) \/ CloseScope(h) \/ Abandon(h)

Next ==
    \/ OpenLogin
    \/ \E l \in Login : Expire(l)
    \/ \E u \in User : VerifyEmail(u)
    \/ \E h \in Handler : HandlerStep(h)

Spec == Init /\ [][Next]_vars

-----------------------------------------------------------------------------
TypeOK ==
    /\ users \in [User -> UserRow]
    /\ logins \in [Login -> LoginInfo \union {None}]
    /\ opened \subseteq Login /\ shared \subseteq Login /\ burned \subseteq Login
    /\ {wrong, uncounted} \subseteq [Login -> Nat] /\ sessions \subseteq Login \X User
    /\ passed \in [Login -> SUBSET (Operation \X User)]
    /\ handler \in [Handler -> InProgress]

\* A session belongs to a user who presented the password or a passkey in that
\* very login, however requests for the login token overlap.
UserProved ==
    \A l \in Login, u \in User :
        <<l, u>> \in sessions => {<<"password", u>>, <<"passkey", u>>} \intersect passed[l] # {}

\* "DetermineNextLoginStep decides what the next login step should be based on the
\* current step, user state, and server configuration." (login.go:87): a session
\* without a passkey has taken every step its user and the server call for.
StepsTaken(l, u) ==
    \/ <<"passkey", u>> \in passed[l]
    \/ /\ <<"password", u>> \in passed[l] /\ ~users[u].temporary
       /\ RequireEmail => users[u].verified
       /\ Require2fa \/ users[u].totp => <<"totp", u>> \in passed[l]
EveryStepTaken == \A l \in Login, u \in User : <<l, u>> \in sessions => StepsTaken(l, u)

\* The same where no two requests for the login token overlapped, whatever other
\* logins of the same user do meanwhile, and whatever fails.
StepsTakenInTurn ==
    \A l \in Login \ shared, u \in User : <<l, u>> \in sessions => StepsTaken(l, u)

\* "the per-loginToken cap on wrong-password attempts before the loginToken is
\* invalidated" (login.go:243), and "burns the loginToken via FinishLogin"
\* (loginbruteforce_test.go:125): without overlapping requests, no more wrong
\* passwords are checked than the cap, but one more for each that the store did not
\* count, and a token deleted by a handler is never found again.
BurnedForGood ==
    \A l \in Login \ shared :
        /\ wrong[l] <= MaxAttempts + uncounted[l]
        /\ l \in burned => logins[l] = None
=============================================================================
