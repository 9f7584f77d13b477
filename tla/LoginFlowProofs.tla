--------------------------- MODULE LoginFlowProofs ---------------------------
(***************************************************************************)
(* Theorems about LoginFlow, for any number of users, logins and           *)
(* overlapping requests, any rows of the users and any policy of the       *)
(* virtual server.                                                         *)
(***************************************************************************)
EXTENDS LoginFlow, TLAPS

USE LoginAssumption

-----------------------------------------------------------------------------
(* The inductive invariant.  P stands for what was passed in a login.       *)

Proven(P, u) == <<"password", u>> \in P \/ <<"passkey", u>> \in P

\* What every copy of a login satisfies, in the store or read by a handler.
Sound(P, info) ==
    /\ info \in LoginInfo /\ info.step # "passkey"
    /\ info.step # "passwordVerification" => info.user # None
    /\ info.user # None => Proven(P, info.user)
    /\ info.step = "onboardTotp" => Require2fa

\* The steps before the one the login is at were taken, as the rows say.
InTurn(rows, P, info) ==
    info.step # "passwordVerification" /\ <<"passkey", info.user>> \notin P =>
        /\ <<"password", info.user>> \in P
        /\ info.step # "temporaryPassword" => ~rows[info.user].temporary
        /\ info.step \notin {"temporaryPassword", "emailVerification"} /\ RequireEmail =>
              rows[info.user].verified
        /\ info.step = "finish" /\ (Require2fa \/ rows[info.user].totp) =>
              <<"totp", info.user>> \in P

Begun == burned \union {l \in Login : logins[l] # None} \subseteq opened

\* Only one handler is busy with a login that no two requests were made for.
Solo == \A g, h \in Handler :
            ~At(g, "idle") /\ handler[g].login = handler[h].login /\ handler[g].login \notin shared => g = h

\* A wrong password was compared and is about to be counted.
Pending(l) == \E g \in Handler : At(g, "count") /\ handler[g].login = l

Kept(l) ==
    logins[l] # None =>
        /\ Sound(passed[l], logins[l])
        /\ l \notin shared => /\ InTurn(users, passed[l], logins[l]) /\ l \notin burned
                              /\ logins[l].step = "passwordVerification" /\ ~Pending(l) =>
                                    wrong[l] <= logins[l].attempts + uncounted[l]

\* What the handler that has passwords to compare relies on: the login has not moved.
Waiting(l) == l \notin shared /\ logins[l] # None => logins[l].step = "passwordVerification"

HandlerInv(h) ==
    LET r == handler[h]
        l == r.login
        info == r.info
        P == passed[l]
    IN
    r.pc # "idle" =>
    /\ l \in opened /\ r.op \in Operation
    /\ l \notin shared /\ l \in burned => r.pc = "save" /\ r.op = "finish"
    /\ r.op = "onboard" => Require2fa
    /\ r.pc \in {"compare", "count"} =>
          /\ r.op = "password" /\ Sound(P, info) /\ info.step = "passwordVerification" /\ Waiting(l)
    /\ r.pc = "compare" /\ l \notin shared => wrong[l] <= info.attempts + uncounted[l]
    /\ r.pc = "count" /\ l \notin shared =>
          /\ wrong[l] <= info.attempts + 1 + uncounted[l]
          /\ logins[l] # None => wrong[l] <= logins[l].attempts + 1 + uncounted[l]
    /\ r.pc = "read" => r.op = "password" /\ r.user \in User /\ Waiting(l)
    /\ r.pc = "mutate" =>
          /\ r.op # "finish" /\ Sound(P, info)
          /\ IF r.op \in {"password", "passkey"} THEN r.user \in User
             ELSE r.user = None /\ info.step \in StepOf(r.op)
          /\ l \notin shared => /\ InTurn(users, P, info)
                                /\ r.op = "password" => info.step = "passwordVerification"
    /\ r.pc = "write" =>
          /\ r.op # "finish"
          /\ info \in LoginInfo /\ info.step \notin {"passkey", "passwordVerification"} /\ info.user \in User
          /\ info.step = "onboardTotp" => Require2fa
          /\ IF r.op \in {"password", "passkey"} THEN r.user = info.user
             ELSE r.user = None /\ Proven(P, info.user)
          /\ l \notin shared => InTurn(users, P \union {<<Factor(r.op), info.user>>}, info)
    /\ r.pc = "delete" => r.op = "finish"
    /\ r.pc = "save" => r.op \in {"finish", "onboard"}
    /\ r.op = "finish" =>
          /\ info \in LoginInfo /\ info.step = "finish" /\ Sound(P, info)
          /\ l \notin shared => InTurn(users, P, info)

SessionsInv ==
    \A l \in Login, u \in User : <<l, u>> \in sessions =>
        Proven(passed[l], u) /\ (l \notin shared => StepsTaken(l, u))

LoginInv ==
    /\ Begun /\ Solo /\ SessionsInv
    /\ \A l \in Login : Kept(l) /\ (l \notin opened => wrong[l] = 0)
    /\ \A l \in Login \ shared : wrong[l] <= MaxAttempts + uncounted[l]
    /\ \A h \in Handler : HandlerInv(h)

-----------------------------------------------------------------------------
(* What every step leaves true.                                            *)

\* Users only ever gain what a login asks for; a second factor alone may be new.
Better(rows, later) ==
    \A u \in User : /\ later[u].temporary => rows[u].temporary
                    /\ rows[u].verified => later[u].verified
                    /\ later[u].totp => rows[u].totp \/ Require2fa

Grows ==
    /\ opened \subseteq opened' /\ shared \subseteq shared' /\ Better(users, users')
    /\ \A l \in Login : passed[l] \subseteq passed'[l]

LEMMA SoundGrows ==
  ASSUME NEW P, NEW Q, P \subseteq Q, NEW info, Sound(P, info)
  PROVE  Sound(Q, info)
  BY DEF Sound, Proven

LEMMA InTurnGrows ==
  ASSUME NEW P, NEW Q, P \subseteq Q, NEW rows, NEW later, Better(rows, later),
         NEW info \in LoginInfo, info.step # "passwordVerification" => info.user # None,
         InTurn(rows, P, info)
  PROVE  InTurn(later, Q, info)
  BY DEF InTurn, Better, LoginInfo

LEMMA StepsGrow ==
  ASSUME Grows, NEW l \in Login, NEW u \in User
  PROVE  /\ Proven(passed[l], u) => Proven(passed'[l], u)
         /\ StepsTaken(l, u) => StepsTaken(l, u)'
  BY DEF Grows, Better, Proven, StepsTaken

LEMMA SessionsGrow ==
  ASSUME TypeOK, SessionsInv, Grows, sessions' = sessions
  PROVE  SessionsInv'
  BY StepsGrow DEF SessionsInv, Grows

\* A login that a step leaves alone, or takes out of the store.
Untouched(l) ==
    /\ logins'[l] = logins[l] \/ logins'[l] = None
    /\ wrong'[l] = wrong[l] /\ uncounted'[l] = uncounted[l]
    /\ l \in burned' => l \in burned \/ logins'[l] = None

LEMMA LoginKept ==
  ASSUME TypeOK, Grows, NEW l \in Login, Kept(l), Untouched(l), Pending(l) => Pending(l)'
  PROVE  Kept(l)'
<1> SUFFICES ASSUME logins'[l] # None, logins'[l] = logins[l] PROVE Kept(l)'
  BY DEF Kept, Untouched
<1>1. Sound(passed[l], logins[l]) /\ logins[l] \in LoginInfo /\ passed[l] \subseteq passed'[l]
  BY DEF Kept, TypeOK, Grows
<1>2. Sound(passed'[l], logins'[l])
  BY <1>1, SoundGrows
<1>3. ASSUME l \notin shared'
      PROVE  /\ InTurn(users', passed'[l], logins'[l]) /\ l \notin burned'
             /\ logins'[l].step = "passwordVerification" /\ ~Pending(l)' =>
                   wrong'[l] <= logins'[l].attempts + uncounted'[l]
  <2>1. l \notin shared
    BY <1>3 DEF Grows
  <2>2. InTurn(users, passed[l], logins[l])
    BY <2>1 DEF Kept
  <2>3. InTurn(users', passed'[l], logins'[l])
    BY <1>1, <2>2, InTurnGrows DEF Grows, Sound
  <2>4. QED
    BY <2>1, <2>3 DEF Kept, Untouched
<1>4. QED
  BY <1>2, <1>3 DEF Kept

\* A handler that a step does not move, and whose login it leaves alone unless two
\* requests were made for it.
LEMMA HandlerKept ==
  ASSUME TypeOK, Grows, NEW h \in Handler, HandlerInv(h), handler'[h] = handler[h],
         handler[h].pc # "idle" /\ handler[h].login \notin shared' =>
            Untouched(handler[h].login) /\ (handler[h].login \in burned' => handler[h].login \in burned)
  PROVE  HandlerInv(h)'
<1> DEFINE r == handler[h]
           l == r.login
           info == r.info
<1> SUFFICES ASSUME r.pc # "idle" PROVE HandlerInv(h)'
  BY DEF HandlerInv
<1>1. /\ l \in Login /\ l \in opened' /\ passed[l] \subseteq passed'[l]
      /\ l \notin shared' => l \notin shared
  BY DEF HandlerInv, TypeOK, Grows
<1>2. Sound(passed[l], info) => Sound(passed'[l], info)
  BY <1>1, SoundGrows
<1>3. InTurn(users, passed[l], info) /\ Sound(passed[l], info) => InTurn(users', passed'[l], info)
  BY <1>1, InTurnGrows DEF Grows, Sound
<1>4. Proven(passed[l], info.user) => Proven(passed'[l], info.user)
  BY <1>1 DEF Proven
<1>5. ASSUME info \in LoginInfo, info.step # "passwordVerification" => info.user # None,
             InTurn(users, passed[l] \union {<<Factor(r.op), info.user>>}, info)
      PROVE  InTurn(users', passed'[l] \union {<<Factor(r.op), info.user>>}, info)
  BY <1>1, <1>5, InTurnGrows DEF Grows
<1>6. Waiting(l) => Waiting(l)'
  BY <1>1 DEF Waiting, Untouched
<1>7. l \notin shared' => /\ wrong'[l] = wrong[l] /\ uncounted'[l] = uncounted[l]
                          /\ logins'[l] # None => logins'[l] = logins[l]
  BY DEF Untouched
<1>8. r.pc = "compare" /\ l \notin shared' => wrong'[l] <= info.attempts + uncounted'[l]
  BY <1>1, <1>7 DEF HandlerInv
<1>9. r.pc = "count" /\ l \notin shared' =>
        /\ wrong'[l] <= info.attempts + 1 + uncounted'[l]
        /\ logins'[l] # None => wrong'[l] <= logins'[l].attempts + 1 + uncounted'[l]
  BY <1>1, <1>7 DEF HandlerInv
<1>10. QED
  BY <1>1, <1>2, <1>3, <1>4, <1>5, <1>6, <1>8, <1>9 DEF HandlerInv

-----------------------------------------------------------------------------
(* A step of one handler, in the one login it is about.                    *)

Only(h) == \A g \in Handler \ {h} : handler'[g] = handler[g]
Apart(l) == \A m \in Login \ {l} : Untouched(m) /\ (m \in burned' => m \in burned)
Alone(h, l) == \A g \in Handler \ {h} : ~At(g, "idle") /\ handler[g].login = l => l \in shared'

LEMMA PendingStays ==
  ASSUME NEW h \in Handler, Only(h), NEW m, handler[h].pc # "count" \/ handler[h].login # m
  PROVE  Pending(m) => Pending(m)'
  BY DEF Pending, Only, At

LEMMA OneLogin ==
  ASSUME TypeOK, LoginInv, Grows, NEW h \in Handler, NEW l \in opened,
         handler[h].pc # "count" \/ handler[h].login = l,
         Only(h), Apart(l), Alone(h, l), burned' \subseteq Login,
         Solo', SessionsInv', Kept(l)', l \notin shared' => wrong'[l] <= MaxAttempts + uncounted'[l], HandlerInv(h)'
  PROVE  LoginInv'
<1>0. l \in Login /\ opened \subseteq opened' /\ shared \subseteq shared'
  BY DEF TypeOK, Grows
<1>1. ASSUME NEW g \in Handler \ {h} PROVE HandlerInv(g)'
  <2>1. HandlerInv(g) /\ handler'[g] = handler[g]
    BY DEF LoginInv, Only
  <2>2. ASSUME handler[g].pc # "idle", handler[g].login \notin shared'
        PROVE  Untouched(handler[g].login) /\ (handler[g].login \in burned' => handler[g].login \in burned)
    <3>1. handler[g].login \in Login \ {l}
      BY <2>1, <2>2 DEF HandlerInv, TypeOK, Alone, At
    <3>2. QED
      BY <3>1 DEF Apart
  <2>3. QED
    BY <2>1, <2>2, HandlerKept
<1>2. ASSUME NEW m \in Login \ {l}
      PROVE  Kept(m)' /\ (m \notin opened' => wrong'[m] = 0) /\ (m \notin shared' => wrong'[m] <= MaxAttempts + uncounted'[m])
  <2>1. Untouched(m) /\ Kept(m)
    BY DEF Apart, LoginInv
  <2>2. Kept(m)'
    BY <2>1, LoginKept, PendingStays
  <2>3. QED
    BY <1>0, <2>1, <2>2 DEF LoginInv, Untouched
<1>3. Begun'
  <2>1. ASSUME NEW m \in burned' PROVE m \in opened'
    BY <1>0, <2>1 DEF Begun, LoginInv, Apart, TypeOK
  <2>2. ASSUME NEW m \in Login, logins'[m] # None PROVE m \in opened'
    BY <1>0, <2>2 DEF Begun, LoginInv, Apart, Untouched
  <2>3. QED
    BY <2>1, <2>2 DEF Begun
<1>4. QED
  BY <1>0, <1>1, <1>2, <1>3 DEF LoginInv

\* A handler in progress goes on in its login, or ends.
LEMMA Busy ==
  ASSUME TypeOK, LoginInv, NEW h \in Handler, handler[h].pc # "idle", shared \subseteq shared',
         Only(h), handler'[h].login = handler[h].login \/ handler'[h] = Idle
  PROVE  /\ handler[h].login \in opened /\ handler[h].login \in Login
         /\ Alone(h, handler[h].login) /\ Solo'
<1>1. handler[h].login \in opened /\ handler[h].login \in Login
  BY DEF LoginInv, HandlerInv, TypeOK
<1>2. Solo
  BY DEF LoginInv
<1>3. Alone(h, handler[h].login)
  BY <1>2 DEF Solo, Alone, At
<1>4. Solo'
  <2> SUFFICES ASSUME NEW f \in Handler, NEW g \in Handler,
                      handler'[f].pc # "idle", handler'[f].login = handler'[g].login,
                      handler'[f].login \notin shared'
               PROVE  f = g
    BY DEF Solo, At
  <2>1. CASE f = h
    <3>1. handler'[h].login = handler[h].login
      BY <2>1 DEF Idle
    <3>2. ASSUME g # h PROVE handler'[g] = handler[g]
      BY <3>2 DEF Only
    <3>3. QED
      BY <1>2, <2>1, <3>1, <3>2 DEF Solo, At
  <2>2. CASE f # h
    <3>1. handler'[f] = handler[f]
      BY <2>2 DEF Only
    <3>2. CASE g # h
      BY <1>2, <3>1, <3>2 DEF Solo, At, Only
    <3>3. CASE g = h
      <4>1. handler[f].login # None
        BY <3>1 DEF LoginInv, HandlerInv, TypeOK
      <4>2. handler'[h].login = handler[h].login
        BY <3>1, <3>3, <4>1 DEF Idle
      <4>3. QED
        BY <1>2, <3>1, <3>3, <4>2 DEF Solo, At
    <3>4. QED
      BY <3>2, <3>3
  <2>3. QED
    BY <2>1, <2>2
<1>5. QED
  BY <1>1, <1>3, <1>4

\* Only the handler moves.
LEMMA Moves ==
  ASSUME TypeOK, LoginInv, NEW h \in Handler, handler[h].pc \notin {"idle", "count"}, Only(h),
         handler'[h].login = handler[h].login \/ handler'[h] = Idle,
         handler' \in [Handler -> InProgress], HandlerInv(h)',
         UNCHANGED <<users, logins, opened, shared, burned, wrong, uncounted, passed, sessions>>
  PROVE  TypeOK' /\ LoginInv'
<1>1. Grows /\ \A m \in Login : Untouched(m)
  BY DEF Grows, Better, Untouched
<1>2. PICK l \in opened : l = handler[h].login /\ l \in Login /\ Alone(h, l) /\ Solo'
  BY Busy
<1>3. Apart(l) /\ burned' \subseteq Login
  BY <1>1 DEF Apart, TypeOK
<1>4. SessionsInv' /\ Kept(l)'
  BY <1>1, <1>2, SessionsGrow, LoginKept, PendingStays DEF LoginInv
<1>5. l \notin shared' => wrong'[l] <= MaxAttempts + uncounted'[l]
  BY <1>2 DEF LoginInv
<1>6. LoginInv'
  BY <1>1, <1>2, <1>3, <1>4, <1>5, OneLogin
<1>7. QED
  BY <1>6 DEF TypeOK

\* A request begins.
LEMMA Begins ==
  ASSUME TypeOK, LoginInv, NEW h \in Handler, NEW l \in Login, NEW r \in InProgress,
         logins[l] # None, Begin(h, l, r), r.login = l, HandlerInv(h)',
         UNCHANGED <<users, logins, opened, burned, wrong, uncounted, passed, sessions>>
  PROVE  TypeOK' /\ LoginInv'
<1>1. Grows /\ \A m \in Login : Untouched(m)
  BY DEF Grows, Better, Untouched, Begin
<1>2. handler' \in [Handler -> InProgress] /\ handler'[h] = r /\ Only(h)
  BY DEF TypeOK, Begin, Only
<1>3. /\ l \in opened /\ Apart(l) /\ Alone(h, l) /\ burned' \subseteq Login
      /\ shared' \subseteq Login /\ shared \subseteq shared'
  <2>1. l \in opened /\ Apart(l) /\ burned' \subseteq Login
    BY <1>1 DEF Apart, LoginInv, Begun, TypeOK
  <2>2. /\ Alone(h, l) /\ shared' \subseteq Login /\ shared \subseteq shared'
    BY DEF Alone, Begin, TypeOK
  <2>3. QED
    BY <2>1, <2>2
<1>4. Solo'
  BY <1>2, <1>3 DEF Solo, LoginInv, At, Only, Begin, Alone
<1>5. SessionsInv' /\ Kept(l)'
  <2>1. Pending(l) => Pending(l)'
    BY <1>2, PendingStays DEF Begin, At
  <2>2. QED
    BY <1>1, <2>1, SessionsGrow, LoginKept DEF LoginInv
<1>6. l \notin shared' => wrong'[l] <= MaxAttempts + uncounted'[l]
  BY <1>3 DEF LoginInv
<1>7. handler[h].pc # "count"
  BY DEF Begin, At
<1>8. LoginInv'
  BY <1>1, <1>2, <1>3, <1>4, <1>5, <1>6, <1>7, OneLogin
<1>9. QED
  BY <1>2, <1>3, <1>8 DEF TypeOK

-----------------------------------------------------------------------------
(* A request reads the login.                                              *)

\* What a handler finds in the store.
LEMMA Found ==
  ASSUME TypeOK, LoginInv, NEW l \in Login, logins[l] # None
  PROVE  /\ l \in opened /\ logins[l] \in LoginInfo /\ Sound(passed[l], logins[l])
         /\ l \notin shared => /\ l \notin burned /\ InTurn(users, passed[l], logins[l])
                               /\ logins[l].step = "passwordVerification" /\ ~Pending(l) =>
                                     wrong[l] <= logins[l].attempts + uncounted[l]
  BY DEF LoginInv, Begun, Kept, TypeOK

LEMMA ReadForPasswordKeeps ==
  ASSUME TypeOK, LoginInv, NEW h \in Handler, NEW l \in Login, ReadForPassword(h, l)
  PROVE  TypeOK' /\ LoginInv'
<1> DEFINE r == [Idle EXCEPT !.pc = "compare", !.op = "password", !.login = l, !.info = logins[l]]
<1>1. PICK info \in LoginInfo : info = logins[l] /\ logins[l] # None
  BY Found DEF ReadForPassword
<1>2. /\ r \in InProgress /\ r.login = l /\ r.pc = "compare" /\ r.op = "password" /\ r.info = info
      /\ r.user = None
  BY <1>1 DEF InProgress, Idle, Operation
<1>3. Begin(h, l, r)
  BY DEF ReadForPassword
<1> HIDE DEF r
<1>4. handler'[h] = r /\ shared \subseteq shared' /\ (l \notin shared' => ~Pending(l))
  BY <1>2, <1>3 DEF Begin, TypeOK, Pending
<1>5. HandlerInv(h)'
  BY <1>1, <1>2, <1>4, Found DEF HandlerInv, ReadForPassword, Waiting, Operation
<1>6. QED
  BY <1>1, <1>2, <1>3, <1>5, Begins DEF ReadForPassword

LEMMA BeginUpdateKeeps ==
  ASSUME TypeOK, LoginInv, NEW h \in Handler, NEW l \in Login, NEW u \in User \union {None},
         NEW op \in {"reset", "email", "onboard", "totp", "passkey"}, BeginUpdate(h, l, op, u)
  PROVE  TypeOK' /\ LoginInv'
<1> DEFINE r == [Idle EXCEPT !.pc = "mutate", !.op = op, !.login = l, !.user = u, !.info = logins[l]]
<1>1. PICK info \in LoginInfo : info = logins[l] /\ logins[l] # None
  BY Found DEF BeginUpdate
<1>2. /\ r \in InProgress /\ r.login = l /\ r.pc = "mutate" /\ r.op = op /\ r.info = info
      /\ r.user = u
  BY <1>1 DEF InProgress, Idle, Operation
<1>3. Begin(h, l, r)
  BY DEF BeginUpdate
<1> HIDE DEF r
<1>4. handler'[h] = r /\ shared \subseteq shared'
  BY <1>2, <1>3 DEF Begin, TypeOK
<1>5. /\ info.step \in StepOf(op) /\ op \in Operation
      /\ op = "onboard" => Require2fa
      /\ IF op = "passkey" THEN u \in User ELSE u = None
  BY <1>1, Found DEF BeginUpdate, StepOf, Sound, Operation
<1>6. HandlerInv(h)'
  BY <1>1, <1>2, <1>4, <1>5, Found DEF HandlerInv, BeginUpdate
<1>7. QED
  BY <1>1, <1>2, <1>3, <1>6, Begins DEF BeginUpdate

LEMMA ReadFinishedKeeps ==
  ASSUME TypeOK, LoginInv, NEW h \in Handler, NEW l \in Login, ReadFinished(h, l)
  PROVE  TypeOK' /\ LoginInv'
<1> DEFINE r == [Idle EXCEPT !.pc = "delete", !.op = "finish", !.login = l, !.info = logins[l]]
<1>1. PICK info \in LoginInfo : info = logins[l] /\ logins[l] # None
  BY Found DEF ReadFinished
<1>2. /\ r \in InProgress /\ r.login = l /\ r.pc = "delete" /\ r.op = "finish" /\ r.info = info
      /\ r.user = None
  BY <1>1 DEF InProgress, Idle, Operation
<1>3. Begin(h, l, r)
  BY DEF ReadFinished
<1> HIDE DEF r
<1>4. handler'[h] = r /\ shared \subseteq shared'
  BY <1>2, <1>3 DEF Begin, TypeOK
<1>5. HandlerInv(h)'
  BY <1>1, <1>2, <1>4, Found DEF HandlerInv, ReadFinished, Operation
<1>6. QED
  BY <1>1, <1>2, <1>3, <1>5, Begins DEF ReadFinished

-----------------------------------------------------------------------------
(* Only the handler moves on.                                              *)

\* A handler goes on with the fields of r, or ends.
LEMMA GoesOn ==
  ASSUME TypeOK, NEW h \in Handler, NEW r \in InProgress, handler' = [handler EXCEPT ![h] = r]
  PROVE  handler' \in [Handler -> InProgress] /\ handler'[h] = r /\ Only(h)
  BY DEF TypeOK, Only

LEMMA IdleType == Idle \in InProgress /\ Idle.pc = "idle"
  BY DEF Idle, InProgress

LEMMA Ends ==
  ASSUME TypeOK, NEW h \in Handler, Leave(h)
  PROVE  handler' \in [Handler -> InProgress] /\ handler'[h] = Idle /\ Only(h) /\ HandlerInv(h)'
<1>1. handler' \in [Handler -> InProgress] /\ handler'[h] = Idle /\ Only(h)
  BY IdleType, GoesOn DEF Leave
<1>2. QED
  BY <1>1, IdleType DEF HandlerInv

LEMMA AbandonKeeps ==
  ASSUME TypeOK, LoginInv, NEW h \in Handler, Abandon(h)
  PROVE  TypeOK' /\ LoginInv'
  BY Ends, Moves DEF Abandon, At

LEMMA RightPasswordKeeps ==
  ASSUME TypeOK, LoginInv, NEW h \in Handler, NEW u \in User, RightPassword(h, u)
  PROVE  TypeOK' /\ LoginInv'
<1> DEFINE r == [handler[h] EXCEPT !.pc = "read", !.user = u]
<1>1. handler' = [handler EXCEPT ![h] = r] /\ handler[h].pc = "compare"
  BY DEF RightPassword, At
<1>0. handler[h] \in InProgress
  BY DEF TypeOK
<1>2. /\ r \in InProgress /\ r.pc = "read" /\ r.user = u
      /\ r.login = handler[h].login /\ r.op = handler[h].op
  BY <1>0 DEF InProgress
<1> HIDE DEF r
<1>3. handler' \in [Handler -> InProgress] /\ handler'[h] = r /\ Only(h)
  BY <1>1, <1>2, GoesOn
<1>4. HandlerInv(h)'
  BY <1>1, <1>2, <1>3 DEF LoginInv, HandlerInv, RightPassword, Waiting
<1>5. QED
  BY <1>1, <1>2, <1>3, <1>4, Moves DEF RightPassword

LEMMA ReadAgainKeeps ==
  ASSUME TypeOK, LoginInv, NEW h \in Handler, ReadAgain(h)
  PROVE  TypeOK' /\ LoginInv'
<1>1. /\ handler[h].pc = "read" /\ handler[h].op = "password" /\ handler[h].user \in User
      /\ handler[h].login \in opened /\ Waiting(handler[h].login)
      /\ handler[h].login \in Login
  BY DEF ReadAgain, At, LoginInv, HandlerInv, TypeOK
<1>2. PICK l \in Login, info \in LoginInfo :
        l = handler[h].login /\ info = logins[l] /\ logins[l] # None
  BY <1>1, Found DEF ReadAgain
<1> DEFINE r == [handler[h] EXCEPT !.pc = "mutate", !.info = info]
<1>3. handler' = [handler EXCEPT ![h] = r]
  BY <1>2 DEF ReadAgain
<1>4. /\ r \in InProgress /\ r.pc = "mutate" /\ r.info = info
      /\ r.user = handler[h].user /\ r.login = l /\ r.op = "password"
  BY <1>1, <1>2 DEF TypeOK, InProgress
<1> HIDE DEF r
<1>5. handler' \in [Handler -> InProgress] /\ handler'[h] = r /\ Only(h)
  BY <1>3, <1>4, GoesOn
<1>6. HandlerInv(h)'
  BY <1>1, <1>2, <1>4, <1>5, Found DEF HandlerInv, ReadAgain, Waiting, Operation
<1>7. QED
  BY <1>1, <1>2, <1>4, <1>5, <1>6, Moves DEF ReadAgain

\* A failed write, and a failed deletion, change nothing but what comes next.
LEMMA FailureKeeps ==
  ASSUME TypeOK, LoginInv, NEW h \in Handler, WriteFails(h) \/ DeleteFails(h)
  PROVE  TypeOK' /\ LoginInv'
<1> DEFINE r == [handler[h] EXCEPT !.pc = "save"]
<1>1. handler' = [handler EXCEPT ![h] = r] /\ handler[h].pc \in {"write", "delete"}
  BY DEF WriteFails, DeleteFails, At
<1>2. /\ r \in InProgress /\ r.pc = "save" /\ r.info = handler[h].info
      /\ r.login = handler[h].login /\ r.op = handler[h].op
  BY DEF TypeOK, InProgress
<1> HIDE DEF r
<1>3. handler' \in [Handler -> InProgress] /\ handler'[h] = r /\ Only(h)
  BY <1>1, <1>2, GoesOn
<1>4. HandlerInv(h)'
  BY <1>1, <1>2, <1>3 DEF LoginInv, HandlerInv, WriteFails, DeleteFails, At
<1>5. QED
  BY <1>1, <1>2, <1>3, <1>4, Moves DEF WriteFails, DeleteFails

-----------------------------------------------------------------------------
(* A handler changes the login, or the rows.                               *)

\* What the handler of a wrong password knows of its login.
LEMMA Compared ==
  ASSUME TypeOK, LoginInv, NEW h \in Handler, handler[h].pc \in {"compare", "count"}
  PROVE  /\ handler[h].login \in opened /\ handler[h].login \in Login /\ handler[h].info \in LoginInfo
         /\ handler[h].op = "password" /\ Sound(passed[handler[h].login], handler[h].info)
         /\ handler[h].info.step = "passwordVerification" /\ Waiting(handler[h].login)
         /\ handler[h].login \notin shared => handler[h].login \notin burned
         /\ handler[h].info.attempts \in 0 .. MaxAttempts - 1
  BY DEF LoginInv, HandlerInv, Sound, TypeOK, LoginInfo

LEMMA WrongPasswordKeeps ==
  ASSUME TypeOK, LoginInv, NEW h \in Handler, WrongPassword(h)
  PROVE  TypeOK' /\ LoginInv'
<1> DEFINE r == [handler[h] EXCEPT !.pc = "count"]
<1>0. handler' = [handler EXCEPT ![h] = r] /\ handler[h].pc = "compare" /\ handler[h] \in InProgress
  BY DEF WrongPassword, At, TypeOK
<1>1. PICK l \in opened : /\ l = handler[h].login /\ l \in Login /\ Waiting(l)
                          /\ l \notin shared => l \notin burned
  BY <1>0, Compared
<1>2. wrong' = [wrong EXCEPT ![l] = @ + 1] /\ uncounted' = uncounted
  BY <1>1 DEF WrongPassword
<1>3. /\ r \in InProgress /\ r.pc = "count" /\ r.info = handler[h].info
      /\ r.login = l /\ r.op = handler[h].op
  BY <1>0, <1>1 DEF InProgress
<1> HIDE DEF r
<1>4. handler' \in [Handler -> InProgress] /\ handler'[h] = r /\ Only(h)
  BY <1>0, <1>3, GoesOn
<1>5. Alone(h, l) /\ Solo'
  BY <1>0, <1>1, <1>3, <1>4, Busy DEF WrongPassword
<1>6. Grows /\ Apart(l) /\ burned' \subseteq Login
  BY <1>2 DEF WrongPassword, Grows, Better, Apart, Untouched, TypeOK
<1>7. /\ wrong[l] \in Nat /\ uncounted[l] \in Nat /\ wrong'[l] = wrong[l] + 1
      /\ wrong' \in [Login -> Nat] /\ uncounted'[l] = uncounted[l]
  BY <1>2 DEF TypeOK
<1>8. l \notin shared => ~Pending(l)
  BY <1>0, <1>1 DEF Pending, LoginInv, Solo, At
<1>9. ASSUME l \notin shared, logins[l] # None
      PROVE  wrong'[l] <= logins[l].attempts + 1 + uncounted'[l]
  <2>1. logins[l].attempts \in Nat
    BY <1>1, <1>9 DEF TypeOK, LoginInfo
  <2>2. wrong[l] <= logins[l].attempts + uncounted[l]
    BY <1>1, <1>8, <1>9 DEF Waiting, LoginInv, Kept
  <2>3. QED
    BY <1>7, <2>1, <2>2
<1>10. ASSUME l \notin shared
       PROVE  /\ wrong'[l] <= handler[h].info.attempts + 1 + uncounted'[l]
              /\ wrong'[l] <= MaxAttempts + uncounted'[l]
  <2>1. wrong[l] <= handler[h].info.attempts + uncounted[l]
    BY <1>0, <1>1, <1>10 DEF LoginInv, HandlerInv
  <2>2. handler[h].info.attempts \in 0 .. MaxAttempts - 1
    BY <1>0, Compared
  <2>3. QED
    BY <1>7, <2>1, <2>2
<1>11. UNCHANGED <<users, logins, opened, shared, burned, passed, sessions>>
  BY DEF WrongPassword
<1>12. HandlerInv(h)'
  BY <1>0, <1>1, <1>3, <1>4, <1>9, <1>10, <1>11, Compared DEF HandlerInv, Waiting, Operation
<1>13. Kept(l)'
  <2>1. Pending(l)'
    BY <1>3, <1>4 DEF Pending, At
  <2>2. Kept(l)
    BY <1>1 DEF LoginInv
  <2>3. Kept(l)' <=> (logins[l] # None =>
          /\ Sound(passed[l], logins[l])
          /\ l \notin shared => /\ InTurn(users, passed[l], logins[l]) /\ l \notin burned
                                /\ logins[l].step = "passwordVerification" /\ ~Pending(l)' =>
                                      wrong'[l] <= logins[l].attempts + uncounted'[l])
    BY <1>11 DEF Kept
  <2>4. QED
    BY <2>1, <2>2, <2>3 DEF Kept
<1>14. SessionsInv'
  BY <1>6, <1>11, SessionsGrow DEF LoginInv
<1>15. LoginInv'
  BY <1>0, <1>1, <1>4, <1>5, <1>6, <1>10, <1>11, <1>12, <1>13, <1>14, OneLogin
<1>16. QED
  BY <1>4, <1>7, <1>11, <1>15 DEF TypeOK, WrongPassword

LEMMA CountAttemptKeeps ==
  ASSUME TypeOK, LoginInv, NEW h \in Handler, CountAttempt(h)
  PROVE  TypeOK' /\ LoginInv'
<1>0. handler[h].pc = "count"
  BY DEF CountAttempt, At
<1>1. PICK l \in Login, info \in LoginInfo :
        /\ l = handler[h].login /\ info = handler[h].info /\ l \in opened
        /\ Sound(passed[l], info) /\ info.step = "passwordVerification"
        /\ l \notin shared => wrong[l] <= info.attempts + 1 + uncounted[l] /\ l \notin burned
  BY <1>0, Compared DEF LoginInv, HandlerInv
<1>2. IF info.attempts + 1 >= MaxAttempts
      THEN logins' = [logins EXCEPT ![l] = None] /\ burned' = burned \union {l}
      ELSE logins' = [logins EXCEPT ![l] = [info EXCEPT !.attempts = @ + 1]] /\ burned' = burned
  BY <1>1 DEF CountAttempt
<1>3. /\ handler' \in [Handler -> InProgress] /\ handler'[h] = Idle /\ Only(h) /\ HandlerInv(h)'
      /\ handler[h].pc # "idle"
  BY <1>0, Ends DEF CountAttempt
<1>4. Alone(h, l) /\ Solo'
  BY <1>1, <1>3, Busy DEF CountAttempt
<1>5. Grows /\ Apart(l) /\ burned' \subseteq Login
  BY <1>2 DEF CountAttempt, Grows, Better, Apart, Untouched, TypeOK
<1>6. /\ info.attempts \in 0 .. MaxAttempts - 1 /\ wrong[l] \in Nat /\ uncounted[l] \in Nat
      /\ wrong' = wrong /\ uncounted' = uncounted
  BY DEF CountAttempt, LoginInfo, TypeOK
<1>7. l \notin shared' => wrong'[l] <= MaxAttempts + uncounted'[l]
  BY <1>1, <1>6 DEF CountAttempt, LoginInv
<1>8. logins' \in [Login -> LoginInfo \union {None}] /\ Kept(l)'
  <2>1. CASE info.attempts + 1 >= MaxAttempts
    BY <1>2, <2>1 DEF Kept, TypeOK
  <2>2. CASE ~(info.attempts + 1 >= MaxAttempts)
    <3> DEFINE new == [info EXCEPT !.attempts = @ + 1]
    <3>1. /\ new \in LoginInfo /\ new.step = info.step /\ new.user = info.user
          /\ new.attempts = info.attempts + 1
      BY <1>6, <2>2 DEF LoginInfo
    <3>2. logins' = [logins EXCEPT ![l] = new] /\ burned' = burned
      BY <1>2, <2>2
    <3> HIDE DEF new
    <3>3. Sound(passed[l], new) /\ InTurn(users', passed[l], new)
      BY <1>1, <3>1 DEF Sound, InTurn
    <3>4. logins'[l] = new /\ passed' = passed /\ shared' = shared
      BY <3>2 DEF TypeOK, CountAttempt
    <3>5. logins' \in [Login -> LoginInfo \union {None}]
      BY <3>1, <3>2 DEF TypeOK
    <3>6. Kept(l)'
      BY <1>1, <1>6, <3>1, <3>2, <3>3, <3>4 DEF Kept
    <3>7. QED
      BY <3>5, <3>6
  <2>3. QED
    BY <2>1, <2>2
<1>9. SessionsInv'
  BY <1>5, SessionsGrow DEF CountAttempt, LoginInv
<1>10. LoginInv'
  BY <1>1, <1>3, <1>4, <1>5, <1>7, <1>8, <1>9, OneLogin
<1>11. QED
  BY <1>3, <1>5, <1>6, <1>8, <1>10 DEF TypeOK, CountAttempt

LEMMA CountFailsKeeps ==
  ASSUME TypeOK, LoginInv, NEW h \in Handler, CountFails(h)
  PROVE  TypeOK' /\ LoginInv'
<1>0. handler[h].pc = "count"
  BY DEF CountFails, At
<1>1. PICK l \in opened : /\ l = handler[h].login /\ l \in Login
                          /\ l \notin shared /\ logins[l] # None =>
                                wrong[l] <= logins[l].attempts + 1 + uncounted[l]
  BY <1>0, Compared DEF LoginInv, HandlerInv
<1>2. /\ uncounted' = [uncounted EXCEPT ![l] = @ + 1]
      /\ UNCHANGED <<users, logins, opened, shared, burned, wrong, passed, sessions>>
  BY <1>1 DEF CountFails
<1>3. /\ handler' \in [Handler -> InProgress] /\ handler'[h] = Idle /\ Only(h) /\ HandlerInv(h)'
      /\ handler[h].pc # "idle"
  BY <1>0, Ends DEF CountFails
<1>4. Alone(h, l) /\ Solo'
  BY <1>1, <1>2, <1>3, Busy
<1>5. Grows /\ Apart(l) /\ burned' \subseteq Login
  BY <1>2 DEF Grows, Better, Apart, Untouched, TypeOK
<1>6. /\ wrong[l] \in Nat /\ uncounted[l] \in Nat /\ uncounted'[l] = uncounted[l] + 1
      /\ uncounted' \in [Login -> Nat]
  BY <1>2 DEF TypeOK
<1>7. l \notin shared' => wrong'[l] <= MaxAttempts + uncounted'[l]
  BY <1>1, <1>2, <1>6 DEF LoginInv
<1>8. Kept(l)'
  <2>1. Kept(l) /\ (logins[l] # None => logins[l].attempts \in Nat)
    BY <1>1 DEF LoginInv, TypeOK, LoginInfo
  <2>2. l \notin shared /\ logins[l] # None => wrong[l] <= logins[l].attempts + uncounted'[l]
    BY <1>1, <1>6, <2>1
  <2>3. QED
    BY <1>2, <2>1, <2>2 DEF Kept
<1>9. SessionsInv'
  BY <1>2, <1>5, SessionsGrow DEF LoginInv
<1>10. LoginInv'
  BY <1>1, <1>3, <1>4, <1>5, <1>7, <1>8, <1>9, OneLogin
<1>11. QED
  BY <1>2, <1>3, <1>6, <1>10 DEF TypeOK

LEMMA DeleteTokenKeeps ==
  ASSUME TypeOK, LoginInv, NEW h \in Handler, DeleteToken(h)
  PROVE  TypeOK' /\ LoginInv'
<1>1. PICK l \in opened : l = handler[h].login /\ l \in Login
  BY DEF DeleteToken, At, LoginInv, HandlerInv, TypeOK
<1>2. logins' = [logins EXCEPT ![l] = None] /\ burned' = burned \union {l}
  BY <1>1 DEF DeleteToken
<1> DEFINE r == [handler[h] EXCEPT !.pc = "save"]
<1>3. handler' = [handler EXCEPT ![h] = r] /\ handler[h].pc = "delete"
  BY DEF DeleteToken, At
<1>4. handler[h] \in InProgress
  BY DEF TypeOK
<1>5. /\ r \in InProgress /\ r.pc = "save" /\ r.info = handler[h].info
      /\ r.login = l /\ r.op = handler[h].op
  BY <1>1, <1>4 DEF InProgress
<1> HIDE DEF r
<1>6. handler' \in [Handler -> InProgress] /\ handler'[h] = r /\ Only(h)
  BY <1>3, <1>5, GoesOn
<1>7. HandlerInv(h)'
  BY <1>1, <1>3, <1>5, <1>6 DEF LoginInv, HandlerInv, DeleteToken
<1>8. Alone(h, l) /\ Solo'
  BY <1>1, <1>3, <1>5, <1>6, Busy DEF DeleteToken
<1>9. Grows /\ Apart(l) /\ burned' \subseteq Login
  BY <1>2 DEF DeleteToken, Grows, Better, Apart, Untouched, TypeOK
<1>10. SessionsInv'
  BY <1>9, SessionsGrow DEF DeleteToken, LoginInv
<1>11. /\ logins' \in [Login -> LoginInfo \union {None}] /\ Kept(l)'
       /\ l \notin shared' => wrong'[l] <= MaxAttempts + uncounted'[l]
  BY <1>1, <1>2 DEF Kept, TypeOK, DeleteToken, LoginInv
<1>12. LoginInv'
  BY <1>1, <1>6, <1>7, <1>8, <1>9, <1>10, <1>11, OneLogin
<1>13. QED
  BY <1>6, <1>9, <1>11, <1>12 DEF TypeOK, DeleteToken

LEMMA WriteTokenKeeps ==
  ASSUME TypeOK, LoginInv, NEW h \in Handler, WriteToken(h)
  PROVE  TypeOK' /\ LoginInv'
<1>1. PICK l \in Login, info \in LoginInfo :
        /\ l = handler[h].login /\ info = handler[h].info /\ l \in opened
        /\ info.step \notin {"passkey", "passwordVerification"} /\ info.user \in User
        /\ info.step = "onboardTotp" => Require2fa
        /\ IF handler[h].op \in {"password", "passkey"} THEN handler[h].user = info.user
           ELSE handler[h].user = None /\ Proven(passed[l], info.user)
        /\ l \notin shared =>
              /\ l \notin burned
              /\ InTurn(users, passed[l] \union {<<Factor(handler[h].op), info.user>>}, info)
  BY DEF WriteToken, At, LoginInv, HandlerInv, TypeOK
<1>2. /\ handler[h].pc = "write" /\ handler[h].op \in Operation /\ handler[h].op # "finish"
      /\ handler[h].op = "onboard" => Require2fa
  BY DEF WriteToken, At, LoginInv, HandlerInv
<1> DEFINE f == Factor(handler[h].op)
<1>3. Prover(handler[h]) = info.user /\ f \in Operation
  BY <1>1, <1>2 DEF Prover, Factor, Operation
<1>4. /\ logins' = [logins EXCEPT ![l] = info]
      /\ passed' = [passed EXCEPT ![l] = @ \union {<<f, info.user>>}]
  BY <1>1, <1>3 DEF WriteToken
<1>5. handler[h].op \in {"password", "passkey"} => f = handler[h].op
  BY DEF Factor
<1>6. /\ l \notin shared => InTurn(users, passed[l] \union {<<f, info.user>>}, info)
      /\ Proven(passed[l] \union {<<f, info.user>>}, info.user)
  BY <1>1, <1>5 DEF Proven
<1> HIDE DEF f
<1>7. /\ handler' \in [Handler -> InProgress] /\ Only(h) /\ HandlerInv(h)'
      /\ handler'[h].login = handler[h].login \/ handler'[h] = Idle
  <2>1. CASE handler[h].op # "onboard"
    BY <2>1, Ends DEF WriteToken
  <2>2. CASE handler[h].op = "onboard"
    <3> DEFINE r == [handler[h] EXCEPT !.pc = "save"]
    <3>1. handler' = [handler EXCEPT ![h] = r] /\ handler[h] \in InProgress
      BY <2>2 DEF WriteToken, TypeOK
    <3>2. r \in InProgress /\ r.pc = "save" /\ r.login = l /\ r.op = "onboard"
      BY <1>1, <2>2, <3>1 DEF InProgress
    <3> HIDE DEF r
    <3>3. handler' \in [Handler -> InProgress] /\ handler'[h] = r /\ Only(h)
      BY <3>1, <3>2, GoesOn
    <3>4. HandlerInv(h)'
      BY <1>1, <1>2, <2>2, <3>2, <3>3 DEF HandlerInv, WriteToken, Operation
    <3>5. QED
      BY <1>1, <3>2, <3>3, <3>4
  <2>3. QED
    BY <2>1, <2>2
<1>8. Alone(h, l) /\ Solo'
  BY <1>1, <1>2, <1>7, Busy DEF WriteToken
<1>9. /\ Grows /\ Apart(l) /\ burned' \subseteq Login
      /\ passed'[l] = passed[l] \union {<<f, info.user>>} /\ logins'[l] = info
  BY <1>4 DEF WriteToken, Grows, Better, Apart, Untouched, TypeOK
<1>10. SessionsInv'
  BY <1>9, SessionsGrow DEF WriteToken, LoginInv
<1>11. Sound(passed'[l], info)
  BY <1>1, <1>6, <1>9 DEF Sound
<1>12. Kept(l)'
  BY <1>1, <1>6, <1>9, <1>11 DEF Kept, WriteToken
<1>13. l \notin shared' => wrong'[l] <= MaxAttempts + uncounted'[l]
  BY DEF WriteToken, LoginInv
<1>14. LoginInv'
  BY <1>1, <1>7, <1>8, <1>9, <1>10, <1>12, <1>13, OneLogin
<1>15. /\ logins' \in [Login -> LoginInfo \union {None}]
       /\ passed' \in [Login -> SUBSET (Operation \X User)]
  BY <1>1, <1>3, <1>4 DEF TypeOK
<1>16. QED
  BY <1>7, <1>14, <1>15 DEF TypeOK, WriteToken

-----------------------------------------------------------------------------
(* The next step of a login.                                               *)

LEMMA NextStepIs ==
  ASSUME NEW step \in Step \ {"finish"}, NEW u \in User
  PROVE  /\ NextStep(step, u) \in Step \ {"passkey", "passwordVerification"}
         /\ NextStep(step, u) = "onboardTotp" => Require2fa
  BY DEF NextStep, AfterReset, AfterEmail, Step

\* A handler that takes the step a login is at leads it to a step before which all
\* others were taken.
LEMMA NextInTurn ==
  ASSUME users \in [User -> UserRow], NEW later, NEW op \in Operation \ {"finish"}, NEW u \in User,
         later = IF op = "reset" THEN [users EXCEPT ![u].temporary = FALSE] ELSE users,
         NEW P, NEW info \in LoginInfo, InTurn(users, P, info),
         op # "passkey" => info.step # "finish",
         op = "password" => info.step = "passwordVerification",
         op \notin {"password", "passkey"} => info.step \in StepOf(op) /\ info.user = u,
         RowsAllow(op, u),
         NEW new \in LoginInfo, new.user = u,
         new.step = NextStep(IF op = "passkey" THEN "passkey" ELSE info.step, u)
  PROVE  InTurn(later, P \union {<<Factor(op), u>>}, new)
<1>1. later[u].verified = users[u].verified /\ later[u].totp = users[u].totp
      /\ (later[u].temporary => users[u].temporary /\ op # "reset")
  BY DEF UserRow
<1>2. CASE op = "password"
  BY <1>1, <1>2 DEF InTurn, NextStep, AfterReset, AfterEmail, Factor
<1>3. CASE op = "passkey"
  BY <1>3 DEF InTurn, Factor
<1>4. CASE op = "reset"
  BY <1>1, <1>4 DEF InTurn, NextStep, AfterReset, AfterEmail, Factor, StepOf
<1>5. CASE op = "email"
  BY <1>1, <1>5 DEF InTurn, NextStep, AfterReset, AfterEmail, Factor, StepOf, RowsAllow
<1>6. CASE op \in {"onboard", "totp"}
  BY <1>1, <1>6 DEF InTurn, NextStep, Factor, StepOf
<1>7. QED
  BY <1>2, <1>3, <1>4, <1>5, <1>6 DEF Operation

\* The rows after a new password, a second factor and a verified mail.
LEMMA PasswordReset ==
  ASSUME users \in [User -> UserRow], NEW u \in User
  PROVE  /\ [users EXCEPT ![u].temporary = FALSE] \in [User -> UserRow]
         /\ Better(users, [users EXCEPT ![u].temporary = FALSE])
<1> DEFINE row == [users[u] EXCEPT !.temporary = FALSE]
<1>1. /\ row \in UserRow /\ row.temporary = FALSE
      /\ row.verified = users[u].verified /\ row.totp = users[u].totp
  BY DEF UserRow
<1> HIDE DEF row
<1>2. [users EXCEPT ![u] = row] \in [User -> UserRow] /\ Better(users, [users EXCEPT ![u] = row])
  BY <1>1 DEF Better
<1>3. QED
  BY <1>2 DEF row

LEMMA TotpSaved ==
  ASSUME users \in [User -> UserRow], NEW u, Require2fa
  PROVE  /\ [users EXCEPT ![u].totp = TRUE] \in [User -> UserRow]
         /\ Better(users, [users EXCEPT ![u].totp = TRUE])
<1> DEFINE row == [users[u] EXCEPT !.totp = TRUE]
<1>1. CASE u \in User
  <2>1. /\ row \in UserRow
        /\ row.verified = users[u].verified /\ row.temporary = users[u].temporary
    BY <1>1 DEF UserRow
  <2> HIDE DEF row
  <2>2. [users EXCEPT ![u] = row] \in [User -> UserRow] /\ Better(users, [users EXCEPT ![u] = row])
    BY <2>1 DEF Better
  <2>3. QED
    BY <2>2 DEF row
<1>2. CASE u \notin User
  BY <1>2 DEF Better
<1>3. QED
  BY <1>1, <1>2

LEMMA MailVerified ==
  ASSUME users \in [User -> UserRow], NEW u \in User
  PROVE  /\ [users EXCEPT ![u].verified = TRUE] \in [User -> UserRow]
         /\ Better(users, [users EXCEPT ![u].verified = TRUE])
<1> DEFINE row == [users[u] EXCEPT !.verified = TRUE]
<1>1. /\ row \in UserRow /\ row.verified = TRUE
      /\ row.temporary = users[u].temporary /\ row.totp = users[u].totp
  BY DEF UserRow
<1> HIDE DEF row
<1>2. [users EXCEPT ![u] = row] \in [User -> UserRow] /\ Better(users, [users EXCEPT ![u] = row])
  BY <1>1 DEF Better
<1>3. QED
  BY <1>2 DEF row

LEMMA MutateKeeps ==
  ASSUME TypeOK, LoginInv, NEW h \in Handler, Mutate(h)
  PROVE  TypeOK' /\ LoginInv'
<1> DEFINE old == handler[h]
<1>1. PICK l \in Login, info \in LoginInfo, op \in Operation \ {"finish"} :
        /\ l = old.login /\ info = old.info /\ op = old.op /\ l \in opened /\ Sound(passed[l], info)
        /\ op = "onboard" => Require2fa
        /\ IF op \in {"password", "passkey"} THEN old.user \in User
           ELSE old.user = None /\ info.step \in StepOf(op)
        /\ l \notin shared => /\ l \notin burned /\ InTurn(users, passed[l], info)
                              /\ op = "password" => info.step = "passwordVerification"
  BY DEF Mutate, At, LoginInv, HandlerInv, Sound, TypeOK
<1>2. PICK u \in User : u = IF op \in {"password", "passkey"} THEN old.user ELSE info.user
  <2>1. CASE op \in {"password", "passkey"}
    BY <1>1, <2>1
  <2>2. CASE op \notin {"password", "passkey"}
    <3>1. info.step # "passwordVerification"
      BY <1>1, <2>2 DEF StepOf, Operation
    <3>2. info.user \in User
      BY <1>1, <3>1 DEF Sound, LoginInfo
    <3>3. QED
      BY <2>2, <3>2
  <2>3. QED
    BY <2>1, <2>2
<1>3. PICK mutated \in LoginInfo :
        /\ mutated = Mutated(old) /\ mutated.user = u
        /\ mutated.step = IF op = "passkey" THEN "passkey" ELSE info.step
  <2>1. 0 \in 0 .. MaxAttempts - 1 /\ "passkey" \in Step
    BY DEF Step
  <2>2. CASE op = "password"
    <3>1. Mutated(old) = [info EXCEPT !.user = u, !.attempts = 0]
      BY <1>1, <1>2, <2>2 DEF Mutated
    <3>2. /\ [info EXCEPT !.user = u, !.attempts = 0] \in LoginInfo
          /\ [info EXCEPT !.user = u, !.attempts = 0].user = u
          /\ [info EXCEPT !.user = u, !.attempts = 0].step = info.step
      BY <2>1 DEF LoginInfo
    <3>3. QED
      BY <2>2, <3>1, <3>2
  <2>3. CASE op = "passkey"
    <3>1. Mutated(old) = [info EXCEPT !.user = u, !.step = "passkey"]
      BY <1>1, <1>2, <2>3 DEF Mutated
    <3>2. /\ [info EXCEPT !.user = u, !.step = "passkey"] \in LoginInfo
          /\ [info EXCEPT !.user = u, !.step = "passkey"].user = u
          /\ [info EXCEPT !.user = u, !.step = "passkey"].step = "passkey"
      BY <2>1 DEF LoginInfo
    <3>3. QED
      BY <2>3, <3>1, <3>2
  <2>4. CASE op \notin {"password", "passkey"}
    BY <1>1, <1>2, <2>4 DEF Mutated
  <2>5. QED
    BY <2>2, <2>3, <2>4
<1>4. /\ old.pc = "mutate" /\ RowsAllow(op, u) /\ mutated.step # "finish"
      /\ users' = IF op = "reset" THEN [users EXCEPT ![u].temporary = FALSE] ELSE users
      /\ handler' = [handler EXCEPT ![h].pc = "write",
            ![h].info = [mutated EXCEPT !.step = NextStep(mutated.step, u)]]
  BY <1>1, <1>3 DEF Mutate, At
<1> DEFINE to == NextStep(mutated.step, u)
           new == [mutated EXCEPT !.step = to]
           r == [old EXCEPT !.pc = "write", !.info = new]
<1>5. /\ to \in Step \ {"passkey", "passwordVerification"}
      /\ to = "onboardTotp" => Require2fa
  <2>1. mutated.step \in Step \ {"finish"}
    BY <1>4 DEF LoginInfo
  <2>2. QED
    BY <2>1, NextStepIs
<1>6. handler' = [handler EXCEPT ![h] = r]
  BY <1>4
<1> HIDE DEF to
<1>7. new \in LoginInfo /\ new.step = to /\ new.user = u
  BY <1>3, <1>5 DEF LoginInfo
<1> HIDE DEF new
<1>8. old \in InProgress
  BY DEF TypeOK
<1>9. /\ r \in InProgress /\ r.pc = "write" /\ r.info = new /\ r.login = l /\ r.op = op
      /\ r.user = old.user
  BY <1>1, <1>7, <1>8 DEF InProgress
<1> HIDE DEF r
<1>10. handler' \in [Handler -> InProgress] /\ handler'[h] = r /\ Only(h)
  BY <1>6, <1>9, GoesOn
<1>11. ASSUME l \notin shared
       PROVE  InTurn(users', passed[l] \union {<<Factor(op), u>>}, new)
  <2>1. new.step = NextStep(IF op = "passkey" THEN "passkey" ELSE info.step, u)
    BY <1>3, <1>7 DEF to
  <2>2. op \notin {"password", "passkey"} => info.step \in StepOf(op) /\ info.user = u
    BY <1>1, <1>2
  <2>3. op # "passkey" => info.step # "finish"
    BY <1>3, <1>4
  <2>4. users \in [User -> UserRow]
    BY DEF TypeOK
  <2>5. QED
    BY <1>1, <1>4, <1>7, <1>11, <2>1, <2>2, <2>3, <2>4, NextInTurn
<1>12. op \notin {"password", "passkey"} => Proven(passed[l], u)
  BY <1>1, <1>2 DEF Sound
<1>13. HandlerInv(h)'
  <2>1. /\ handler'[h].pc = "write" /\ handler'[h].op = op /\ handler'[h].login = l
        /\ handler'[h].info = new /\ handler'[h].user = old.user
    BY <1>9, <1>10
  <2>2. UNCHANGED <<opened, shared, burned, passed>>
    BY DEF Mutate
  <2>3. /\ new.step \notin {"passkey", "passwordVerification"} /\ new.user \in User
        /\ new.step = "onboardTotp" => Require2fa
    BY <1>5, <1>7
  <2>4. IF op \in {"password", "passkey"} THEN old.user = new.user
        ELSE old.user = None /\ Proven(passed[l], new.user)
    BY <1>1, <1>2, <1>7, <1>12
  <2>5. l \notin shared => /\ InTurn(users', passed[l] \union {<<Factor(op), new.user>>}, new)
                           /\ l \notin burned
    BY <1>1, <1>7, <1>11
  <2>6. QED
    BY <1>1, <1>7, <2>1, <2>2, <2>3, <2>4, <2>5 DEF HandlerInv
<1>14. Alone(h, l) /\ Solo'
  BY <1>1, <1>4, <1>9, <1>10, Busy DEF Mutate
<1>15. users' \in [User -> UserRow] /\ Better(users, users')
  BY <1>4, PasswordReset DEF TypeOK, Better
<1>16. Grows /\ burned' \subseteq Login /\ \A m \in Login : Untouched(m)
  BY <1>15 DEF Mutate, Grows, Untouched, TypeOK
<1>17. Apart(l)
  BY <1>16 DEF Apart, Mutate
<1>18. SessionsInv' /\ Kept(l)' /\ (l \notin shared' => wrong'[l] <= MaxAttempts + uncounted'[l])
  BY <1>4, <1>10, <1>16, SessionsGrow, LoginKept, PendingStays DEF Mutate, LoginInv
<1>19. LoginInv'
  BY <1>1, <1>10, <1>13, <1>14, <1>16, <1>17, <1>18, OneLogin
<1>20. QED
  BY <1>10, <1>15, <1>19 DEF TypeOK, Mutate

LEMMA CloseScopeKeeps ==
  ASSUME TypeOK, LoginInv, NEW h \in Handler, CloseScope(h)
  PROVE  TypeOK' /\ LoginInv'
<1> DEFINE r == handler[h]
<1>1. PICK l \in opened : /\ l = r.login /\ l \in Login /\ r.pc = "save"
                          /\ r.op # "finish" => Require2fa
  BY DEF CloseScope, At, LoginInv, HandlerInv, TypeOK
<1>2. /\ handler' \in [Handler -> InProgress] /\ handler'[h] = Idle /\ Only(h) /\ HandlerInv(h)'
      /\ handler[h].pc # "idle"
  BY Ends DEF CloseScope, At
<1>3. Alone(h, l) /\ Solo'
  BY <1>1, <1>2, Busy DEF CloseScope
<1>4. users' \in [User -> UserRow] /\ Better(users, users')
  <2>1. CASE r.op = "finish"
    BY <2>1 DEF CloseScope, TypeOK, Better
  <2>2. CASE r.op # "finish"
    <3>1. users' = [users EXCEPT ![r.info.user].totp = TRUE] /\ Require2fa
      BY <1>1, <2>2 DEF CloseScope
    <3>2. QED
      BY <3>1, TotpSaved DEF TypeOK
  <2>3. QED
    BY <2>1, <2>2
<1>5. Grows /\ burned' \subseteq Login /\ \A m \in Login : Untouched(m)
  BY <1>4 DEF CloseScope, Grows, Untouched, TypeOK
<1>6. Apart(l)
  BY <1>5 DEF Apart, CloseScope
<1>7. Kept(l)' /\ (l \notin shared' => wrong'[l] <= MaxAttempts + uncounted'[l])
  BY <1>1, <1>2, <1>5, LoginKept, PendingStays DEF CloseScope, LoginInv
<1>8. SessionsInv' /\ sessions' \subseteq Login \X User
  <2>1. CASE r.op = "finish"
    <3>1. PICK info \in LoginInfo :
            /\ info = r.info /\ info.step = "finish" /\ Sound(passed[l], info)
            /\ l \notin shared => InTurn(users, passed[l], info)
      BY <1>1, <2>1 DEF LoginInv, HandlerInv
    <3>2. PICK u \in User : u = info.user
      BY <3>1 DEF Sound, LoginInfo
    <3>3. Proven(passed[l], u) /\ (l \notin shared => StepsTaken(l, u))
      BY <3>1, <3>2 DEF Sound, InTurn, StepsTaken
    <3>4. sessions' = sessions \union {<<l, u>>}
      BY <1>1, <2>1, <3>1, <3>2 DEF CloseScope
    <3>5. /\ Proven(passed'[l], u) /\ (l \notin shared' => StepsTaken(l, u)')
          /\ passed' = passed /\ shared' = shared
      BY <1>1, <1>5, <3>3, StepsGrow DEF CloseScope
    <3>6. ASSUME NEW m \in Login, NEW w \in User, <<m, w>> \in sessions'
          PROVE  Proven(passed'[m], w) /\ (m \notin shared' => StepsTaken(m, w)')
      <4>1. CASE <<m, w>> \in sessions
        BY <1>5, <3>5, <4>1, StepsGrow DEF LoginInv, SessionsInv
      <4>2. CASE m = l /\ w = u
        BY <3>5, <4>2
      <4>3. QED
        BY <3>4, <3>6, <4>1, <4>2
    <3>7. QED
      BY <1>1, <3>4, <3>6 DEF SessionsInv, TypeOK
  <2>2. CASE r.op # "finish"
    BY <1>5, <2>2, SessionsGrow DEF CloseScope, LoginInv, TypeOK
  <2>3. QED
    BY <2>1, <2>2
<1>9. LoginInv'
  BY <1>1, <1>2, <1>3, <1>5, <1>6, <1>7, <1>8, OneLogin
<1>10. QED
  BY <1>2, <1>4, <1>8, <1>9 DEF TypeOK, CloseScope

-----------------------------------------------------------------------------
(* The environment.                                                        *)

LEMMA OpenLoginKeeps == ASSUME TypeOK, LoginInv, OpenLogin PROVE TypeOK' /\ LoginInv'
<1> DEFINE new == [step |-> "passwordVerification", user |-> None, attempts |-> 0]
<1>1. PICK l \in Login \ opened :
        logins' = [logins EXCEPT ![l] = new] /\ opened' = opened \union {l}
  BY DEF OpenLogin
<1>2. new \in LoginInfo /\ new.step = "passwordVerification" /\ new.user = None /\ new.attempts = 0
  BY DEF LoginInfo, Step
<1> HIDE DEF new
<1>3. /\ logins' \in [Login -> LoginInfo \union {None}] /\ opened' \subseteq Login
      /\ logins'[l] = new
  BY <1>1, <1>2 DEF TypeOK
<1>4. TypeOK'
  BY <1>3 DEF OpenLogin, TypeOK
<1>5. Grows
  BY <1>1 DEF Grows, Better, OpenLogin
<1>6. \A m \in Login \ {l} : Untouched(m)
  BY <1>1 DEF Untouched, OpenLogin, TypeOK
<1>7. ASSUME NEW h \in Handler PROVE HandlerInv(h)'
  <2>1. HandlerInv(h) /\ handler'[h] = handler[h]
    BY DEF LoginInv, OpenLogin
  <2>2. handler[h].pc # "idle" => handler[h].login \in Login \ {l}
    BY <2>1 DEF HandlerInv, TypeOK
  <2>3. QED
    BY <1>5, <1>6, <2>1, <2>2, HandlerKept DEF OpenLogin
<1>8. ASSUME NEW m \in Login PROVE Kept(m)' /\ (m \notin opened' => wrong'[m] = 0)
  <2>1. CASE m = l
    <3>1. l \notin burned /\ wrong[l] = 0 /\ uncounted[l] \in Nat
      BY DEF LoginInv, Begun, TypeOK
    <3>2. Sound(passed'[l], new) /\ InTurn(users', passed'[l], new)
      BY <1>2 DEF Sound, InTurn
    <3>3. QED
      BY <1>1, <1>2, <1>3, <2>1, <3>1, <3>2 DEF Kept, OpenLogin
  <2>2. CASE m # l
    <3>1. Kept(m)'
      BY <1>5, <1>6, <2>2, LoginKept DEF LoginInv, Pending, At, OpenLogin
    <3>2. QED
      BY <1>1, <3>1 DEF LoginInv, OpenLogin
  <2>3. QED
    BY <2>1, <2>2
<1>9. Begun' /\ Solo'
  BY <1>1, <1>6 DEF LoginInv, Begun, Solo, At, OpenLogin, Untouched
<1>10. SessionsInv'
  BY <1>5, SessionsGrow DEF LoginInv, OpenLogin
<1>11. \A m \in Login \ shared' : wrong'[m] <= MaxAttempts + uncounted'[m]
  BY DEF LoginInv, OpenLogin
<1>12. QED
  BY <1>4, <1>7, <1>8, <1>9, <1>10, <1>11 DEF LoginInv

\* The token expires, or a user verifies the mail.
LEMMA OutsideKeeps ==
  ASSUME TypeOK, LoginInv, (\E l \in Login : Expire(l)) \/ (\E u \in User : VerifyEmail(u))
  PROVE  TypeOK' /\ LoginInv'
<1>1. /\ UNCHANGED <<handler, opened, shared, burned, wrong, uncounted, passed, sessions>>
      /\ \A l \in Login : logins'[l] = logins[l] \/ logins'[l] = None
      /\ logins' \in [Login -> LoginInfo \union {None}]
      /\ users' \in [User -> UserRow] /\ Better(users, users')
  <2>1. ASSUME NEW l \in Login, Expire(l) PROVE <1>1!:
    BY <2>1 DEF Expire, TypeOK, Better
  <2>2. ASSUME NEW u \in User, VerifyEmail(u) PROVE <1>1!:
    BY <2>2, MailVerified DEF VerifyEmail, TypeOK
  <2>3. QED
    BY <2>1, <2>2
<1>2. Grows /\ \A l \in Login : Untouched(l)
  BY <1>1 DEF Grows, Untouched
<1>3. ASSUME NEW h \in Handler PROVE HandlerInv(h)'
  <2>1. HandlerInv(h) /\ (handler[h].pc # "idle" => handler[h].login \in Login)
    BY DEF LoginInv, HandlerInv, TypeOK
  <2>2. QED
    BY <1>1, <1>2, <2>1, HandlerKept
<1>4. \A l \in Login : Kept(l)'
  BY <1>1, <1>2, LoginKept DEF LoginInv, Pending, At
<1>5. SessionsInv'
  BY <1>1, <1>2, SessionsGrow DEF LoginInv
<1>6. Begun' /\ Solo'
  BY <1>1 DEF LoginInv, Begun, Solo, At
<1>7. /\ \A l \in Login \ shared' : wrong'[l] <= MaxAttempts + uncounted'[l]
      /\ \A l \in Login : l \notin opened' => wrong'[l] = 0
  BY <1>1 DEF LoginInv
<1>8. QED
  BY <1>1, <1>3, <1>4, <1>5, <1>6, <1>7 DEF LoginInv, TypeOK

-----------------------------------------------------------------------------
LEMMA InvInit == Init => TypeOK /\ LoginInv
<1> SUFFICES ASSUME Init PROVE TypeOK /\ LoginInv
  OBVIOUS
<1>1. TypeOK
  BY IdleType DEF Init, TypeOK
<1>2. Begun /\ Solo /\ SessionsInv
  BY IdleType DEF Init, Begun, Solo, SessionsInv, At
<1>3. \A l \in Login : Kept(l) /\ wrong[l] = 0 /\ uncounted[l] = 0
  BY DEF Init, Kept
<1>4. \A h \in Handler : HandlerInv(h)
  BY IdleType DEF Init, HandlerInv
<1>5. QED
  BY <1>1, <1>2, <1>3, <1>4 DEF LoginInv

LEMMA InvNext == TypeOK /\ LoginInv /\ [Next]_vars => (TypeOK /\ LoginInv)'
<1> SUFFICES ASSUME TypeOK, LoginInv, [Next]_vars PROVE TypeOK' /\ LoginInv'
  OBVIOUS
<1>1. CASE OpenLogin
  BY <1>1, OpenLoginKeeps
<1>2. CASE (\E l \in Login : Expire(l)) \/ (\E u \in User : VerifyEmail(u))
  BY <1>2, OutsideKeeps
<1>3. ASSUME NEW h \in Handler, HandlerStep(h) PROVE TypeOK' /\ LoginInv'
  <2>1. ASSUME NEW l \in Login, ReadForPassword(h, l) PROVE TypeOK' /\ LoginInv'
    BY <2>1, ReadForPasswordKeeps
  <2>2. ASSUME NEW l \in Login, ReadFinished(h, l) PROVE TypeOK' /\ LoginInv'
    BY <2>2, ReadFinishedKeeps
  <2>3. ASSUME NEW l \in Login, NEW op \in {"reset", "email", "onboard", "totp", "passkey"},
               NEW u \in User \union {None}, BeginUpdate(h, l, op, u)
        PROVE  TypeOK' /\ LoginInv'
    BY <2>3, BeginUpdateKeeps
  <2>4. CASE WrongPassword(h)
    BY <2>4, WrongPasswordKeeps
  <2>14. CASE CountAttempt(h)
    BY <2>14, CountAttemptKeeps
  <2>15. CASE CountFails(h)
    BY <2>15, CountFailsKeeps
  <2>5. ASSUME NEW u \in User, RightPassword(h, u) PROVE TypeOK' /\ LoginInv'
    BY <2>5, RightPasswordKeeps
  <2>6. CASE ReadAgain(h)
    BY <2>6, ReadAgainKeeps
  <2>7. CASE Mutate(h)
    BY <2>7, MutateKeeps
  <2>8. CASE WriteToken(h)
    BY <2>8, WriteTokenKeeps
  <2>9. CASE WriteFails(h) \/ DeleteFails(h)
    BY <2>9, FailureKeeps
  <2>10. CASE DeleteToken(h)
    BY <2>10, DeleteTokenKeeps
  <2>11. CASE CloseScope(h)
    BY <2>11, CloseScopeKeeps
  <2>12. CASE Abandon(h)
    BY <2>12, AbandonKeeps
  <2>13. QED
    BY <1>3, <2>1, <2>2, <2>3, <2>4, <2>5, <2>6, <2>7, <2>8, <2>9, <2>10, <2>11, <2>12, <2>14, <2>15
       DEF HandlerStep
<1>4. CASE UNCHANGED vars
  <2>1. Grows /\ \A l \in Login : Untouched(l)
    BY <1>4 DEF vars, Grows, Better, Untouched
  <2>2. \A h \in Handler : HandlerInv(h)'
    BY <1>4, <2>1, HandlerKept DEF vars, LoginInv, HandlerInv, TypeOK
  <2>3. (\A l \in Login : Kept(l)') /\ SessionsInv'
    BY <1>4, <2>1, LoginKept, SessionsGrow DEF vars, LoginInv, Pending, At
  <2>4. Begun' /\ Solo'
    BY <1>4 DEF vars, LoginInv, Begun, Solo, At
  <2>5. QED
    BY <1>4, <2>2, <2>3, <2>4 DEF vars, LoginInv, TypeOK
<1>5. QED
  BY <1>1, <1>2, <1>3, <1>4 DEF Next

\* The state is always of the form the actions assume.
THEOREM Typing == Spec => []TypeOK
<1>1. Init => TypeOK /\ LoginInv
  BY InvInit
<1>2. TypeOK /\ LoginInv /\ [Next]_vars => (TypeOK /\ LoginInv)'
  BY InvNext
<1>3. QED
  BY <1>1, <1>2, PTL DEF Spec

LEMMA Invariance == Spec => [](TypeOK /\ LoginInv)
<1>1. Init => TypeOK /\ LoginInv
  BY InvInit
<1>2. TypeOK /\ LoginInv /\ [Next]_vars => (TypeOK /\ LoginInv)'
  BY InvNext
<1>3. QED
  BY <1>1, <1>2, PTL DEF Spec

\* Every session is for a user who presented the password or a passkey in that login,
\* however the requests for its token overlap (VerifyPassword, FinishPasskeyLogin and
\* FinishLogin).
THEOREM Proved == Spec => []UserProved
<1>1. TypeOK /\ LoginInv => UserProved
  BY DEF LoginInv, SessionsInv, Proven, UserProved
<1>2. QED
  BY <1>1, Invariance, PTL

\* Where no two requests for the token overlapped, a session is for a user who took
\* every step that the rows and the virtual server call for, whatever the handlers of
\* other logins do to the same rows, and whatever fails (DetermineNextLoginStep).
THEOREM Steps == Spec => []StepsTakenInTurn
<1>1. TypeOK /\ LoginInv => StepsTakenInTurn
  BY DEF LoginInv, SessionsInv, StepsTakenInTurn
<1>2. QED
  BY <1>1, Invariance, PTL

\* Without overlapping requests no more than MaxAttempts wrong passwords are checked for
\* a token, and one more for each that the store did not count, and a token that a
\* handler deleted is never found again (VerifyPassword).
THEOREM Cap == Spec => []BurnedForGood
<1>1. TypeOK /\ LoginInv => BurnedForGood
  BY DEF LoginInv, Kept, BurnedForGood
<1>2. QED
  BY <1>1, Invariance, PTL

=============================================================================
