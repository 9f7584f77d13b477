-------------------------- MODULE UnitOfWorkProofs ---------------------------
(***************************************************************************)
(* Theorems about UnitOfWork, for any number of users, instances and       *)
(* requests, any names, and any number of failures and crashes.            *)
(***************************************************************************)
EXTENDS UnitOfWork, TLAPS

USE UnitAssumption

-----------------------------------------------------------------------------
(* The inductive invariant.                                                *)

\* What the database holds: the user of a saved mail, and only users once created.
Rows ==
    /\ \A m \in queued : row[m.user] # None
    /\ \A u \in User : row[u] # None => u \in created

\* A run of the job removes nothing that it has not delivered.
Sent == \A i \in Instance : job[i].sent \subseteq delivered

\* The operations that insert a user.
Registers == {"register", "create"}
USE DEF Registers

\* What a request has read, and what it tracks for its operation.
Registering(q) ==
    LET r == request[q] IN
    r.op \in Registers =>
        /\ r.mail = Registration(Of(q)) /\ r.verified \in BOOLEAN /\ Of(q) \in created
        /\ "update" \notin r.tracked /\ r.pc \notin {"read", "token"}
        /\ "mail" \in r.tracked => "user" \in r.tracked
        /\ "user" \in r.tracked /\ "mail" \notin r.tracked => Of(q) \notin announced
        /\ r.pc \in {"event", "mail"} =>
              row[Of(q)] = None /\ "user" \in r.tracked /\ "mail" \notin r.tracked

Changing(q) ==
    LET r == request[q] IN
    /\ r.op \notin Registers => row[Of(q)] # None /\ "user" \notin r.tracked
    /\ r.op = "resend" => "update" \notin r.tracked /\ r.pc \notin {"read", "token"}
    /\ r.op \in {"verify", "patch"} => "mail" \notin r.tracked /\ r.pc \notin {"event", "mail"}
    /\ r.op = "verify" => r.mail \in delivered

RequestInv(q) ==
    request[q].pc # "idle" =>
        /\ request[q].mail \in Mail /\ request[q].op \in {"register", "create", "resend", "verify", "patch"}
        /\ Registering(q) /\ Changing(q)

\* An identity is registered once.
OneRegistration ==
    \A p, q \in Request :
        /\ ~At(p, "idle") /\ request[p].op \in Registers
        /\ ~At(q, "idle") /\ request[q].op \in Registers
        /\ Of(p) = Of(q)
        => p = q

UnitInv ==
    /\ Rows /\ Sent /\ OneRegistration /\ VerifiedByMail /\ RegisteredWithMail
    /\ \A q \in Request : RequestInv(q)

-----------------------------------------------------------------------------
(* What the steps leave true of the requests.                              *)

Grows ==
    /\ \A u \in User : row[u] # None => row'[u] # None
    /\ queued \subseteq queued' /\ delivered \subseteq delivered' /\ created \subseteq created'

\* The same request; what it read may have become stale.
Alike(r, s) ==
    /\ r.pc = s.pc /\ r.at = s.at /\ r.op = s.op /\ r.mail = s.mail
    /\ r.verified = s.verified /\ r.tracked = s.tracked
Remains(q) == Alike(request'[q], request[q]) \/ request'[q] = Idle

\* Nobody else inserts the user that a request registers, or announces it.
Still(q) ==
    request[q].pc # "idle" /\ request[q].op \in Registers =>
        /\ row[Of(q)] = None /\ request[q].pc \in {"event", "mail"} => row'[Of(q)] = None
        /\ Of(q) \in announced' => Of(q) \in announced

LEMMA IdleType == Idle \in InProgress /\ Idle.pc = "idle" /\ Sleeping \in Run /\ Sleeping.sent = {}
                  /\ Sleeping.todo = {}
  BY DEF Idle, InProgress, Nothing, Sleeping, Run

LEMMA RequestKept ==
  ASSUME TypeOK, Grows, NEW q \in Request, RequestInv(q), Still(q), Remains(q)
  PROVE  RequestInv(q)'
<1>1. CASE request'[q] = Idle
  BY <1>1, IdleType DEF RequestInv
<1>2. CASE Alike(request'[q], request[q])
  <2> SUFFICES ASSUME request[q].pc # "idle" PROVE RequestInv(q)'
    BY <1>2 DEF RequestInv, Alike
  <2>1. /\ request[q].mail \in Mail /\ request[q].op \in {"register", "create", "resend", "verify", "patch"}
        /\ Registering(q) /\ Changing(q)
    BY DEF RequestInv
  <2>2. Of(q)' = Of(q) /\ Of(q) \in User
    BY <1>2, <2>1 DEF Alike, Of, Mail
  <2>3. Registering(q)'
    BY <1>2, <2>1, <2>2 DEF Registering, Alike, Still, Grows
  <2>4. Changing(q)'
    BY <1>2, <2>1, <2>2 DEF Changing, Alike, Grows
  <2>5. QED
    BY <1>2, <2>1, <2>3, <2>4 DEF RequestInv, Alike
<1>3. QED
  BY <1>1, <1>2 DEF Remains

\* A request that goes on has begun before.
Stays(q) ==
    request'[q].pc # "idle" =>
        /\ request[q].pc # "idle" /\ request'[q].op = request[q].op
        /\ request'[q].mail = request[q].mail

LEMMA RemainsStays == ASSUME NEW q \in Request, Remains(q) PROVE Stays(q)
  BY IdleType DEF Remains, Stays, Alike

LEMMA OneKept ==
  ASSUME OneRegistration, \A q \in Request : Stays(q)
  PROVE  OneRegistration'
  BY DEF OneRegistration, Stays, At, Of

\* A step of one request that leaves the rows alone.
LEMMA Handles ==
  ASSUME TypeOK, UnitInv, NEW q \in Request, NEW r \in InProgress, request[q].pc # "idle",
         request' = [request EXCEPT ![q] = r],
         r.pc = "idle" \/ (r.op = request[q].op /\ r.mail = request[q].mail),
         r.pc # "idle" => r.at = request[q].at,
         RequestInv(q)', UNCHANGED <<row, outbox, delivered, up, job, created, queued, vouched, patches>>,
         tokens' \subseteq Mail, faults' \in 0..MaxFaults, announced \subseteq announced',
         announced' \subseteq created, RegisteredWithMail',
         \A p \in Request \ {q} : Still(p)
  PROVE  TypeOK' /\ UnitInv'
<1>1. request' \in [Request -> InProgress] /\ request'[q] = r
      /\ \A p \in Request \ {q} : request'[p] = request[p]
  BY DEF TypeOK
<1>2. Grows /\ \A p \in Request : Stays(p)
  BY <1>1 DEF Grows, Stays
<1>3. ASSUME NEW p \in Request \ {q} PROVE RequestInv(p)'
  BY <1>1, <1>2, <1>3, RequestKept DEF Remains, Alike, UnitInv
<1>4. OneRegistration'
  BY <1>2, OneKept DEF UnitInv
<1>5. Rows' /\ Sent' /\ VerifiedByMail'
  BY DEF UnitInv, Rows, Sent, VerifiedByMail
<1>6. UnitInv'
  BY <1>3, <1>4, <1>5 DEF UnitInv
<1>7. \A p \in Request : request'[p].pc # "idle" => request'[p].at \in up'
  BY <1>1 DEF TypeOK
<1>8. QED
  BY <1>1, <1>6, <1>7 DEF TypeOK

\* The rows and the announced registrations stay, so nothing changes for the others.
LEMMA Unmoved ==
  ASSUME row' = row, announced' = announced
  PROVE  \A q \in Request : Still(q)
  BY DEF Still

-----------------------------------------------------------------------------
(* The commands.                                                           *)

LEMMA FaultType == ASSUME TypeOK, Fault PROVE faults' \in 0..MaxFaults
  BY DEF TypeOK, Fault

LEMMA BeginKeeps ==
  ASSUME TypeOK, UnitInv, NEW q \in Request, NEW r \in InProgress, request[q].pc = "idle",
         request' = [request EXCEPT ![q] = r], RequestInv(q)', r.mail \in Mail, r.at \in up,
         UNCHANGED <<row, outbox, tokens, delivered, up, job, faults, queued, announced, vouched>>,
         created \subseteq created', created' \subseteq User, patches' \in 0..MaxPatches,
         r.op \in Registers => r.mail.user \notin created
  PROVE  TypeOK' /\ UnitInv'
<1>1. request' \in [Request -> InProgress] /\ request'[q] = r
      /\ \A p \in Request \ {q} : request'[p] = request[p]
  BY DEF TypeOK
<1>3. Grows /\ \A p \in Request : Still(p)
  BY DEF Grows, Still
<1>4. ASSUME NEW p \in Request \ {q} PROVE RequestInv(p)'
  BY <1>1, <1>3, <1>4, RequestKept DEF Remains, Alike, UnitInv
<1>5. OneRegistration'
  <2> SUFFICES ASSUME NEW f \in Request, NEW g \in Request,
                      request'[f].pc # "idle", request'[f].op \in Registers,
                      request'[g].pc # "idle", request'[g].op \in Registers,
                      request'[f].mail.user = request'[g].mail.user
               PROVE  f = g
    BY DEF OneRegistration, At, Of
  <2>1. ASSUME NEW p \in Request \ {q}, request'[p].pc # "idle", request'[p].op \in Registers
        PROVE  request'[p].mail.user \in created
    BY <1>1, <2>1 DEF UnitInv, RequestInv, Registering, Of
  <2>2. request'[q].op \in Registers => request'[q].mail.user \notin created
    BY <1>1
  <2>3. CASE f = q \/ g = q
    BY <2>1, <2>2, <2>3
  <2>4. CASE f # q /\ g # q
    BY <1>1, <2>4 DEF UnitInv, OneRegistration, At, Of
  <2>5. QED
    BY <2>3, <2>4
<1>6. Rows' /\ Sent' /\ VerifiedByMail' /\ RegisteredWithMail'
  BY DEF UnitInv, Rows, Sent, VerifiedByMail, RegisteredWithMail
<1>7. UnitInv'
  BY <1>4, <1>5, <1>6 DEF UnitInv
<1>8. \A p \in Request : request'[p].pc # "idle" => request'[p].at \in up'
  BY <1>1 DEF TypeOK
<1>9. QED
  BY <1>1, <1>7, <1>8 DEF TypeOK

\* A new user, by either of the two commands.
LEMMA InsertKeeps ==
  ASSUME TypeOK, UnitInv, NEW q \in Request, NEW i \in up, NEW u \in User, NEW vouch \in BOOLEAN,
         NEW op \in Registers, NEW pc \in {"save", "event"}, NewUser(u), UNCHANGED patches,
         Begin(q, i, pc, op, Registration(u), vouch, {"user"})
  PROVE  TypeOK' /\ UnitInv'
<1> DEFINE r == [pc |-> pc, at |-> i, op |-> op, mail |-> Registration(u),
                 current |-> FALSE, verified |-> vouch, tracked |-> {"user"}, stamped |-> FALSE]
<1>2. Begin(q, i, pc, op, Registration(u), vouch, {"user"}) /\ u \notin created
      /\ created' = created \union {u} /\ patches' = patches
  BY DEF NewUser
<1>3. /\ request' = [request EXCEPT ![q] = r]
      /\ UNCHANGED <<row, outbox, tokens, delivered, up, job, faults, queued, announced, vouched>>
      /\ request[q].pc = "idle"
  BY <1>2 DEF Begin, At
<1>4. Registration(u) \in Mail /\ Registration(u).user = u
  BY DEF Registration, Mail
<1>5. i \in Instance
  BY DEF TypeOK
<1>6. /\ r \in InProgress /\ r.pc = pc /\ r.op = op /\ r.mail = Registration(u)
      /\ r.at = i /\ r.verified = vouch /\ r.tracked = {"user"}
  BY <1>4, <1>5 DEF InProgress
<1> HIDE DEF r
<1>7. request'[q] = r
  BY <1>3 DEF TypeOK
<1>8. row[u] = None /\ u \notin announced
  BY <1>2 DEF UnitInv, Rows, TypeOK
<1>9. RequestInv(q)'
  <2>1. Of(q)' = u /\ request'[q].mail = Registration(Of(q)')
    BY <1>4, <1>6, <1>7 DEF Of
  <2>2. row'[u] = None /\ u \notin announced' /\ u \in created'
    BY <1>2, <1>3, <1>8
  <2>3. Registering(q)'
    BY <1>6, <1>7, <2>1, <2>2 DEF Registering
  <2>4. Changing(q)'
    BY <1>6, <1>7 DEF Changing
  <2>5. QED
    BY <1>4, <1>6, <1>7, <2>3, <2>4 DEF RequestInv
<1>10. created \subseteq created' /\ created' \subseteq User /\ patches' \in 0..MaxPatches
  BY <1>2 DEF TypeOK
<1>11. QED
  BY <1>2, <1>3, <1>4, <1>6, <1>9, <1>10, BeginKeeps

LEMMA RegisterUserKeeps ==
  ASSUME TypeOK, UnitInv, NEW q \in Request, NEW i \in up, NEW u \in User, RegisterUser(q, i, u)
  PROVE  TypeOK' /\ UnitInv'
  BY InsertKeeps DEF RegisterUser

LEMMA CreateUserKeeps ==
  ASSUME TypeOK, UnitInv, NEW q \in Request, NEW i \in up, NEW u \in User, NEW vouch \in BOOLEAN,
         CreateUser(q, i, u, vouch)
  PROVE  TypeOK' /\ UnitInv'
<1>1. PICK pc \in {"save", "event"} : pc = IF vouch THEN "save" ELSE "event"
  OBVIOUS
<1>2. NewUser(u) /\ UNCHANGED patches /\ Begin(q, i, pc, "create", Registration(u), vouch, {"user"})
  BY <1>1 DEF CreateUser
<1>3. QED
  BY <1>2, InsertKeeps

LEMMA ResendKeeps ==
  ASSUME TypeOK, UnitInv, NEW q \in Request, NEW i \in up, NEW u \in User, Resend(q, i, u)
  PROVE  TypeOK' /\ UnitInv'
<1> DEFINE m == [user |-> u, cause |-> "resend"]
           r == [pc |-> "event", at |-> i, op |-> "resend", mail |-> m,
                 current |-> FALSE, verified |-> None, tracked |-> {}, stamped |-> FALSE]
<1>1. Begin(q, i, "event", "resend", m, None, {}) /\ row[u] # None /\ created' = created /\ patches' = patches
  BY DEF Resend
<1>2. /\ request' = [request EXCEPT ![q] = r]
      /\ UNCHANGED <<row, outbox, tokens, delivered, up, job, faults, queued, announced, vouched>>
      /\ request[q].pc = "idle"
  BY <1>1 DEF Begin, At
<1>3. m \in Mail /\ m.user = u
  BY DEF Mail
<1>4. i \in Instance
  BY DEF TypeOK
<1> HIDE DEF m
<1>5. /\ r \in InProgress /\ r.pc = "event" /\ r.op = "resend" /\ r.mail = m
      /\ r.at = i /\ r.tracked = {}
  BY <1>3, <1>4 DEF InProgress
<1> HIDE DEF r
<1>6. request'[q] = r
  BY <1>2 DEF TypeOK
<1>7. RequestInv(q)'
  <2>1. Of(q)' = u /\ row'[u] # None
    BY <1>1, <1>2, <1>3, <1>5, <1>6 DEF Of
  <2>2. Registering(q)' /\ Changing(q)'
    BY <1>5, <1>6, <2>1 DEF Registering, Changing
  <2>3. QED
    BY <1>3, <1>5, <1>6, <2>2 DEF RequestInv
<1>8. created' \subseteq User /\ patches' \in 0..MaxPatches
  BY <1>1 DEF TypeOK
<1>9. QED
  BY <1>1, <1>2, <1>3, <1>5, <1>7, <1>8, BeginKeeps

\* The verification of an address, and the change of a user.
LEMMA ChangeKeeps ==
  ASSUME TypeOK, UnitInv, NEW q \in Request, NEW i \in up, NEW m \in Mail, NEW op \in {"verify", "patch"},
         NEW verified \in BOOLEAN \union {None}, Begin(q, i, "read", op, m, verified, {}),
         row[m.user] # None, op = "verify" => m \in delivered, created' = created,
         patches' \in 0..MaxPatches
  PROVE  TypeOK' /\ UnitInv'
<1> DEFINE r == [pc |-> "read", at |-> i, op |-> op, mail |-> m,
                 current |-> FALSE, verified |-> verified, tracked |-> {}, stamped |-> FALSE]
<1>1. /\ request' = [request EXCEPT ![q] = r]
      /\ UNCHANGED <<row, outbox, tokens, delivered, up, job, faults, queued, announced, vouched>>
      /\ request[q].pc = "idle"
  BY DEF Begin, At
<1>2. i \in Instance
  BY DEF TypeOK
<1>3. /\ r \in InProgress /\ r.pc = "read" /\ r.op = op /\ r.mail = m
      /\ r.at = i /\ r.tracked = {}
  BY <1>2 DEF InProgress
<1> HIDE DEF r
<1>4. request'[q] = r
  BY <1>1 DEF TypeOK
<1>5. RequestInv(q)'
  <2>1. Of(q)' = m.user /\ row'[m.user] # None /\ delivered' = delivered
    BY <1>1, <1>3, <1>4 DEF Of
  <2>2. Registering(q)' /\ Changing(q)'
    BY <1>3, <1>4, <2>1 DEF Registering, Changing
  <2>3. QED
    BY <1>3, <1>4, <2>2 DEF RequestInv
<1>6. created' \subseteq User
  BY DEF TypeOK
<1>7. QED
  BY <1>1, <1>3, <1>5, <1>6, BeginKeeps

LEMMA VerifyKeeps ==
  ASSUME TypeOK, UnitInv, NEW q \in Request, NEW i \in up, NEW m \in delivered, Verify(q, i, m)
  PROVE  TypeOK' /\ UnitInv'
<1>1. m \in Mail /\ row[m.user] # None
  BY DEF TypeOK, UnitInv, Rows
<1>2. QED
  BY <1>1, ChangeKeeps DEF Verify, TypeOK

LEMMA PatchKeeps ==
  ASSUME TypeOK, UnitInv, NEW q \in Request, NEW i \in up, NEW u \in User,
         NEW v \in BOOLEAN \union {None}, Patch(q, i, u, v)
  PROVE  TypeOK' /\ UnitInv'
<1>1. Registration(u) \in Mail /\ Registration(u).user = u
  BY DEF Registration, Mail
<1>2. patches' \in 0..MaxPatches
  BY DEF Patch, TypeOK
<1>3. QED
  BY <1>1, <1>2, ChangeKeeps DEF Patch

\* A step that only moves the request on.
LEMMA MoveKeeps ==
  ASSUME TypeOK, UnitInv, NEW q \in Request, NEW pc \in {"mail", "save", "close"}, Go(q, pc),
         request[q].pc # "idle", pc = "mail" => request[q].pc = "event",
         UNCHANGED <<row, outbox, delivered, up, job, created, queued, announced, vouched, patches>>,
         tokens' \subseteq Mail, faults' \in 0..MaxFaults
  PROVE  TypeOK' /\ UnitInv'
<1> DEFINE r == [request[q] EXCEPT !.pc = pc]
<1>1. request' = [request EXCEPT ![q] = r]
  BY DEF Go
<1>2. request[q] \in InProgress
  BY DEF TypeOK
<1>3. /\ r \in InProgress /\ r.pc = pc /\ r.op = request[q].op /\ r.mail = request[q].mail
      /\ r.at = request[q].at /\ r.verified = request[q].verified /\ r.tracked = request[q].tracked
  BY <1>2 DEF InProgress
<1> HIDE DEF r
<1>4. request'[q] = r
  BY <1>1 DEF TypeOK
<1>5. RequestInv(q)
  BY DEF UnitInv
<1>6. RequestInv(q)'
  <2>1. Of(q)' = Of(q)
    BY <1>3, <1>4 DEF Of
  <2>2. Registering(q)'
    BY <1>3, <1>4, <1>5, <2>1 DEF RequestInv, Registering
  <2>3. Changing(q)'
    BY <1>3, <1>4, <1>5, <2>1 DEF RequestInv, Changing
  <2>4. QED
    BY <1>3, <1>4, <1>5, <2>2, <2>3 DEF RequestInv
<1>7. RegisteredWithMail'
  BY DEF UnitInv, RegisteredWithMail
<1>8. announced \subseteq announced' /\ announced' \subseteq created
  BY DEF TypeOK
<1>9. \A p \in Request \ {q} : Still(p)
  BY Unmoved
<1>10. QED
  BY <1>1, <1>3, <1>6, <1>7, <1>8, <1>9, Handles

LEMMA StoreTokenKeeps ==
  ASSUME TypeOK, UnitInv, NEW q \in Request, StoreToken(q) PROVE TypeOK' /\ UnitInv'
<1>1. request[q].pc = "event" /\ Go(q, "mail")
  BY DEF StoreToken, At
<1>2. tokens' \subseteq Mail /\ faults' \in 0..MaxFaults
  BY <1>1 DEF StoreToken, TypeOK, UnitInv, RequestInv
<1>3. UNCHANGED <<row, outbox, delivered, up, job, created, queued, announced, vouched, patches>>
  BY DEF StoreToken
<1>4. QED
  BY <1>1, <1>2, <1>3, MoveKeeps

LEMMA DeleteTokenKeeps ==
  ASSUME TypeOK, UnitInv, NEW q \in Request, DeleteToken(q) PROVE TypeOK' /\ UnitInv'
<1>1. request[q].pc = "token" /\ Go(q, "close")
  BY DEF DeleteToken, At
<1>2. tokens' \subseteq Mail /\ faults' \in 0..MaxFaults
  BY DEF DeleteToken, TypeOK
<1>3. UNCHANGED <<row, outbox, delivered, up, job, created, queued, announced, vouched, patches>>
  BY DEF DeleteToken
<1>4. QED
  BY <1>1, <1>2, <1>3, MoveKeeps

LEMMA CommandFailsKeeps ==
  ASSUME TypeOK, UnitInv, NEW q \in Request, CommandFails(q) PROVE TypeOK' /\ UnitInv'
<1>1. request[q].pc # "idle" /\ Go(q, "close")
  BY DEF CommandFails
<1>2. tokens' \subseteq Mail /\ faults' \in 0..MaxFaults
  BY FaultType DEF CommandFails, TypeOK
<1>3. UNCHANGED <<row, outbox, delivered, up, job, created, queued, announced, vouched, patches>>
  BY DEF CommandFails
<1>4. QED
  BY <1>1, <1>2, <1>3, MoveKeeps

\* The event of a registration is handled while its user is not yet in the database.
LEMMA TrackMailKeeps ==
  ASSUME TypeOK, UnitInv, NEW q \in Request, TrackMail(q) PROVE TypeOK' /\ UnitInv'
<1>1. PICK pc \in {"save", "close"} : pc = IF request[q].op = "create" THEN "save" ELSE "close"
  OBVIOUS
<1> DEFINE r == [request[q] EXCEPT !.tracked = @ \union {"mail"}, !.pc = pc]
<1>2. request' = [request EXCEPT ![q] = r] /\ request[q].pc = "mail"
  BY <1>1 DEF TrackMail, At
<1>3. request[q] \in InProgress
  BY DEF TypeOK
<1>4. /\ r \in InProgress /\ r.pc = pc /\ r.op = request[q].op /\ r.mail = request[q].mail
      /\ r.at = request[q].at /\ r.verified = request[q].verified
      /\ r.tracked = request[q].tracked \union {"mail"}
  BY <1>3 DEF InProgress
<1> HIDE DEF r
<1>5. request'[q] = r
  BY <1>2 DEF TypeOK
<1>6. /\ UNCHANGED <<row, outbox, delivered, up, job, created, queued, vouched, patches, tokens, faults>>
      /\ announced' = IF request[q].op = "resend" THEN announced ELSE announced \union {Of(q)}
  BY DEF TrackMail
<1>7. /\ request[q].mail \in Mail /\ request[q].op \in {"register", "create", "resend", "verify", "patch"}
      /\ Registering(q) /\ Changing(q)
  BY <1>2 DEF UnitInv, RequestInv
<1>8. request[q].op \in {"register", "create", "resend"}
  BY <1>2, <1>7 DEF Changing
<1>9. request[q].op \in Registers => row[Of(q)] = None /\ "user" \in request[q].tracked /\ Of(q) \in created
  BY <1>2, <1>7 DEF Registering
<1>10. RequestInv(q)'
  <2>1. Of(q)' = Of(q)
    BY <1>4, <1>5 DEF Of
  <2>2. Registering(q)'
    BY <1>4, <1>5, <1>6, <1>7, <1>8, <1>9, <2>1 DEF Registering
  <2>3. Changing(q)'
    BY <1>4, <1>5, <1>6, <1>7, <1>8, <2>1 DEF Changing
  <2>4. QED
    BY <1>4, <1>5, <1>7, <2>2, <2>3 DEF RequestInv
<1>11. announced \subseteq announced' /\ announced' \subseteq created
  BY <1>6, <1>8, <1>9 DEF TypeOK
<1>12. RegisteredWithMail'
  BY <1>6, <1>8, <1>9 DEF UnitInv, RegisteredWithMail
<1>13. ASSUME NEW p \in Request \ {q} PROVE Still(p)
  BY <1>2, <1>6, <1>8 DEF Still, UnitInv, OneRegistration, At
<1>14. tokens' \subseteq Mail /\ faults' \in 0..MaxFaults
  BY <1>6 DEF TypeOK
<1>15. QED
  BY <1>2, <1>4, <1>6, <1>10, <1>11, <1>12, <1>13, <1>14, Handles

LEMMA ReadUserKeeps ==
  ASSUME TypeOK, UnitInv, NEW q \in Request, ReadUser(q) PROVE TypeOK' /\ UnitInv'
<1>1. PICK pc \in {"token", "save"} : pc = IF request[q].op = "verify" THEN "token" ELSE "save"
  OBVIOUS
<1>2. PICK tracked \in {{}, {"update"}} :
         tracked = IF row[Of(q)] = request[q].verified THEN {} ELSE {"update"}
  OBVIOUS
<1> DEFINE r == [request[q] EXCEPT !.current = TRUE, !.tracked = tracked, !.pc = pc]
<1>3. request' = [request EXCEPT ![q] = r] /\ request[q].pc = "read"
  BY <1>1, <1>2 DEF ReadUser, At
<1>4. request[q] \in InProgress
  BY DEF TypeOK
<1>5. /\ r \in InProgress /\ r.pc = pc /\ r.op = request[q].op /\ r.mail = request[q].mail
      /\ r.at = request[q].at /\ r.verified = request[q].verified /\ r.tracked = tracked
  BY <1>4 DEF InProgress
<1> HIDE DEF r
<1>6. request'[q] = r
  BY <1>3 DEF TypeOK
<1>7. UNCHANGED <<row, outbox, delivered, up, job, created, queued, vouched, patches, tokens, faults, announced>>
  BY DEF ReadUser
<1>8. /\ request[q].mail \in Mail /\ request[q].op \in {"register", "create", "resend", "verify", "patch"}
      /\ Registering(q) /\ Changing(q)
  BY <1>3 DEF UnitInv, RequestInv
<1>9. request[q].op \in {"verify", "patch"}
  BY <1>3, <1>8 DEF Changing, Registering
<1>10. RequestInv(q)'
  <2>1. Of(q)' = Of(q)
    BY <1>5, <1>6 DEF Of
  <2>2. Registering(q)'
    BY <1>5, <1>6, <1>9 DEF Registering
  <2>3. Changing(q)'
    BY <1>5, <1>6, <1>7, <1>8, <1>9, <2>1 DEF Changing
  <2>4. QED
    BY <1>5, <1>6, <1>8, <2>2, <2>3 DEF RequestInv
<1>11. announced \subseteq announced' /\ announced' \subseteq created /\ RegisteredWithMail'
  BY <1>7 DEF TypeOK, UnitInv, RegisteredWithMail
<1>12. \A p \in Request \ {q} : Still(p)
  BY <1>7, Unmoved
<1>13. tokens' \subseteq Mail /\ faults' \in 0..MaxFaults
  BY <1>7 DEF TypeOK
<1>14. QED
  BY <1>3, <1>5, <1>7, <1>10, <1>11, <1>12, <1>13, Handles

-----------------------------------------------------------------------------
(* The two saves.                                                          *)

\* What either save leaves true of the database, whether it is committed or not.
Saved ==
    /\ row' \in [User -> BOOLEAN \union {None}] /\ outbox' \subseteq queued' /\ queued' \subseteq Mail
    /\ vouched' \subseteq User
    /\ Grows /\ Rows' /\ VerifiedByMail' /\ RegisteredWithMail'
    /\ \A p \in Request : Still(p)

\* What neither save touches.
Elsewhere == UNCHANGED <<tokens, delivered, created, patches, announced>>

LEMMA ApplySaves ==
  ASSUME TypeOK, UnitInv, NEW q \in Request, request[q].pc \in {"save", "close"}, Apply(q), Elsewhere
  PROVE  Saved
<1>1. PICK tracked \in SUBSET {"user", "mail", "update"} : tracked = request[q].tracked
  BY DEF TypeOK, InProgress
<1>2. PICK m \in Mail : m = request[q].mail
  BY DEF UnitInv, RequestInv
<1>3. PICK u \in User : u = m.user /\ u = Of(q)
  BY <1>2 DEF Mail, Of
<1>4. PICK op \in {"register", "create", "resend", "verify", "patch"} : op = request[q].op
  BY DEF UnitInv, RequestInv
<1>5. PICK verified \in BOOLEAN \union {None} : verified = request[q].verified
  BY DEF TypeOK, InProgress
<1>6. /\ op \in Registers =>
            /\ m = Registration(u) /\ verified \in BOOLEAN /\ u \in created /\ "update" \notin tracked
            /\ "mail" \in tracked => "user" \in tracked
            /\ "user" \in tracked /\ "mail" \notin tracked => u \notin announced
      /\ op \notin Registers => row[u] # None /\ "user" \notin tracked
      /\ op \in {"verify", "patch"} => "mail" \notin tracked
      /\ op = "verify" => m \in delivered
  BY <1>1, <1>2, <1>3, <1>4, <1>5 DEF UnitInv, RequestInv, Registering, Changing
<1>7. PICK to \in BOOLEAN \union {None} : to = IF verified = None THEN row[u] ELSE verified
  BY DEF TypeOK
<1>8. /\ row' = IF tracked \subseteq {"mail"} THEN row ELSE [row EXCEPT ![u] = to]
      /\ outbox' = outbox \union {n \in {m} : "mail" \in tracked}
      /\ queued' = queued \union {n \in {m} : "mail" \in tracked}
      /\ vouched' = IF op # "verify" /\ verified = TRUE /\ row' # row THEN vouched \union {u} ELSE vouched
  BY <1>1, <1>2, <1>3, <1>4, <1>5, <1>7 DEF Apply, Updated
<1>9. UNCHANGED <<tokens, delivered, created, patches, announced>>
  BY DEF Elsewhere
<1>10. row' \in [User -> BOOLEAN \union {None}] /\ \A v \in User \ {u} : row'[v] = row[v]
  BY <1>8 DEF TypeOK
<1>11. row'[u] = row[u] \/ (row'[u] = to /\ ~(tracked \subseteq {"mail"}))
  BY <1>8 DEF TypeOK
<1>12. row[u] # None => row'[u] # None
  BY <1>7, <1>11
<1>13. "mail" \in tracked => row'[u] # None
  <2>1. CASE op \in Registers
    BY <2>1, <1>6, <1>7, <1>8 DEF TypeOK
  <2>2. CASE op \notin Registers
    BY <2>2, <1>6, <1>12
  <2>3. QED
    BY <2>1, <2>2
<1>14. /\ outbox' \subseteq queued' /\ queued' \subseteq Mail /\ vouched' \subseteq User
       /\ queued \subseteq queued' /\ vouched \subseteq vouched'
       /\ \A n \in queued' : n \in queued \/ (n = m /\ "mail" \in tracked)
       /\ "mail" \in tracked => m \in queued'
  BY <1>8 DEF TypeOK
<1>15. Grows
  BY <1>9, <1>10, <1>12, <1>14 DEF Grows
<1>16. Rows'
  <2>1. \A n \in queued' : row'[n.user] # None
    <3>1. \A n \in queued : n.user \in User /\ row[n.user] # None
      BY DEF UnitInv, Rows, TypeOK, Mail
    <3>2. \A n \in queued : row'[n.user] # None
      BY <3>1, <1>15 DEF Grows
    <3>3. QED
      BY <3>2, <1>3, <1>13, <1>14
  <2>2. \A v \in User : row'[v] # None => v \in created'
    BY <1>6, <1>9, <1>10 DEF UnitInv, Rows
  <2>3. QED
    BY <2>1, <2>2 DEF Rows
<1>17. VerifiedByMail'
  <2> SUFFICES ASSUME NEW v \in User, row'[v] = TRUE
               PROVE  v \in vouched' \/ \E n \in delivered' : n.user = v
    BY DEF VerifiedByMail
  <2>1. CASE row[v] = TRUE
    BY <2>1, <1>9, <1>14 DEF UnitInv, VerifiedByMail
  <2>2. CASE row[v] # TRUE
    <3>1. v = u /\ row' # row /\ to = TRUE /\ verified = TRUE
      BY <2>2, <1>7, <1>10, <1>11
    <3>2. CASE op = "verify"
      BY <3>1, <3>2, <1>3, <1>6, <1>9
    <3>3. CASE op # "verify"
      BY <3>1, <3>3, <1>8
    <3>4. QED
      BY <3>2, <3>3
  <2>3. QED
    BY <2>1, <2>2
<1>18. RegisteredWithMail'
  <2> SUFFICES ASSUME NEW v \in announced', row'[v] # None PROVE Registration(v) \in queued'
    BY DEF RegisteredWithMail
  <2>1. v \in announced /\ v \in User
    BY <1>9 DEF TypeOK
  <2>2. CASE row[v] # None
    BY <2>1, <2>2, <1>14 DEF UnitInv, RegisteredWithMail
  <2>3. CASE row[v] = None
    <3>1. v = u /\ ~(tracked \subseteq {"mail"})
      BY <2>1, <2>3, <1>10, <1>11
    <3>2. op \in Registers /\ "user" \in tracked
      BY <2>3, <3>1, <1>6
    <3>3. m = Registration(v) /\ "mail" \in tracked
      BY <2>1, <3>1, <3>2, <1>6
    <3>4. m \in queued'
      BY <3>3, <1>14
    <3>5. QED
      BY <3>3, <3>4
  <2>4. QED
    BY <2>2, <2>3
<1>19. ASSUME NEW p \in Request PROVE Still(p)
  <2> SUFFICES ASSUME request[p].pc \in {"event", "mail"}, request[p].op \in Registers, row[Of(p)] = None
               PROVE  row'[Of(p)] = None
    BY <1>9 DEF Still
  <2>1. p # q /\ request[p].pc # "idle" /\ request[q].pc # "idle"
    OBVIOUS
  <2>2. Of(p) \in User
    BY <2>1 DEF UnitInv, RequestInv, Of, Mail
  <2>3. Of(p) # u
    BY <2>1, <1>3, <1>4, <1>6 DEF UnitInv, OneRegistration, At
  <2>4. QED
    BY <2>2, <2>3, <1>10
<1>20. QED
  BY <1>10, <1>14, <1>15, <1>16, <1>17, <1>18, <1>19 DEF Saved

LEMMA UnappliedSaves ==
  ASSUME TypeOK, UnitInv, Unapplied, Elsewhere PROVE Saved
<1>1. UNCHANGED <<row, outbox, queued, vouched>> /\ UNCHANGED <<tokens, delivered, created, patches, announced>>
  BY DEF Unapplied, Elsewhere
<1>2. Grows /\ \A p \in Request : Still(p)
  BY <1>1 DEF Grows, Still
<1>3. Rows' /\ VerifiedByMail' /\ RegisteredWithMail'
  BY <1>1 DEF UnitInv, Rows, VerifiedByMail, RegisteredWithMail
<1>4. QED
  BY <1>1, <1>2, <1>3 DEF Saved, TypeOK

\* What a save, a crash or the end of a job's run leave true of the rest.
LEMMA Settles ==
  ASSUME TypeOK, UnitInv, Saved, Elsewhere, faults' \in 0..MaxFaults,
         request' \in [Request -> InProgress], job' \in [Instance -> Run], up' \subseteq Instance,
         \A i \in Instance : job'[i] = job[i] \/ job'[i] = Sleeping,
         \A p \in Request : request'[p].pc # "idle" => request'[p].at \in up',
         \A p \in Request : Stays(p), \A p \in Request : RequestInv(p)'
  PROVE  TypeOK' /\ UnitInv'
<1>1. UNCHANGED <<tokens, delivered, created, patches, announced>>
  BY DEF Elsewhere
<1>2. OneRegistration'
  BY OneKept DEF UnitInv
<1>3. Sent'
  BY <1>1, IdleType DEF UnitInv, Sent
<1>4. UnitInv'
  <2>1. (\A p \in Request : RequestInv(p))'
    OBVIOUS
  <2>2. QED
    BY <1>2, <1>3, <2>1 DEF UnitInv, Saved
<1>5. \A i \in Instance : job'[i].todo \union job'[i].sent \subseteq queued'
  BY IdleType DEF TypeOK, Saved, Grows
<1>6. delivered' \subseteq queued'
  BY <1>1 DEF TypeOK, Saved, Grows
<1>7. QED
  BY <1>1, <1>4, <1>5, <1>6 DEF TypeOK, Saved

LEMMA VersionedAlike ==
  ASSUME NEW q \in Request, NEW requests \in [Request -> InProgress]
  PROVE  /\ Versioned(q, requests) \in [Request -> InProgress]
         /\ \A p \in Request : Alike(Versioned(q, requests)[p], requests[p])
         /\ Versioned(q, requests)[q] = requests[q]
<1>1. ASSUME NEW p \in Request, NEW b \in BOOLEAN
      PROVE  /\ [requests[p] EXCEPT !.current = b] \in InProgress
             /\ Alike([requests[p] EXCEPT !.current = b], requests[p])
  <2>1. requests[p] \in InProgress
    OBVIOUS
  <2>2. QED
    BY <2>1 DEF InProgress, Alike
<1>2. \A p \in Request : Alike(requests[p], requests[p])
  BY DEF Alike
<1>3. QED
  BY <1>1, <1>2 DEF Versioned

\* The instance ends, and what it held in memory is gone.
LEMMA StopKeeps ==
  ASSUME TypeOK, NEW i, NEW requests \in [Request -> InProgress], Stop(i, requests),
         \A p \in Request : Alike(requests[p], request[p])
  PROVE  /\ request' \in [Request -> InProgress] /\ job' \in [Instance -> Run] /\ up' \subseteq Instance
         /\ \A k \in Instance : job'[k] = job[k] \/ job'[k] = Sleeping
         /\ \A p \in Request : request'[p].pc # "idle" => request'[p].at \in up'
         /\ \A p \in Request : Remains(p)
<1>1. /\ up' = up \ {i}
      /\ request' = [p \in Request |-> IF requests[p].at = i THEN Idle ELSE requests[p]]
      /\ job' = [job EXCEPT ![i] = Sleeping]
  BY DEF Stop
<1>2. request' \in [Request -> InProgress]
  BY <1>1, IdleType
<1>3. job' \in [Instance -> Run] /\ \A k \in Instance : job'[k] = job[k] \/ job'[k] = Sleeping
  BY <1>1, IdleType DEF TypeOK
<1>4. \A p \in Request : request'[p].pc # "idle" => request'[p].at \in up'
  BY <1>1, IdleType DEF TypeOK, Alike
<1>5. \A p \in Request : Remains(p)
  BY <1>1 DEF Remains
<1>6. QED
  BY <1>1, <1>2, <1>3, <1>4, <1>5 DEF TypeOK

\* Requests that only remain, or end, keep what is known of them.
LEMMA RemainKeeps ==
  ASSUME TypeOK, UnitInv, Saved, \A p \in Request : Remains(p)
  PROVE  (\A p \in Request : Stays(p)) /\ \A p \in Request : RequestInv(p)'
<1>1. ASSUME NEW p \in Request PROVE Stays(p)
  BY RemainsStays
<1>2. ASSUME NEW p \in Request PROVE RequestInv(p)'
  BY RequestKept DEF UnitInv, Saved
<1>3. QED
  BY <1>1, <1>2

\* The first save is over: what was not saved is still tracked, but no update.
LEMMA SaveEnds ==
  ASSUME TypeOK, UnitInv, Saved, Elsewhere, faults' \in 0..MaxFaults, UNCHANGED <<up, job>>,
         NEW q \in Request, request[q].pc = "save", NEW requests \in [Request -> InProgress],
         \A p \in Request \ {q} : requests[p] = request[p],
         requests[q].pc = "close", requests[q].at = request[q].at, requests[q].op = request[q].op,
         requests[q].mail = request[q].mail, requests[q].verified = request[q].verified,
         requests[q].tracked \in {{}, request[q].tracked \ {"update"}},
         request' = requests \/ request' = Versioned(q, requests)
  PROVE  TypeOK' /\ UnitInv'
<1>1. request' \in [Request -> InProgress] /\ \A p \in Request : Alike(request'[p], requests[p])
  BY VersionedAlike DEF Alike
<1>2. \A p \in Request \ {q} : Remains(p)
  BY <1>1 DEF Remains, Alike
<1>3. /\ request'[q].pc = "close" /\ request'[q].at = request[q].at /\ request'[q].op = request[q].op
      /\ request'[q].mail = request[q].mail /\ request'[q].verified = request[q].verified
      /\ request'[q].tracked \in {{}, request[q].tracked \ {"update"}}
  BY <1>1 DEF Alike
<1>4. UNCHANGED <<tokens, delivered, created, patches, announced>>
  BY DEF Elsewhere
<1>5. RequestInv(q)'
  <2>1. /\ request[q].mail \in Mail /\ request[q].op \in {"register", "create", "resend", "verify", "patch"}
        /\ Registering(q) /\ Changing(q)
    BY DEF UnitInv, RequestInv
  <2>2. Of(q)' = Of(q) /\ Of(q) \in User
    BY <1>3, <2>1 DEF Of, Mail
  <2>3. Registering(q)'
    BY <1>3, <1>4, <2>1, <2>2 DEF Registering
  <2>4. row[Of(q)] # None => row'[Of(q)] # None
    BY <2>2 DEF Saved, Grows
  <2>5. Changing(q)'
    BY <1>3, <1>4, <2>1, <2>2, <2>4 DEF Changing
  <2>6. QED
    BY <1>3, <2>1, <2>3, <2>5 DEF RequestInv
<1>6. ASSUME NEW p \in Request PROVE RequestInv(p)'
  <2>1. CASE p = q
    BY <1>5, <2>1
  <2>2. CASE p # q
    BY <1>2, <2>2, RequestKept DEF UnitInv, Saved
  <2>3. QED
    BY <2>1, <2>2
<1>7. ASSUME NEW p \in Request PROVE Stays(p)
  BY <1>2, <1>3, RemainsStays DEF Stays
<1>8. \A p \in Request : request'[p].pc # "idle" => request'[p].at \in up'
  BY <1>1, <1>3 DEF TypeOK, Alike
<1>9. job' \in [Instance -> Run] /\ up' \subseteq Instance
  BY DEF TypeOK
<1>10. QED
  BY <1>1, <1>6, <1>7, <1>8, <1>9, Settles

LEMMA SaveKeeps ==
  ASSUME TypeOK, UnitInv, NEW q \in Request, Save(q) PROVE TypeOK' /\ UnitInv'
<1> DEFINE requests == [request EXCEPT ![q].pc = "close", ![q].tracked = {}]
<1>1. Apply(q) /\ Elsewhere /\ request[q].pc = "save" /\ request' = Versioned(q, requests)
      /\ UNCHANGED <<up, job, faults>>
  BY DEF Save, At, Elsewhere
<1>2. request[q] \in InProgress
  BY DEF TypeOK
<1>3. requests \in [Request -> InProgress]
  BY <1>2 DEF InProgress, TypeOK
<1>4. /\ \A p \in Request \ {q} : requests[p] = request[p]
      /\ requests[q].pc = "close" /\ requests[q].at = request[q].at /\ requests[q].op = request[q].op
      /\ requests[q].mail = request[q].mail /\ requests[q].verified = request[q].verified
      /\ requests[q].tracked = {}
  BY <1>2 DEF InProgress, TypeOK
<1> HIDE DEF requests
<1>5. Saved
  BY <1>1, ApplySaves
<1>6. faults' \in 0..MaxFaults
  BY <1>1 DEF TypeOK
<1>7. QED
  BY <1>1, <1>3, <1>4, <1>5, <1>6, SaveEnds

LEMMA SaveFailsKeeps ==
  ASSUME TypeOK, UnitInv, NEW q \in Request, SaveFails(q) PROVE TypeOK' /\ UnitInv'
<1>1. Elsewhere /\ request[q].pc = "save" /\ UNCHANGED <<up, job>>
  BY DEF SaveFails, At, Elsewhere
<1>2. CASE Unapplied /\ Go(q, "close") /\ (UNCHANGED faults \/ Fault)
  <2>1. faults' \in 0..MaxFaults /\ tokens' \subseteq Mail
    BY <1>1, <1>2, FaultType DEF TypeOK, Elsewhere
  <2>2. UNCHANGED <<row, outbox, delivered, up, job, created, queued, announced, vouched, patches>>
    BY <1>1, <1>2 DEF Unapplied, Elsewhere
  <2>3. QED
    BY <1>1, <1>2, <2>1, <2>2, MoveKeeps
<1>3. PICK stamped \in BOOLEAN : stamped = (request[q].tracked \ {"update"} # {})
  OBVIOUS
<1> DEFINE failed == [request EXCEPT ![q].pc = "close", ![q].tracked = @ \ {"update"}, ![q].stamped = stamped]
<1>4. CASE Fault /\ (Apply(q) \/ Unapplied) /\ (request' = failed \/ request' = Versioned(q, failed))
  <2>1. request[q] \in InProgress
    BY DEF TypeOK
  <2>2. failed \in [Request -> InProgress]
    BY <2>1 DEF InProgress, TypeOK
  <2>3. /\ \A p \in Request \ {q} : failed[p] = request[p]
        /\ failed[q].pc = "close" /\ failed[q].at = request[q].at /\ failed[q].op = request[q].op
        /\ failed[q].mail = request[q].mail /\ failed[q].verified = request[q].verified
        /\ failed[q].tracked = request[q].tracked \ {"update"}
    BY <2>1 DEF InProgress, TypeOK
  <2> HIDE DEF failed
  <2>4. Saved
    BY <1>1, <1>4, ApplySaves, UnappliedSaves
  <2>5. faults' \in 0..MaxFaults
    BY <1>4, FaultType
  <2>6. QED
    BY <1>1, <1>4, <2>2, <2>3, <2>4, <2>5, SaveEnds
<1>5. QED
  BY <1>2, <1>3, <1>4 DEF SaveFails

\* The scope is closed and the request is over.
LEMMA RequestEnds ==
  ASSUME TypeOK, UnitInv, Saved, Elsewhere, UNCHANGED <<up, job, faults>>, NEW q \in Request,
         NEW requests, requests = [request EXCEPT ![q] = Idle],
         request' = requests \/ request' = Versioned(q, requests)
  PROVE  TypeOK' /\ UnitInv'
<1>1. /\ requests \in [Request -> InProgress] /\ requests[q] = Idle
      /\ \A p \in Request \ {q} : requests[p] = request[p]
  BY IdleType DEF TypeOK
<1>2. /\ request' \in [Request -> InProgress] /\ request'[q] = Idle
      /\ \A p \in Request : Alike(request'[p], requests[p])
  <2>1. CASE request' = requests
    BY <1>1, <2>1 DEF Alike
  <2>2. CASE request' = Versioned(q, requests)
    BY <1>1, <2>2, VersionedAlike
  <2>3. QED
    BY <2>1, <2>2
<1>3. \A p \in Request : Remains(p)
  BY <1>1, <1>2 DEF Remains
<1>4. (\A p \in Request : Stays(p)) /\ \A p \in Request : RequestInv(p)'
  BY <1>3, RemainKeeps
<1>5. \A p \in Request : request'[p].pc # "idle" => request'[p].at \in up'
  BY <1>1, <1>2, IdleType DEF TypeOK, Alike
<1>6. job' \in [Instance -> Run] /\ up' \subseteq Instance /\ faults' \in 0..MaxFaults
  BY DEF TypeOK
<1>7. QED
  BY <1>2, <1>4, <1>5, <1>6, Settles

LEMMA CloseKeeps ==
  ASSUME TypeOK, UnitInv, NEW q \in Request, Close(q) PROVE TypeOK' /\ UnitInv'
<1>1. PICK requests : requests = [request EXCEPT ![q] = Idle]
  OBVIOUS
<1>2. /\ Apply(q) /\ Elsewhere /\ request[q].pc = "close" /\ UNCHANGED <<up, job, faults>>
      /\ request' = Versioned(q, requests)
  BY <1>1 DEF Close, At, Elsewhere
<1>3. Saved
  BY <1>2, ApplySaves
<1>4. QED
  BY <1>1, <1>2, <1>3, RequestEnds

LEMMA ClosePanicsKeeps ==
  ASSUME TypeOK, UnitInv, NEW q \in Request, ClosePanics(q) PROVE TypeOK' /\ UnitInv'
<1>1. /\ Unapplied /\ Elsewhere /\ UNCHANGED <<up, job, faults>>
      /\ request' = [request EXCEPT ![q] = Idle]
  BY DEF ClosePanics, Elsewhere
<1>2. Saved
  BY <1>1, UnappliedSaves
<1>3. QED
  BY <1>1, <1>2, RequestEnds

\* The instance ends, whether the last transaction was committed or not.
LEMMA InstanceEnds ==
  ASSUME TypeOK, UnitInv, Saved, Elsewhere, faults' \in 0..MaxFaults, NEW i,
         NEW requests \in [Request -> InProgress], \A p \in Request : Alike(requests[p], request[p]),
         Stop(i, requests)
  PROVE  TypeOK' /\ UnitInv'
<1>1. /\ request' \in [Request -> InProgress] /\ job' \in [Instance -> Run] /\ up' \subseteq Instance
      /\ \A k \in Instance : job'[k] = job[k] \/ job'[k] = Sleeping
      /\ \A p \in Request : request'[p].pc # "idle" => request'[p].at \in up'
      /\ \A p \in Request : Remains(p)
  BY StopKeeps
<1>2. (\A p \in Request : Stays(p)) /\ \A p \in Request : RequestInv(p)'
  BY <1>1, RemainKeeps
<1>3. QED
  BY <1>1, <1>2, Settles

LEMMA CloseFailsKeeps ==
  ASSUME TypeOK, UnitInv, NEW q \in Request, CloseFails(q) PROVE TypeOK' /\ UnitInv'
<1>1. Elsewhere /\ request[q].pc = "close"
  BY DEF CloseFails, At, Elsewhere
<1>2. faults' \in 0..MaxFaults
  BY FaultType DEF CloseFails, TypeOK
<1>3. Saved
  BY <1>1, ApplySaves, UnappliedSaves DEF CloseFails
<1>4. request \in [Request -> InProgress] /\ \A p \in Request : Alike(request[p], request[p])
  BY DEF TypeOK, Alike
<1>5. /\ Versioned(q, request) \in [Request -> InProgress]
      /\ \A p \in Request : Alike(Versioned(q, request)[p], request[p])
  BY <1>4, VersionedAlike
<1>6. Stop(request[q].at, request) \/ Stop(request[q].at, Versioned(q, request))
  BY DEF CloseFails
<1>7. QED
  BY <1>1, <1>2, <1>3, <1>4, <1>5, <1>6, InstanceEnds

-----------------------------------------------------------------------------
(* The job, and the instances.                                             *)

\* A step that leaves the rows and the mails ever saved alone.
LEMMA OutboxSaves ==
  ASSUME TypeOK, UnitInv, UNCHANGED <<row, queued, vouched, created, announced>>,
         outbox' \subseteq outbox, delivered \subseteq delivered'
  PROVE  Saved
<1>1. Grows /\ \A p \in Request : Still(p)
  BY DEF Grows, Still
<1>2. Rows' /\ VerifiedByMail' /\ RegisteredWithMail'
  BY DEF UnitInv, Rows, VerifiedByMail, RegisteredWithMail
<1>3. QED
  BY <1>1, <1>2 DEF Saved, TypeOK

LEMMA CrashKeeps ==
  ASSUME TypeOK, UnitInv, NEW i \in Instance, Crash(i) PROVE TypeOK' /\ UnitInv'
<1>1. Elsewhere /\ Stop(i, request) /\ Unapplied /\ Fault
  BY DEF Crash, Elsewhere, Unapplied
<1>2. request \in [Request -> InProgress] /\ \A p \in Request : Alike(request[p], request[p])
  BY DEF TypeOK, Alike
<1>3. QED
  BY <1>1, <1>2, FaultType, UnappliedSaves, InstanceEnds

LEMMA EndRunFailsKeeps ==
  ASSUME TypeOK, UnitInv, NEW i \in Instance, EndRunFails(i) PROVE TypeOK' /\ UnitInv'
<1>1. Elsewhere /\ Stop(i, request) /\ Fault
  BY DEF EndRunFails, Elsewhere
<1>2. Saved
  BY OutboxSaves DEF EndRunFails
<1>3. request \in [Request -> InProgress] /\ \A p \in Request : Alike(request[p], request[p])
  BY DEF TypeOK, Alike
<1>4. QED
  BY <1>1, <1>2, <1>3, FaultType, InstanceEnds

\* A step of the job that leaves the requests alone.
LEMMA RunKeeps ==
  ASSUME TypeOK, UnitInv, NEW i \in Instance, NEW r \in Run, job' = [job EXCEPT ![i] = r],
         r.todo \union r.sent \subseteq queued, r.sent \subseteq delivered',
         UNCHANGED <<row, tokens, up, request, created, patches, queued, announced, vouched>>,
         outbox' \subseteq outbox, delivered \subseteq delivered', delivered' \subseteq queued,
         faults' \in 0..MaxFaults
  PROVE  TypeOK' /\ UnitInv'
<1>1. job' \in [Instance -> Run] /\ \A k \in Instance : job'[k] = r \/ job'[k] = job[k]
  BY DEF TypeOK
<1>2. Saved
  BY OutboxSaves
<1>3. Sent'
  BY <1>1 DEF UnitInv, Sent
<1>4. (\A p \in Request : Stays(p)) /\ \A p \in Request : RequestInv(p)'
  <2>1. \A p \in Request : Remains(p)
    BY DEF Remains, Alike
  <2>2. QED
    BY <1>2, <2>1, RemainKeeps
<1>5. OneRegistration'
  BY <1>4, OneKept DEF UnitInv
<1>6. UnitInv'
  <2>1. (\A p \in Request : RequestInv(p))'
    BY <1>4
  <2>2. QED
    BY <1>2, <1>3, <1>5, <2>1 DEF UnitInv, Saved
<1>7. \A k \in Instance : job'[k].todo \union job'[k].sent \subseteq queued'
  BY <1>1 DEF TypeOK
<1>8. QED
  BY <1>1, <1>6, <1>7 DEF TypeOK

LEMMA StartRunKeeps ==
  ASSUME TypeOK, UnitInv, NEW i \in Instance, StartRun(i) PROVE TypeOK' /\ UnitInv'
<1> DEFINE r == [pc |-> "deliver", todo |-> outbox, sent |-> {}]
<1>1. job' = [job EXCEPT ![i] = r]
  BY DEF StartRun
<1>2. r \in Run /\ r.todo \union r.sent \subseteq queued /\ r.sent = {}
  BY DEF Run, TypeOK
<1> HIDE DEF r
<1>3. /\ UNCHANGED <<row, tokens, up, request, created, patches, queued, announced, vouched>>
      /\ outbox' \subseteq outbox /\ delivered \subseteq delivered' /\ delivered' \subseteq queued
      /\ faults' \in 0..MaxFaults
  BY DEF StartRun, TypeOK
<1>4. QED
  BY <1>1, <1>2, <1>3, RunKeeps

LEMMA DeliverKeeps ==
  ASSUME TypeOK, UnitInv, NEW i \in Instance, NEW m \in job[i].todo, Deliver(i, m)
  PROVE  TypeOK' /\ UnitInv'
<1> DEFINE r == [job[i] EXCEPT !.todo = @ \ {m}, !.sent = @ \union {m}]
<1>1. job' = [job EXCEPT ![i] = r]
  BY DEF Deliver
<1>2. job[i] \in Run /\ job[i].todo \union job[i].sent \subseteq queued /\ queued \subseteq Mail
  BY DEF TypeOK
<1>3. r \in Run /\ r.todo \union r.sent \subseteq queued /\ r.sent = job[i].sent \union {m}
  BY <1>2 DEF Run
<1> HIDE DEF r
<1>4. /\ UNCHANGED <<row, tokens, up, request, created, patches, queued, announced, vouched, outbox, faults>>
      /\ delivered' = delivered \union {m}
  BY DEF Deliver
<1>5. faults' \in 0..MaxFaults /\ delivered' \subseteq queued
  BY <1>2, <1>4 DEF TypeOK
<1>6. r.sent \subseteq delivered'
  BY <1>3, <1>4 DEF UnitInv, Sent
<1>7. QED
  BY <1>1, <1>3, <1>4, <1>5, <1>6, RunKeeps

LEMMA DeliverFailsKeeps ==
  ASSUME TypeOK, UnitInv, NEW i \in Instance, NEW m \in job[i].todo, DeliverFails(i, m)
  PROVE  TypeOK' /\ UnitInv'
<1> DEFINE r == [job[i] EXCEPT !.todo = @ \ {m}]
<1>1. job' = [job EXCEPT ![i] = r]
  BY DEF DeliverFails
<1>2. job[i] \in Run /\ job[i].todo \union job[i].sent \subseteq queued /\ queued \subseteq Mail
  BY DEF TypeOK
<1>3. r \in Run /\ r.todo \union r.sent \subseteq queued /\ r.sent = job[i].sent
  BY <1>2 DEF Run
<1> HIDE DEF r
<1>4. /\ UNCHANGED <<row, tokens, up, request, created, patches, queued, announced, vouched, outbox>>
      /\ delivered' \in {delivered, delivered \union {m}} /\ Fault
  BY DEF DeliverFails
<1>5. faults' \in 0..MaxFaults /\ delivered' \subseteq queued
  BY <1>2, <1>4, FaultType DEF TypeOK
<1>6. r.sent \subseteq delivered'
  BY <1>3, <1>4 DEF UnitInv, Sent
<1>7. QED
  BY <1>1, <1>3, <1>4, <1>5, <1>6, RunKeeps

LEMMA EndRunKeeps ==
  ASSUME TypeOK, UnitInv, NEW i \in Instance, EndRun(i) PROVE TypeOK' /\ UnitInv'
<1>1. /\ job' = [job EXCEPT ![i] = Sleeping] /\ outbox' \subseteq outbox
      /\ UNCHANGED <<row, tokens, up, request, created, patches, queued, announced, vouched, delivered, faults>>
  BY DEF EndRun
<1>2. delivered' \subseteq queued /\ faults' \in 0..MaxFaults
  BY <1>1 DEF TypeOK
<1>3. QED
  BY <1>1, <1>2, IdleType, RunKeeps

LEMMA RestartKeeps ==
  ASSUME TypeOK, UnitInv, NEW i \in Instance, Restart(i) PROVE TypeOK' /\ UnitInv'
<1>1. /\ up' = up \union {i} /\ Elsewhere /\ UNCHANGED <<row, outbox, queued, vouched, faults, request, job>>
  BY DEF Restart, Elsewhere
<1>2. Saved
  BY <1>1, UnappliedSaves DEF Unapplied
<1>3. \A p \in Request : Remains(p)
  BY <1>1 DEF Remains, Alike
<1>4. (\A p \in Request : Stays(p)) /\ \A p \in Request : RequestInv(p)'
  BY <1>2, <1>3, RemainKeeps
<1>5. /\ faults' \in 0..MaxFaults /\ request' \in [Request -> InProgress] /\ job' \in [Instance -> Run]
      /\ up' \subseteq Instance /\ \A k \in Instance : job'[k] = job[k]
      /\ \A p \in Request : request'[p].pc # "idle" => request'[p].at \in up'
  BY <1>1 DEF TypeOK
<1>6. QED
  BY <1>1, <1>2, <1>4, <1>5, Settles

-----------------------------------------------------------------------------
(* The theorems.                                                           *)

LEMMA InitInv == Init => TypeOK /\ UnitInv
<1> SUFFICES ASSUME Init PROVE TypeOK /\ UnitInv
  OBVIOUS
<1>1. /\ request \in [Request -> InProgress] /\ \A q \in Request : request[q].pc = "idle"
      /\ job \in [Instance -> Run] /\ \A i \in Instance : job[i].todo = {} /\ job[i].sent = {}
      /\ \A u \in User : row[u] = None
  BY IdleType DEF Init
<1>2. TypeOK
  BY <1>1 DEF Init, TypeOK
<1>3. Rows /\ Sent /\ OneRegistration /\ VerifiedByMail /\ RegisteredWithMail
  BY <1>1 DEF Init, Rows, Sent, OneRegistration, VerifiedByMail, RegisteredWithMail, At
<1>4. \A q \in Request : RequestInv(q)
  BY <1>1 DEF RequestInv
<1>5. QED
  BY <1>2, <1>3, <1>4 DEF UnitInv

LEMMA NextInv == TypeOK /\ UnitInv /\ [Next]_vars => TypeOK' /\ UnitInv'
<1> SUFFICES ASSUME TypeOK, UnitInv, [Next]_vars PROVE TypeOK' /\ UnitInv'
  OBVIOUS
<1>1. ASSUME NEW q \in Request, RequestStep(q) PROVE TypeOK' /\ UnitInv'
  <2>0. ASSUME NEW i \in up, NEW u \in User, RegisterUser(q, i, u) PROVE TypeOK' /\ UnitInv'
    BY <2>0, RegisterUserKeeps
  <2>1. ASSUME NEW i \in up, NEW u \in User, NEW b \in BOOLEAN, CreateUser(q, i, u, b)
        PROVE  TypeOK' /\ UnitInv'
    BY <2>1, CreateUserKeeps
  <2>2. ASSUME NEW i \in up, NEW u \in User, Resend(q, i, u) PROVE TypeOK' /\ UnitInv'
    BY <2>2, ResendKeeps
  <2>3. ASSUME NEW i \in up, NEW u \in User, NEW v \in BOOLEAN \union {None}, Patch(q, i, u, v)
        PROVE  TypeOK' /\ UnitInv'
    BY <2>3, PatchKeeps
  <2>4. ASSUME NEW i \in up, NEW m \in delivered, Verify(q, i, m) PROVE TypeOK' /\ UnitInv'
    BY <2>4, VerifyKeeps
  <2>5. CASE StoreToken(q)
    BY <2>5, StoreTokenKeeps
  <2>6. CASE TrackMail(q)
    BY <2>6, TrackMailKeeps
  <2>7. CASE ReadUser(q)
    BY <2>7, ReadUserKeeps
  <2>8. CASE DeleteToken(q)
    BY <2>8, DeleteTokenKeeps
  <2>9. CASE CommandFails(q)
    BY <2>9, CommandFailsKeeps
  <2>10. CASE Save(q)
    BY <2>10, SaveKeeps
  <2>11. CASE SaveFails(q)
    BY <2>11, SaveFailsKeeps
  <2>12. CASE Close(q)
    BY <2>12, CloseKeeps
  <2>13. CASE CloseFails(q)
    BY <2>13, CloseFailsKeeps
  <2>14. CASE ClosePanics(q)
    BY <2>14, ClosePanicsKeeps
  <2>15. QED
    BY <1>1, <2>0, <2>1, <2>2, <2>3, <2>4, <2>5, <2>6, <2>7, <2>8, <2>9, <2>10, <2>11, <2>12, <2>13, <2>14
       DEF RequestStep
<1>2. ASSUME NEW i \in Instance, JobStep(i) PROVE TypeOK' /\ UnitInv'
  <2>1. CASE StartRun(i)
    BY <2>1, StartRunKeeps
  <2>2. CASE EndRun(i)
    BY <2>2, EndRunKeeps
  <2>3. CASE EndRunFails(i)
    BY <2>3, EndRunFailsKeeps
  <2>4. ASSUME NEW m \in job[i].todo, Deliver(i, m) PROVE TypeOK' /\ UnitInv'
    BY <2>4, DeliverKeeps
  <2>5. ASSUME NEW m \in job[i].todo, DeliverFails(i, m) PROVE TypeOK' /\ UnitInv'
    BY <2>5, DeliverFailsKeeps
  <2>6. QED
    BY <1>2, <2>1, <2>2, <2>3, <2>4, <2>5 DEF JobStep
<1>3. ASSUME NEW i \in Instance, Crash(i) PROVE TypeOK' /\ UnitInv'
  BY <1>3, CrashKeeps
<1>4. ASSUME NEW i \in Instance, Restart(i) PROVE TypeOK' /\ UnitInv'
  BY <1>4, RestartKeeps
<1>5. CASE UNCHANGED vars
  <2>1. /\ Elsewhere /\ Unapplied
        /\ UNCHANGED <<up, faults, request, job>>
    BY <1>5 DEF vars, Elsewhere, Unapplied
  <2>2. Saved
    BY <2>1, UnappliedSaves
  <2>3. \A p \in Request : Remains(p)
    BY <2>1 DEF Remains, Alike
  <2>4. (\A p \in Request : Stays(p)) /\ \A p \in Request : RequestInv(p)'
    BY <2>2, <2>3, RemainKeeps
  <2>5. /\ faults' \in 0..MaxFaults /\ request' \in [Request -> InProgress] /\ job' \in [Instance -> Run]
        /\ up' \subseteq Instance /\ \A k \in Instance : job'[k] = job[k]
        /\ \A p \in Request : request'[p].pc # "idle" => request'[p].at \in up'
    BY <2>1 DEF TypeOK
  <2>6. QED
    BY <2>1, <2>2, <2>4, <2>5, Settles
<1>6. QED
  BY <1>1, <1>2, <1>3, <1>4, <1>5 DEF Next

LEMMA Invariance == Spec => [](TypeOK /\ UnitInv)
  BY InitInv, NextInv, PTL DEF Spec

\* Every step keeps the types: a request in progress is at an instance that runs,
\* and a mail is only handled by the job or its receiver once it was saved.
THEOREM Typing == Spec => []TypeOK
  BY Invariance, PTL

\* The address of a user counts as verified only after a mail with a token reached
\* it or an administrator vouched for it, in any interleaving of requests and
\* runs of the job, with any saves, deliveries and instances failing.
THEOREM Verified == Spec => []VerifiedByMail
<1>1. UnitInv => VerifiedByMail
  BY DEF UnitInv
<1>2. QED
  BY <1>1, Invariance, PTL

\* HandleVerifyEmail may use the user it looks up without a check: a delivered
\* mail was saved in the transaction that inserted its user, or after it.
THEOREM UserExists == Spec => []VerifiedUserExists
<1>1. UnitInv => VerifiedUserExists
  <2> SUFFICES ASSUME UnitInv, NEW q \in Request, request[q].pc = "read" PROVE row[Of(q)] # None
    BY DEF VerifiedUserExists, At
  <2>1. RequestInv(q)
    BY DEF UnitInv
  <2>2. request[q].op \notin Registers
    BY <2>1 DEF RequestInv, Registering
  <2>3. QED
    BY <2>1, <2>2 DEF RequestInv, Changing
<1>2. QED
  BY <1>1, Invariance, PTL

\* Whichever of the two saves succeeds, it saves a user whose registration raised
\* its event together with the verification mail.
THEOREM Registered == Spec => []RegisteredWithMail
<1>1. UnitInv => RegisteredWithMail
  BY DEF UnitInv
<1>2. QED
  BY <1>1, Invariance, PTL

\* A row leaves the outbox only by the save at the end of a run, which removes what
\* that run has delivered.
LEMMA OutboxStep ==
  ASSUME Next PROVE outbox \subseteq outbox' \/ \E i \in Instance : outbox' = outbox \ job[i].sent
<1>1. ASSUME NEW q \in Request, RequestStep(q) PROVE outbox \subseteq outbox'
  <2>1. Apply(q) \/ Unapplied \/ outbox' = outbox
    BY <1>1 DEF RequestStep, Begin, RegisterUser, CreateUser, Resend, Patch, Verify, StoreToken, TrackMail, ReadUser,
                DeleteToken, CommandFails, Save, SaveFails, Close, CloseFails, ClosePanics
  <2>2. QED
    BY <2>1 DEF Apply, Unapplied
<1>2. ASSUME NEW i \in Instance, JobStep(i) \/ Crash(i) \/ Restart(i)
      PROVE  outbox' \in {outbox, outbox \ job[i].sent}
  BY <1>2 DEF JobStep, StartRun, EndRun, EndRunFails, Deliver, DeliverFails, Crash, Restart
<1>3. QED
  BY <1>1, <1>2 DEF Next

\* No mail is lost: one leaves the outbox only after it was delivered, with any
\* number of instances running the job at the same time.
THEOREM NoMailLost == Spec => MailKept
<1>1. TypeOK /\ UnitInv /\ [Next]_vars => [outbox \ outbox' \subseteq delivered]_vars
  BY OutboxStep DEF UnitInv, Sent
<1>2. QED
  BY <1>1, Invariance, PTL DEF Spec, MailKept

=============================================================================
