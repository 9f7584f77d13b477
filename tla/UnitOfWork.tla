----------------------------- MODULE UnitOfWork -----------------------------
(***************************************************************************)
(* How a request changes the database, and how its mail leaves the system. *)
(*                                                                         *)
(* A handler only tracks changes.  SaveChangesBehaviour saves them in one  *)
(* transaction if the command succeeded, and if it is a behaviours.Policy: *)
(* CreateUser and PatchUser are, RegisterUser and VerifyEmail are not.     *)
(* When the request's scope is closed, whatever is still tracked is saved, *)
(* also the changes of a command that failed or could not be saved (unless *)
(* an insertion was already executed once: that one panics), and a save    *)
(* that fails then ends the instance (utils.PanicOnError).  Mails are rows *)
(* of the outbox, saved with the change that caused them; a job of the     *)
(* leader delivers them and removes the delivered ones when its own scope  *)
(* is closed.                                                              *)
(*                                                                         *)
(* The commands modelled are those on users: register or create one,       *)
(* verify the mail address, change the user, send the verification mail    *)
(* again.  A user row stands for the user and the credential inserted with *)
(* it.  Leadership is external: more than one instance may take itself for *)
(* the leader.                                                             *)
(***************************************************************************)
EXTENDS Naturals

CONSTANTS
    User,          \* identities of users
    Username,      \* [User -> their names], unique in the database
    Instance, Request, None,
    MaxPatches,    \* bound on the changes of users
    MaxFaults      \* bound on failing calls and crashes

ASSUME UnitAssumption ==
    MaxPatches \in Nat /\ MaxFaults \in Nat /\ None \notin User \union Instance \union BOOLEAN

VARIABLES
    row,        \* [User -> whether the address of the user's row is verified, or None]
    outbox,     \* the mails with a row in the outbox
    tokens,     \* the verification tokens in the key-value store, one per mail
    delivered,  \* the mails that reached their user
    up,         \* the instances that run
    request,    \* [Request -> the request in progress]
    job,        \* [Instance -> the run of the outbox job]
    created,    \* the ids given to new users
    patches, faults,
    queued, announced, vouched  \* history: mails ever saved, registrations whose
                                \* event was handled, users verified by a patch

vars == <<row, outbox, tokens, delivered, up, request, job, created, patches, faults,
          queued, announced, vouched>>

Mail == [user : User, cause : {"registration", "resend"}]
Registration(u) == [user |-> u, cause |-> "registration"]

\* A request with the changes it has tracked, and a run of the outbox job.
InProgress ==
    [pc : {"idle", "event", "mail", "read", "token", "save", "close"},
     at : Instance \union {None}, op : {"register", "create", "resend", "verify", "patch", None},
     mail : Mail \union {None}, current : BOOLEAN, verified : BOOLEAN \union {None},
     tracked : SUBSET {"user", "mail", "update"}, stamped : BOOLEAN]
Run == [pc : {"idle", "deliver"}, todo : SUBSET Mail, sent : SUBSET Mail]

Nothing == {}   \* no change tracked
Idle == [pc |-> "idle", at |-> None, op |-> None, mail |-> None, current |-> FALSE,
         verified |-> None, tracked |-> Nothing, stamped |-> FALSE]
Sleeping == [pc |-> "idle", todo |-> {}, sent |-> {}]

At(q, pc) == request[q].pc = pc
Of(q) == request[q].mail.user
Go(q, pc) == request' = [request EXCEPT ![q].pc = pc]

Init ==
    /\ row = [u \in User |-> None] /\ outbox = {} /\ tokens = {} /\ delivered = {}
    /\ up = Instance /\ request = [q \in Request |-> Idle]
    /\ job = [i \in Instance |-> Sleeping]
    /\ created = {} /\ patches = 0 /\ faults = 0 /\ queued = {} /\ announced = {} /\ vouched = {}

Fault == faults < MaxFaults /\ faults' = faults + 1

\* os.Exit, and any crash: what the instance held in memory is gone.
Stop(i, requests) ==
    /\ up' = up \ {i}
    /\ request' = [q \in Request |-> IF requests[q].at = i THEN Idle ELSE requests[q]]
    /\ job' = [job EXCEPT ![i] = Sleeping]

-----------------------------------------------------------------------------
(* SaveChanges.                                                            *)

\* Every tracked change can be applied: the name is free, and the row that is
\* updated has the version that was read.
Applicable(q) ==
    /\ "user" \in request[q].tracked =>
          \A u \in User : Username[u] = Username[Of(q)] => row[u] = None
    /\ "update" \in request[q].tracked =>
          request[q].current

\* Mutant: an update writes a default value to the column that was not changed.
Updated_AllColumns(q) == request[q].verified # FALSE

\* The row after the insertion, or after the update of the columns changed.
Updated(q) == IF request[q].verified = None THEN row[Of(q)] ELSE request[q].verified

\* What the other requests read of an updated row is no longer current: it has a
\* new version.
Versioned(q, requests) ==
    [p \in Request |->
        IF p # q /\ requests[p].mail # None /\ Of(p) = Of(q) /\ "update" \in request[q].tracked
        THEN [requests[p] EXCEPT !.current = FALSE] ELSE requests[p]]

\* Mutant: the mail is not part of the transaction that inserts its user.
Apply_MailApart(q) ==
    LET r == request[q]  mail == {m \in {r.mail} : r.tracked = {"mail"}} IN
    /\ row' = IF r.tracked \subseteq {"mail"} THEN row ELSE [row EXCEPT ![Of(q)] = Updated(q)]
    /\ outbox' = outbox \union mail /\ queued' = queued \union mail
    /\ vouched' = IF r.op # "verify" /\ r.verified = TRUE /\ row' # row
                  THEN vouched \union {Of(q)} ELSE vouched

\* The effect of the transaction.
Apply(q) ==
    LET r == request[q]  mail == {m \in {r.mail} : "mail" \in r.tracked} IN
    /\ row' = IF r.tracked \subseteq {"mail"} THEN row ELSE [row EXCEPT ![Of(q)] = Updated(q)]
    /\ outbox' = outbox \union mail /\ queued' = queued \union mail
    /\ vouched' = IF r.op # "verify" /\ r.verified = TRUE /\ row' # row
                  THEN vouched \union {Of(q)} ELSE vouched

Unapplied == UNCHANGED <<row, outbox, queued, vouched>>

\* SaveChangesBehaviour, after a command that is a Policy and succeeded.
Save(q) ==
    /\ At(q, "save") /\ Applicable(q) /\ Apply(q)
    /\ request' = Versioned(q, [request EXCEPT ![q].pc = "close", ![q].tracked = {}])
    /\ UNCHANGED <<tokens, delivered, up, job, created, patches, faults, announced>>

\* Mutant: what was applied before the failure is kept, instead of one transaction.
SaveFails_Partly(q) ==
    /\ At(q, "save") /\ Go(q, "close") /\ ~Applicable(q)
    /\ outbox' = outbox \union {m \in {request[q].mail} : "mail" \in request[q].tracked}
    /\ queued' = queued \union outbox'
    /\ UNCHANGED <<row, vouched, tokens, delivered, up, job, created, patches, faults, announced>>

\* The save fails: the tracker is not cleared.  If it was the commit that failed, or
\* a later statement, the row that was updated counts as unchanged from now on
\* (ClearChanges), what was inserted is stamped with a version of another type than
\* the one mapBase expects, and the transaction may have been committed.
SaveFails(q) ==
    /\ At(q, "save")
    /\ \/ /\ ~Applicable(q) /\ Go(q, "close") /\ Unapplied /\ UNCHANGED faults
       \/ /\ Fault /\ Go(q, "close") /\ Unapplied
       \/ /\ Applicable(q) /\ Fault
          /\ LET failed == [request EXCEPT ![q].pc = "close", ![q].tracked = @ \ {"update"},
                               ![q].stamped = request[q].tracked \ {"update"} # {}] IN
             \/ Apply(q) /\ request' = Versioned(q, failed)
             \/ Unapplied /\ request' = failed
    /\ UNCHANGED <<tokens, delivered, up, job, created, patches, announced>>

\* The close handler of the database context saves what is still tracked.
Close(q) ==
    /\ At(q, "close") /\ ~request[q].stamped /\ Applicable(q) /\ Apply(q)
    /\ request' = Versioned(q, [request EXCEPT ![q] = Idle])
    /\ UNCHANGED <<tokens, delivered, up, job, created, patches, faults, announced>>

\* If that save fails the instance ends.
CloseFails(q) ==
    /\ At(q, "close") /\ ~request[q].stamped
    /\ \/ ~Applicable(q) /\ Unapplied /\ Stop(request[q].at, request) /\ UNCHANGED faults
       \/ Fault /\ Unapplied /\ Stop(request[q].at, request)
       \/ Applicable(q) /\ Fault /\ Apply(q) /\ Stop(request[q].at, Versioned(q, request))
    /\ UNCHANGED <<tokens, delivered, created, patches, announced>>

\* The second insertion of what is stamped panics before it reaches the database:
\* the request ends (RecoverMiddleware), the instance goes on.
ClosePanics(q) ==
    /\ At(q, "close") /\ request[q].stamped /\ Unapplied
    /\ request' = [request EXCEPT ![q] = Idle]
    /\ UNCHANGED <<tokens, delivered, up, job, created, patches, faults, announced>>

-----------------------------------------------------------------------------
(* The commands.                                                           *)

Begin(q, i, pc, op, mail, verified, tracked) ==
    /\ At(q, "idle") /\ i \in up
    /\ request' = [request EXCEPT ![q] = [pc |-> pc, at |-> i, op |-> op, mail |-> mail,
                       current |-> FALSE, verified |-> verified, tracked |-> tracked, stamped |-> FALSE]]
    /\ UNCHANGED <<row, outbox, tokens, delivered, up, job, faults, queued, announced, vouched>>

NewUser(u) == u \notin created /\ created' = created \union {u}

\* HandleRegisterUser.
RegisterUser(q, i, u) ==
    /\ NewUser(u) /\ Begin(q, i, "event", "register", Registration(u), FALSE, {"user"})
    /\ UNCHANGED patches

\* HandleCreateUser, which may vouch for the address: then the event sends no mail.
CreateUser(q, i, u, vouch) ==
    /\ NewUser(u)
    /\ Begin(q, i, IF vouch THEN "save" ELSE "event", "create", Registration(u), vouch, {"user"})
    /\ UNCHANGED patches

\* ResendEmailVerification, by a user in the course of a login.
Resend(q, i, u) ==
    /\ row[u] # None /\ [user |-> u, cause |-> "resend"] \notin tokens \union queued
    /\ Begin(q, i, "event", "resend", [user |-> u, cause |-> "resend"], None, {})
    /\ UNCHANGED <<created, patches>>

\* HandleVerifyEmail, for the token of a mail the user received.  (That the token
\* expires only disables this action.)
Verify(q, i, m) ==
    /\ m \in delivered /\ m \in tokens
    /\ Begin(q, i, "read", "verify", m, TRUE, {}) /\ UNCHANGED <<created, patches>>

\* HandlePatchUser: another name, or the address verified or not.
Patch(q, i, u, verified) ==
    /\ row[u] # None /\ patches < MaxPatches /\ patches' = patches + 1
    /\ Begin(q, i, "read", "patch", Registration(u), verified, {}) /\ UNCHANGED created

\* The event handler, and the resending, store the token before they track the mail.
StoreToken(q) ==
    /\ At(q, "event") /\ Go(q, "mail") /\ tokens' = tokens \union {request[q].mail}
    /\ UNCHANGED <<row, outbox, delivered, up, job, created, patches, faults, queued, announced, vouched>>

\* The resending is no command, and RegisterUser no Policy: what they track is
\* saved when the scope is closed.
TrackMail(q) ==
    /\ At(q, "mail")
    /\ request' = [request EXCEPT ![q].tracked = @ \union {"mail"},
                       ![q].pc = IF request[q].op = "create" THEN "save" ELSE "close"]
    /\ announced' = IF request[q].op = "resend" THEN announced ELSE announced \union {Of(q)}
    /\ UNCHANGED <<row, outbox, tokens, delivered, up, job, created, patches, faults, queued, vouched>>

\* The row is read with its version (xmin), and its change, if it is one, is tracked.
ReadUser(q) ==
    /\ At(q, "read") /\ row[Of(q)] # None
    /\ request' = [request EXCEPT ![q].current = TRUE,
                       ![q].tracked = IF row[Of(q)] = request[q].verified THEN {} ELSE {"update"},
                       ![q].pc = IF request[q].op = "verify" THEN "token" ELSE "save"]
    /\ UNCHANGED <<row, outbox, tokens, delivered, up, job, created, patches, faults, queued, announced, vouched>>

\* VerifyEmail is no Policy either.
DeleteToken(q) ==
    /\ At(q, "token") /\ Go(q, "close") /\ tokens' = tokens \ {request[q].mail}
    /\ UNCHANGED <<row, outbox, delivered, up, job, created, patches, faults, queued, announced, vouched>>

\* A call fails and the command with it: nothing is saved until the scope is closed.
CommandFails(q) ==
    /\ request[q].pc \in {"event", "mail", "read", "token"} /\ Fault /\ Go(q, "close")
    /\ UNCHANGED <<row, outbox, tokens, delivered, up, job, created, patches, queued, announced, vouched>>

-----------------------------------------------------------------------------
(* OutboxSendingJob, run by an instance that takes itself for the leader.   *)
StartRun(i) ==
    /\ i \in up /\ job[i].pc = "idle" /\ outbox # {}
    /\ job' = [job EXCEPT ![i] = [pc |-> "deliver", todo |-> outbox, sent |-> {}]]
    /\ UNCHANGED <<row, outbox, tokens, delivered, up, request, created, patches, faults, queued, announced, vouched>>

Deliver(i, m) ==
    /\ m \in job[i].todo
    /\ job' = [job EXCEPT ![i].todo = @ \ {m}, ![i].sent = @ \union {m}]
    /\ delivered' = delivered \union {m}
    /\ UNCHANGED <<row, outbox, tokens, up, request, created, patches, faults, queued, announced, vouched>>

\* Mutant: the removal is tracked whether the mail was delivered or not.
DeliverFails_Removes(i, m) ==
    /\ m \in job[i].todo /\ Fault
    /\ job' = [job EXCEPT ![i].todo = @ \ {m}, ![i].sent = @ \union {m}]
    /\ delivered' \in {delivered, delivered \union {m}}
    /\ UNCHANGED <<row, outbox, tokens, up, request, created, patches, queued, announced, vouched>>

\* The delivery fails, or succeeds with an error: the next run tries again.
DeliverFails(i, m) ==
    /\ m \in job[i].todo /\ Fault
    /\ job' = [job EXCEPT ![i].todo = @ \ {m}]
    /\ delivered' \in {delivered, delivered \union {m}}
    /\ UNCHANGED <<row, outbox, tokens, up, request, created, patches, queued, announced, vouched>>

\* Mutant: the job still counts as running.
EndRun_StillRunning(i) ==
    /\ job[i].pc = "deliver" /\ job[i].todo = {}
    /\ outbox' = outbox \ job[i].sent /\ job' = [job EXCEPT ![i].sent = {}]
    /\ UNCHANGED <<row, tokens, delivered, up, request, created, patches, faults, queued, announced, vouched>>

\* The close handler of the job's scope saves the removals.
EndRun(i) ==
    /\ job[i].pc = "deliver" /\ job[i].todo = {}
    /\ outbox' = outbox \ job[i].sent /\ job' = [job EXCEPT ![i] = Sleeping]
    /\ UNCHANGED <<row, tokens, delivered, up, request, created, patches, faults, queued, announced, vouched>>

EndRunFails(i) ==
    /\ job[i].pc = "deliver" /\ job[i].todo = {} /\ Fault /\ Stop(i, request)
    /\ outbox' \in {outbox, outbox \ job[i].sent}
    /\ UNCHANGED <<row, tokens, delivered, created, patches, queued, announced, vouched>>

-----------------------------------------------------------------------------
Crash(i) ==
    /\ i \in up /\ Fault /\ Stop(i, request)
    /\ UNCHANGED <<row, outbox, tokens, delivered, created, patches, queued, announced, vouched>>

Restart(i) ==
    /\ i \notin up /\ up' = up \union {i}
    /\ UNCHANGED <<row, outbox, tokens, delivered, request, job, created, patches, faults, queued, announced, vouched>>

RequestStep(q) ==
    \/ \E i \in up :
          \/ \E u \in User :
                \/ RegisterUser(q, i, u)
                \/ \E b \in BOOLEAN : CreateUser(q, i, u, b)
                \/ Resend(q, i, u)
                \/ \E v \in BOOLEAN \union {None} : Patch(q, i, u, v)
          \/ \E m \in delivered : Verify(q, i, m)
    \/ StoreToken(q) \/ TrackMail(q) \/ ReadUser(q) \/ DeleteToken(q) \/ CommandFails(q)
    \/ Save(q) \/ SaveFails(q) \/ Close(q) \/ CloseFails(q) \/ ClosePanics(q)

JobStep(i) ==
    \/ StartRun(i) \/ EndRun(i) \/ EndRunFails(i)
    \/ \E m \in job[i].todo : Deliver(i, m) \/ DeliverFails(i, m)

Next ==
    \/ \E q \in Request : RequestStep(q)
    \/ \E i \in Instance : JobStep(i) \/ Crash(i) \/ Restart(i)

Spec == Init /\ [][Next]_vars

\* The job runs again and again, finishes what it began, and an instance that
\* ended is started again.
Fairness ==
    \A i \in Instance : WF_vars(StartRun(i)) /\ WF_vars(Restart(i)) /\ WF_vars(EndRun(i))
                        /\ WF_vars(\E m \in job[i].todo : Deliver(i, m))

FairSpec == Spec /\ Fairness

-----------------------------------------------------------------------------
TypeOK ==
    /\ row \in [User -> BOOLEAN \union {None}]
    /\ outbox \subseteq queued /\ queued \subseteq Mail /\ tokens \subseteq Mail /\ delivered \subseteq queued
    /\ up \subseteq Instance /\ announced \subseteq created /\ created \subseteq User /\ vouched \subseteq User
    /\ patches \in 0..MaxPatches /\ faults \in 0..MaxFaults
    /\ request \in [Request -> InProgress] /\ job \in [Instance -> Run]
    /\ \A i \in Instance : job[i].todo \union job[i].sent \subseteq queued
    /\ \A q \in Request : request[q].pc # "idle" => request[q].at \in up

\* The address of a user counts as verified only if a mail with a token reached
\* it, or an administrator vouched for it: whatever is lost, repeated or saved
\* late between the key-value store, the database and the mail server.
VerifiedByMail ==
    \A u \in User : row[u] = TRUE =>
        u \in vouched \/ \E m \in delivered : m.user = u

\* HandleVerifyEmail uses the user it looks up without a check: a token that was
\* sent always has a user in the database, although the token is stored first.
VerifiedUserExists ==
    \A q \in Request : At(q, "read") => row[Of(q)] # None

\* A user whose registration raised its event is saved together with the mail,
\* by whichever of the two saves succeeds.
RegisteredWithMail ==
    \A u \in announced : row[u] # None => Registration(u) \in queued

\* A mail leaves the outbox only after it was delivered, with any number of
\* instances running the job.
MailKept == [][outbox \ outbox' \subseteq delivered]_vars

\* Again and again every mail in the outbox has been delivered: none is left behind,
\* whatever crashes, fails or ends the instance in between (a finite number of times).
MailDelivered == []<>(outbox \subseteq delivered)

\* What PanicOnError is expected to do: a panic ends the request or the run of
\* the job, not the instance.  (Without faults.)
InstancesStayUp == up = Instance
=============================================================================
