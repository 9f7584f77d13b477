---------------------------- MODULE Administration ----------------------------
(***************************************************************************)
(* The commands of the administration interface on the data of several     *)
(* virtual servers (tenants), from the policy that admits a request to the *)
(* close of its scope.                                                     *)
(*                                                                         *)
(* A request of a unit of work goes through PolicyBehaviour, which looks   *)
(* the virtual server up (on PostgreSQL the row stays cached for the rest  *)
(* of the request), the handler, SaveChangesBehaviour, the audit log, and  *)
(* the close of the scope, which saves again what is still tracked.  The   *)
(* requests of the units interleave between these steps; each handler is   *)
(* one action, which reads the database and tracks changes.                *)
(*                                                                         *)
(* A call names its operation, the caller, the virtual server by its name, *)
(* the project by its slug, the row it is about and the values to set.     *)
(***************************************************************************)
EXTENDS Queries, FiniteSets

CONSTANTS
    Unit,        \* requests, each handles one call
    CallsOf,     \* [Unit -> the calls it may make]
    Backends,    \* the back ends to run on
    InitialRows, \* the database at the start
    InitialKeys, \* the keys at the start: pairs of a server's name and an algorithm
    MaxFaults    \* bound on failures of the key store and of a transaction

ASSUME AdministrationAssumption ==
    Backends \subseteq {"postgres", "memory"} /\ DOMAIN CallsOf = Unit /\ MaxFaults \in Nat

\* The virtual server a row belongs to: its own, or that of its user.
ServerIn(rows, id) ==
    LET kind == rows[id].kind  f == rows[id].fields IN
    IF kind = "virtualServer" THEN id
    ELSE IF "virtualServerId" \in Fields(kind) THEN f.virtualServerId
    ELSE IF "userId" \in Fields(kind) THEN rows[f.userId].fields.virtualServerId
    ELSE Nil

\* The rows a row refers to are of its virtual server, those of a scope of its project.
Apart(rows, id) ==
    /\ \A c \in DOMAIN RefersTo(rows[id].kind) :
          LET target == rows[id].fields[c] IN
          target # Nil => ServerIn(rows, target) \in {Nil, ServerIn(rows, id)}
    /\ rows[id].kind = "scope" =>
          rows[rows[id].fields.resourceServerId].fields.projectId = rows[id].fields.projectId

\* A row is complete, and refers to rows of the right kind.
Complete(row) ==
    /\ row = [kind |-> row.kind, fields |-> row.fields, version |-> row.version, live |-> row.live]
    /\ row.kind \in Kind /\ DOMAIN row.fields = Fields(row.kind)
    /\ row.version \in Nat /\ row.live \in BOOLEAN

Whole(rows, id) ==
    /\ Complete(rows[id])
    /\ \A c \in DOMAIN RefersTo(rows[id].kind) :
          LET target == rows[id].fields[c] IN
          \/ target = Nil /\ c = "groupId"
          \/ target \in DOMAIN rows /\ rows[target].kind = RefersTo(rows[id].kind)[c]

\* No two rows of a kind have the same unique columns (no two nulls are the same).
Distinct(rows) ==
    \A id, other \in DOMAIN rows : \A columns \in TableOf[rows[id].kind].unique :
        /\ rows[id].live /\ rows[other].live /\ rows[other].kind = rows[id].kind
        /\ \A c \in columns : rows[other].fields[c] = rows[id].fields[c]
        /\ \A c \in columns \intersect DOMAIN RefersTo(rows[id].kind) : rows[id].fields[c] # Nil
        => other = id

\* The ids of new rows are new; the rows at the start are sound, and tenants are apart.
ASSUME InitialRowsAssumption ==
    /\ \A id \in DOMAIN InitialRows :
          /\ id # Nil /\ id[1] \notin Unit
          /\ Whole(InitialRows, id) /\ InitialRows[id].live
          /\ InitialRows[id].kind # "auditLog" => Apart(InitialRows, id)
    /\ "postgres" \in Backends => Distinct(InitialRows)

\* The keys at the start are those of virtual servers that there are.
ASSUME InitialKeysAssumption ==
    \A k \in InitialKeys : \E id \in DOMAIN InitialRows :
        InitialRows[id].kind = "virtualServer" /\ InitialRows[id].fields.name = k[1]

\* What the operations make and change.
MadeBy == [CreateProject |-> "project", CreateRole |-> "role",
           CreateResourceServer |-> "resourceServer", CreateResourceServerScope |-> "scope",
           CreateApplication |-> "application", CreateUser |-> "user", CreateServiceUser |-> "user",
           CreatePasswordRule |-> "passwordRule"]
SetBy == [PatchProject |-> "project", PatchRole |-> "role", PatchResourceServer |-> "resourceServer",
          PatchApplication |-> "application", PatchVirtualServer |-> "virtualServer"]
ByHandler == {"virtualServerId", "projectId", "resourceServerId"}

\* The values of an application are set in this order, up to the first that is refused.
PatchOrder == <<"displayName", "claimsMappingScript", "accessTokenHeaderType", "deviceFlowEnabled",
                "redirectUris", "postLogoutRedirectUris", "signingAlgorithm">>
SystemFields == {"claimsMappingScript", "redirectUris", "postLogoutRedirectUris"}

Gives(values, kind, others) ==
    /\ DOMAIN values \subseteq Fields(kind)
    /\ EntityOf[kind].given \subseteq DOMAIN values \union others

IsUser(id) == id \in DOMAIN InitialRows /\ InitialRows[id].kind = "user"

\* A call brings the values its command has; the caller is a user.  Of the commands the
\* system user runs, the one that sets the password of a user is modelled here; an
\* administrator gives a password to a user in creation only, which is left out.
ASSUME CallsAssumption ==
    \A u \in Unit : \A c \in CallsOf[u] :
        /\ c.op \in DOMAIN MadeBy => Gives(c.with, MadeBy[c.op], ByHandler)
        /\ c.op \in DOMAIN SetBy => DOMAIN c.with \subseteq SettersOf[SetBy[c.op]]
        /\ c.op = "PatchApplication" => DOMAIN c.with \subseteq Range(PatchOrder)
        /\ c.op = "CreateVirtualServer" =>
              Gives(c.with.server, "virtualServer", {}) /\ c.with.admin \in BOOLEAN
        /\ c.op = "SetPassword" => IsUser(c.on)
        /\ c.by # "system" => IsUser(c.who)
        /\ c.by = "system" <=> c.op = "SetPassword"

VARIABLES
    unit,    \* [Unit -> the request]
    keys,    \* the signing keys in the key store
    up,      \* the instance runs
    faults,
    wrote,   \* history: the units whose request changed the database
    overlap  \* history: two requests ran at the same time

vars == <<backend, db, unit, keys, up, faults, wrote, overlap>>

Waiting == [pc |-> "idle", call |-> Nil, server |-> Nil, seen |-> Nil, work |-> <<>>,
            failed |-> FALSE, lost |-> FALSE]

Init ==
    /\ backend \in Backends /\ db = InitialRows /\ keys = InitialKeys
    /\ unit = [u \in Unit |-> Waiting] /\ up = TRUE /\ faults = 0
    /\ wrote = {} /\ overlap = FALSE

At(u, pc) == up /\ unit[u].pc = pc
Call(u) == unit[u].call
Server(u) == unit[u].server
Running(u) == unit[u].pc \notin {"idle", "done"}
Fault == faults < MaxFaults /\ faults' = faults + 1

-----------------------------------------------------------------------------
(* The policy.                                                             *)

\* Commands that are no behaviours.Policy (they have no GetRequestName): neither
\* PolicyBehaviour nor SaveChangesBehaviour applies to them, although one of them says who
\* may run it.
Unchecked == {"UpdatePasswordRule", "CreateResourceServerScope"}

\* The permissions of the roles: a system administrator has all but the one of the
\* system user, the administrator of a virtual server cannot create others.  The system
\* user (used inside the server only) may do everything.
Allowed(by, op) ==
    \/ by \in {"system", "systemAdmin"} \/ op \in Unchecked
    \/ by = "admin" /\ op # "CreateVirtualServer"

\* The request is evaluated: refused at once, or handed to its handler.  A request of
\* the system user names no virtual server.
Admit(u) ==
    /\ At(u, "idle")
    /\ \E c \in CallsOf[u] :
          \E server \in IF c.by = "system" THEN {Nil} ELSE First("virtualServer", [name |-> c.at]) :
             LET admitted == (server # Nil \/ c.by = "system") /\ Allowed(c.by, c.op) IN
             unit' = [unit EXCEPT ![u] =
                [pc |-> IF admitted THEN "handle" ELSE "done", call |-> c, server |-> server,
                 seen |-> IF server = Nil THEN Nil ELSE db[server], work |-> <<>>,
                 failed |-> ~admitted, lost |-> FALSE]]
    /\ overlap' = (overlap \/ \E v \in Unit \ {u} : Running(v))
    /\ UNCHANGED <<backend, db, keys, up, faults, wrote>>

-----------------------------------------------------------------------------
(* The handlers.                                                           *)

Handles(u, op) == At(u, "handle") /\ Call(u).op = op
Values(u) == Call(u).with
New1(u, name) == <<u, name>>   \* the id of a new row

\* The virtual server as the handler sees it.
ServerRow(u) == IF Postgres THEN unit[u].seen ELSE db[Server(u)]
Algorithms(fields) == {fields.primarySigningAlgorithm} \union fields.additionalSigningAlgorithms

\* An application signs with the algorithm of its virtual server, or with one it offers.
Offers(rows) ==
    \A a \in DOMAIN rows :
        LET f == rows[a].fields IN
        rows[a].kind = "application" /\ rows[a].live /\ f.signingAlgorithm # Nothing =>
            f.signingAlgorithm \in Algorithms(rows[f.virtualServerId].fields)

\* So it is at the start, when no two requests have overlapped.
ASSUME OffersAssumption == "postgres" \in Backends => Offers(InitialRows)

SetOn(row, values) == [row EXCEPT !.fields = values ++ @]

\* The handler returns, after tracking work; on the memory back end the objects that were
\* set (a function from ids to values) are the rows.
Return(u, ok, set, work) ==
    /\ unit' = [unit EXCEPT ![u].pc = IF ok /\ Call(u).op \notin Unchecked THEN "save" ELSE "close",
                            ![u].failed = ~ok, ![u].work = work]
    /\ db' = IF Postgres THEN db
             ELSE [id \in DOMAIN db |->
                      IF id \in DOMAIN set THEN SetOn(db[id], set[id]) ELSE db[id]]
    /\ wrote' = IF db' # db THEN wrote \union {u} ELSE wrote
    /\ UNCHANGED <<backend, up, overlap>>

\* Mutant: what a handler does is tracked before it checks the request.
Respond_TracksFirst(u, ok, work) == Return(u, ok, <<>>, work) /\ UNCHANGED <<keys, faults>>

Respond(u, ok, work) == Return(u, ok, <<>>, IF ok THEN work ELSE <<>>) /\ UNCHANGED <<keys, faults>>

\* Sets values on the entity of a row and tracks the update.
Set(u, id, values) ==
    /\ Return(u, id # Nil, IF id = Nil THEN <<>> ELSE Only(id, values),
              IF id = Nil THEN <<>> ELSE <<UpdateOf(id, db[id], values)>>)
    /\ UNCHANGED <<keys, faults>>

InServer(u, values) == [virtualServerId |-> Server(u)] ++ values
Project(u) == First("project", InServer(u, [slug |-> Call(u).project]))

\* The row the call is about, in the project of the call.
InProject(u, p, values) == InServer(u, [projectId |-> p]) ++ values
Target(u, kind, p) == IF p = Nil THEN {Nil} ELSE First(kind, InProject(u, p, [id |-> Call(u).on]))

\* The system project can be changed by the system user only.
Open(u, p) == p # Nil /\ (db[p].fields.systemProject => Call(u).by = "system")

CreateProject(u) ==
    /\ Handles(u, "CreateProject")
    /\ Respond(u, TRUE, <<Insertion(New1(u, "project"), "project", InServer(u, Values(u)))>>)

PatchProject(u) ==
    /\ Handles(u, "PatchProject")
    /\ \E p \in Project(u) : Set(u, p, Values(u))

\* Mutant: any user, also one of another virtual server.
AssignRoleToUser_AnyUser(u) ==
    /\ Handles(u, "AssignRoleToUser")
    /\ \E p \in Project(u) : \E r \in Target(u, "role", p) :
          \E user \in First("user", [id |-> Values(u).userId]) :
             Respond(u, Open(u, p) /\ r # Nil /\ user # Nil,
                     <<Insertion(New1(u, "assignment"), "assignment",
                                 [userId |-> user, roleId |-> r, groupId |-> Nil])>>)

AssignRoleToUser(u) ==
    /\ Handles(u, "AssignRoleToUser")
    /\ \E p \in Project(u) : \E r \in Target(u, "role", p) :
          \E user \in First("user", InServer(u, [id |-> Values(u).userId])) :
             Respond(u, Open(u, p) /\ r # Nil /\ user # Nil,
                     <<Insertion(New1(u, "assignment"), "assignment",
                                 [userId |-> user, roleId |-> r, groupId |-> Nil])>>)

CreateRole(u) ==
    /\ Handles(u, "CreateRole")
    /\ \E p \in Project(u) :
          Respond(u, Open(u, p), <<Insertion(New1(u, "role"), "role", InProject(u, p, Values(u)))>>)

PatchRole(u) ==
    /\ Handles(u, "PatchRole")
    /\ \E p \in Project(u) : \E r \in Target(u, "role", p) :
          Set(u, IF Open(u, p) THEN r ELSE Nil, Values(u))

\* Mutant: the roles of the system project can be deleted.
DeleteRole_Unguarded(u) ==
    /\ Handles(u, "DeleteRole")
    /\ \E p \in Project(u) : \E r \in Target(u, "role", p) :
          Respond(u, p # Nil, IF r = Nil THEN <<>> ELSE <<Deletion("role", r)>>)

\* A role that is gone is no error.
DeleteRole(u) ==
    /\ Handles(u, "DeleteRole")
    /\ \E p \in Project(u) : \E r \in Target(u, "role", p) :
          Respond(u, Open(u, p), IF r = Nil THEN <<>> ELSE <<Deletion("role", r)>>)

CreateResourceServer(u) ==
    /\ Handles(u, "CreateResourceServer")
    /\ \E p \in Project(u) :
          Respond(u, Open(u, p), <<Insertion(New1(u, "resourceServer"), "resourceServer",
                                             InProject(u, p, Values(u)))>>)

PatchResourceServer(u) ==
    /\ Handles(u, "PatchResourceServer")
    /\ \E p \in Project(u) : \E s \in Target(u, "resourceServer", p) : Set(u, s, Values(u))

CreateResourceServerScope(u) ==
    /\ Handles(u, "CreateResourceServerScope")
    /\ \E p \in Project(u) : \E s \in Target(u, "resourceServer", p) :
          Respond(u, s # Nil, <<Insertion(New1(u, "scope"), "scope",
                                          InProject(u, p, [resourceServerId |-> s] ++ Values(u)))>>)

-----------------------------------------------------------------------------
(* The handlers for applications and virtual servers.                      *)

CreateApplication(u) ==
    /\ Handles(u, "CreateApplication")
    /\ \E p \in Project(u) :
          LET alg == Values(u).signingAlgorithm IN
          Respond(u, Open(u, p) /\ (alg # Nothing => alg \in Algorithms(ServerRow(u).fields)),
                  <<Insertion(New1(u, "application"), "application", InProject(u, p, Values(u)))>>)

\* An application that is gone is no error; that of the system stays.
DeleteApplication(u) ==
    /\ Handles(u, "DeleteApplication")
    /\ \E p \in Project(u) : \E a \in Target(u, "application", p) :
          Respond(u, p # Nil /\ (a # Nil => ~db[a].fields.systemApplication),
                  IF a = Nil THEN <<>> ELSE <<Deletion("application", a)>>)

RefusedBy(u, a, c) ==
    \/ c \in SystemFields /\ db[a].fields.systemApplication
    \/ c = "signingAlgorithm" /\ Values(u)[c] \notin Algorithms(ServerRow(u).fields)

\* The places in the order of the values given.
Given(u) == {i \in DOMAIN PatchOrder : PatchOrder[i] \in DOMAIN Values(u)}

PatchApplication(u) ==
    /\ Handles(u, "PatchApplication")
    /\ \E p \in Project(u) : \E a \in Target(u, "application", p) :
          IF a = Nil THEN Respond(u, FALSE, <<>>)
          ELSE LET refused == {i \in Given(u) : RefusedBy(u, a, PatchOrder[i])}
                   set == {PatchOrder[i] : i \in {j \in Given(u) : \A r \in refused : j < r}} IN
               /\ Return(u, refused = {}, Only(a, Restrict(Values(u), set)),
                         IF refused = {} THEN <<UpdateOf(a, db[a], Values(u))>> ELSE <<>>)
               /\ UNCHANGED <<keys, faults>>

\* A key for each algorithm.  If the key store fails, those generated before stay.
GenerateKeys(name, algorithms, ok) ==
    IF ok THEN keys' = keys \union ({name} \X algorithms) /\ UNCHANGED faults
    ELSE Fault /\ \E some \in SUBSET algorithms :
                    some # algorithms /\ keys' = keys \union ({name} \X some)

\* The algorithms of a server that have no key yet.
Keyless(fields) == {a \in Algorithms(fields) : <<fields.name, a>> \notin keys}

\* Mutant: the applications are not asked before an algorithm is removed.
PatchVirtualServer_Unasked(u) ==
    /\ Handles(u, "PatchVirtualServer")
    /\ LET s == Server(u)  fields == Values(u) ++ ServerRow(u).fields IN
       /\ GenerateKeys(fields.name, Keyless(fields), TRUE)
       /\ Return(u, TRUE, Only(s, Values(u)), <<UpdateOf(s, ServerRow(u), Values(u))>>)

\* The values are set; an algorithm that an application uses cannot be removed; then the
\* update is tracked, and the keys of new algorithms are generated.
PatchVirtualServer(u) ==
    /\ Handles(u, "PatchVirtualServer")
    /\ LET s == Server(u)
           fields == Values(u) ++ ServerRow(u).fields
           algorithms == {"primarySigningAlgorithm", "additionalSigningAlgorithms"}
                            \intersect DOMAIN Values(u)
           used == {db[a].fields.signingAlgorithm : a \in
                        Select("application", [virtualServerId |-> s])} \ {Nothing}
           allowed == algorithms # {} => used \subseteq Algorithms(fields) IN
       \E ok \in {allowed} \union {FALSE} :
          /\ IF algorithms # {} /\ allowed THEN GenerateKeys(fields.name, Keyless(fields), ok)
             ELSE ok = allowed /\ UNCHANGED <<keys, faults>>
          /\ Return(u, ok, Only(s, Values(u)),
                    IF allowed THEN <<UpdateOf(s, ServerRow(u), Values(u))>> ELSE <<>>)

-----------------------------------------------------------------------------
(* The handlers for users, their credentials and metadata, password rules. *)

\* A user whose address is not verified gets a mail, from the server's template.
CreateUser(u) ==
    /\ Handles(u, "CreateUser")
    /\ LET user == Insertion(New1(u, "user"), "user", InServer(u, Values(u)))
           mail == Insertion(New1(u, "outboxMessage"), "outboxMessage",
                             [type |-> "send_email", details |-> user.id])
           template == Select("template", InServer(u, [templateType |-> "email_verification"])) # {}
           silent == Values(u).emailVerified IN
       /\ Return(u, silent \/ template, <<>>,
                 IF ~silent /\ template THEN <<user, mail>> ELSE <<user>>)
       /\ UNCHANGED <<keys, faults>>

CreateServiceUser(u) ==
    /\ Handles(u, "CreateServiceUser")
    /\ Respond(u, TRUE, <<Insertion(New1(u, "user"), "user", InServer(u, Values(u)))>>)

ServiceUser(u) == First("user", InServer(u, [id |-> Call(u).on, serviceUser |-> TRUE]))
KeyCredential(id, user, key) ==
    Insertion(id, "credential", [userId |-> user, type |-> "service_user_key", details |-> key])

AssociateServiceUserPublicKey(u) ==
    /\ Handles(u, "AssociateServiceUserPublicKey")
    /\ \E user \in ServiceUser(u) :
          Respond(u, user # Nil, <<KeyCredential(New1(u, "credential"), user, Values(u).key)>>)

RemoveServiceUserPublicKey(u) ==
    /\ Handles(u, "RemoveServiceUserPublicKey")
    /\ \E user \in ServiceUser(u) :
          \E c \in IF user = Nil THEN {Nil}
                   ELSE First("credential", [userId |-> user, type |-> "service_user_key",
                                             detailKid |-> Values(u).key]) :
             Respond(u, c # Nil, <<Deletion("credential", c)>>)

PasswordDetails(u) == [type |-> "password", details |-> Values(u).password]

\* The user is not looked up, only the credential: replaced, or added.
SetPassword(u) ==
    /\ Handles(u, "SetPassword")
    /\ \E c \in First("credential", [userId |-> Call(u).on, type |-> "password"]) :
          IF c = Nil
          THEN Respond(u, TRUE, <<Insertion(New1(u, "credential"), "credential",
                                            [userId |-> Call(u).on] ++ PasswordDetails(u))>>)
          ELSE Set(u, c, PasswordDetails(u))

\* Mutant: a user is looked up in any virtual server.
UserOf_AnyServer(u) == First("user", [id |-> Call(u).on])

UserOf(u) == First("user", InServer(u, [id |-> Call(u).on]))
\* Mutant: an application is looked up in any virtual server.
ApplicationOf_AnyServer(u) == First("application", [id |-> Values(u).applicationId])

ApplicationOf(u) == First("application", InServer(u, [id |-> Values(u).applicationId]))
MetadataOf(user, a) ==
    IF user = Nil \/ a = Nil THEN {Nil}
    ELSE First("appUserMetadata", [applicationId |-> a, userId |-> user])
Metadata(u) == [metadata |-> Values(u).metadata]

UpdateUserMetadata(u) ==
    /\ Handles(u, "UpdateUserMetadata")
    /\ \E user \in UserOf(u) : Set(u, user, Metadata(u))

\* The value stands for the stored metadata merged with the given.
PatchUserMetadata(u) ==
    /\ Handles(u, "PatchUserMetadata")
    /\ \E user \in UserOf(u) : Set(u, user, Metadata(u))

\* Inserted or replaced.  A user that does not exist panics, which ends the request.
UpdateUserAppMetadata(u) ==
    /\ Handles(u, "UpdateUserAppMetadata")
    /\ \E user \in UserOf(u) : \E a \in ApplicationOf(u) : \E m \in MetadataOf(user, a) :
          IF m # Nil THEN Set(u, m, Metadata(u))
          ELSE Respond(u, user # Nil /\ a # Nil,
                       <<Insertion(New1(u, "appUserMetadata"), "appUserMetadata",
                                   [userId |-> user, applicationId |-> a] ++ Metadata(u))>>)

PatchUserAppMetadata(u) ==
    /\ Handles(u, "PatchUserAppMetadata")
    /\ \E user \in UserOf(u) : \E a \in ApplicationOf(u) : \E m \in MetadataOf(user, a) :
          Set(u, m, Metadata(u))

RuleOf(u) == First("passwordRule", InServer(u, [type |-> Values(u).type]))

CreatePasswordRule(u) ==
    /\ Handles(u, "CreatePasswordRule")
    /\ Respond(u, RuleOf(u) = {Nil},
               <<Insertion(New1(u, "passwordRule"), "passwordRule", InServer(u, Values(u)))>>)

\* A rule that cannot be read cannot be updated.
UpdatePasswordRule(u) ==
    /\ Handles(u, "UpdatePasswordRule")
    /\ \E r \in RuleOf(u) :
          Set(u, IF Readable("passwordRule") THEN r ELSE Nil, [details |-> Values(u).details])

-----------------------------------------------------------------------------
(* A new virtual server.                                                   *)

\* Everything a server begins with is tracked after its row: a template, the system
\* project with the application and the role of its administrators.  (The second role of
\* the system project, that the initial server alone has, is left out.)
Default(u, name) == <<u, "default", name>>

DefaultTemplates(u, server) ==
    <<Insertion(Default(u, "file"), "file",
                [name |-> "email_verification_template", mimeType |-> "text/plain", content |-> "t"]),
      Insertion(Default(u, "template"), "template",
                [virtualServerId |-> server, fileId |-> Default(u, "file"),
                 type |-> "email_verification"])>>

SystemProjectOf(u, server) ==
    Insertion(Default(u, "project"), "project",
              [virtualServerId |-> server, slug |-> "system", name |-> "System",
               description |-> Blank, systemProject |-> TRUE])

DefaultApplications(u, within) ==
    Insertion(Default(u, "application"), "application",
              [name |-> "admin-ui", displayName |-> "Admin Application", type |-> "public",
               redirectUris |-> {"auth"}, postLogoutRedirectUris |-> {"logout"},
               hashedSecret |-> "generated", systemApplication |-> TRUE] ++ within)

DefaultAdminRoles(u, within) ==
    Insertion(Default(u, "role"), "role", [name |-> "admin", description |-> Blank] ++ within)

\* A project of the request, with an application, a role and a resource server.
RequestedProject(u, server) ==
    LET project == <<u, "project">>
        within == [virtualServerId |-> server, projectId |-> project] IN
    <<Insertion(project, "project",
                [virtualServerId |-> server, slug |-> "p", name |-> "p", description |-> Blank]),
      Insertion(New1(u, "application"), "application",
                [name |-> "app", displayName |-> Blank, type |-> "public", redirectUris |-> {}] ++ within),
      Insertion(New1(u, "role"), "role", [name |-> "r", description |-> Blank] ++ within),
      Insertion(New1(u, "resourceServer"), "resourceServer",
                [slug |-> "rs", name |-> "rs", description |-> Blank] ++ within)>>

Assignment(u, user, role) ==
    Insertion(<<u, "assignment", user[2], Last(role)>>, "assignment",
              [userId |-> user, roleId |-> role, groupId |-> Nil])

\* The administrator, if the request names one, with a password and the role; its further
\* roles are left out.
RequestedAdmin(u, server) ==
    LET admin == New1(u, "user") IN
    IF Values(u).admin
    THEN <<Insertion(admin, "user",
                     [username |-> "admin", displayName |-> "Admin", primaryEmail |-> "admin",
                      virtualServerId |-> server, emailVerified |-> TRUE]),
           Insertion(New1(u, "credential"), "credential",
                     [userId |-> admin, type |-> "password", details |-> "hash"]),
           Assignment(u, admin, Default(u, "role"))>>
    ELSE <<>>

\* A service user of the request, with its key and a role.
RequestedServiceUser(u, server) ==
    LET service == New1(u, "serviceUser") IN
    <<Insertion(service, "user",
                [username |-> "service", displayName |-> Blank, primaryEmail |-> Blank,
                 virtualServerId |-> server, serviceUser |-> TRUE]),
      KeyCredential(New1(u, "key"), service, "k"),
      Assignment(u, service, New1(u, "role"))>>

\* Mutant: the role of the administrators is not tracked.
ServerContents_WithoutRole(u, server) ==
    LET within == [virtualServerId |-> server, projectId |-> Default(u, "project")] IN
    DefaultTemplates(u, server)
        \o <<SystemProjectOf(u, server), DefaultApplications(u, within)>>
        \o RequestedProject(u, server)
        \o SelectSeq(RequestedAdmin(u, server), LAMBDA e : e.kind # "assignment")
        \o RequestedServiceUser(u, server)

ServerContents(u, server) ==
    LET within == [virtualServerId |-> server, projectId |-> Default(u, "project")] IN
    DefaultTemplates(u, server)
        \o <<SystemProjectOf(u, server), DefaultApplications(u, within), DefaultAdminRoles(u, within)>>
        \o RequestedProject(u, server)
        \o RequestedAdmin(u, server) \o RequestedServiceUser(u, server)

\* Mutant: nothing is tracked before the request is known to succeed.
CreateVirtualServer_KeysFirst(u) ==
    /\ Handles(u, "CreateVirtualServer")
    /\ LET server == Insertion(New1(u, "virtualServer"), "virtualServer", Values(u).server) IN
       /\ GenerateKeys(server.fields.name, Algorithms(server.fields), TRUE)
       /\ Return(u, Values(u).rolesKnown, <<>>,
                 IF Values(u).rolesKnown THEN <<server>> \o ServerContents(u, server.id) ELSE <<>>)

\* The row is tracked, then the keys are generated: if that fails, nothing else is
\* tracked.  A role to assign that is not known fails when everything is tracked.
CreateVirtualServer(u) ==
    /\ Handles(u, "CreateVirtualServer")
    /\ LET server == Insertion(New1(u, "virtualServer"), "virtualServer", Values(u).server) IN
       \E generated \in BOOLEAN :
          /\ GenerateKeys(server.fields.name, Algorithms(server.fields), generated)
          /\ Return(u, generated /\ Values(u).rolesKnown, <<>>,
                    <<server>> \o IF generated THEN ServerContents(u, server.id) ELSE <<>>)

-----------------------------------------------------------------------------
(* The end of a request.                                                   *)

\* The rows after a transaction, and what is left of the request.
Commit(u, rows, rest) ==
    /\ db' = rows /\ unit' = [unit EXCEPT ![u] = rest]
    /\ wrote' = IF rows # db THEN wrote \union {u} ELSE wrote

\* The audit entry of a request that succeeded; those of the system user without a
\* virtual server are not logged.
AuditEntry(u) ==
    IF Call(u).by = "system" THEN <<>>
    ELSE <<Insertion(New1(u, "auditLog"), "auditLog",
             [virtualServerId |-> Server(u), userId |-> Call(u).who, requestType |-> Call(u).op,
              request |-> Blank, response |-> Blank, allowed |-> TRUE, allowReasonType |-> "permission",
              allowReason |-> Blank])>>

\* Mutant: the request is logged also if its changes could not be saved.
Save_LogsFailures(u) ==
    /\ At(u, "save")
    /\ LET s == Saved(db, unit[u].work)  closing == [unit[u] EXCEPT !.pc = "close"] IN
       IF s.ok THEN Commit(u, s.rows, [closing EXCEPT !.work = AuditEntry(u)])
       ELSE Commit(u, db, [closing EXCEPT !.failed = TRUE, !.work = AuditEntry(u)])
    /\ UNCHANGED <<backend, keys, up, faults, overlap>>

\* SaveChangesBehaviour, then the audit entry is tracked.
Save(u) ==
    /\ At(u, "save")
    /\ LET s == Saved(db, unit[u].work)  closing == [unit[u] EXCEPT !.pc = "close"] IN
       IF s.ok THEN Commit(u, s.rows, [closing EXCEPT !.work = AuditEntry(u)])
       ELSE Commit(u, db, [closing EXCEPT !.failed = TRUE, !.work = AfterFailure(@, s.done)])
    /\ UNCHANGED <<backend, keys, up, faults, overlap>>

\* The database does not answer: the transaction was not begun, or a statement or the
\* commit failed; a commit that failed may have happened nevertheless.
SaveLost(u) ==
    /\ At(u, "save") /\ Postgres /\ Fault
    /\ LET s == Saved(db, unit[u].work)
           closing == [unit[u] EXCEPT !.pc = "close", !.failed = TRUE, !.lost = TRUE] IN
       \/ \E done \in 0 .. s.done :
             Commit(u, db, [closing EXCEPT !.work = AfterFailure(@, done)])
       \/ s.ok /\ Commit(u, s.rows, [closing EXCEPT !.work = AfterFailure(@, s.done)])
    /\ UNCHANGED <<backend, keys, up, overlap>>

\* The close of the scope saves what is tracked.  If it fails the process ends, unless it
\* is on an insertion that was executed before: then the request panics.
Close(u) ==
    /\ At(u, "close")
    /\ LET s == Saved(db, unit[u].work)  done == [unit[u] EXCEPT !.pc = "done", !.work = <<>>]
           next == unit[u].work[s.done + 1] IN
       IF s.ok THEN Commit(u, s.rows, done) /\ UNCHANGED up
       ELSE Commit(u, db, done) /\ up' = (next.change = "added" /\ next.stamped)
    /\ UNCHANGED <<backend, keys, faults, overlap>>

Handle(u) ==
    \/ CreateProject(u) \/ PatchProject(u)
    \/ AssignRoleToUser(u) \/ CreateRole(u) \/ PatchRole(u) \/ DeleteRole(u)
    \/ CreateResourceServer(u) \/ PatchResourceServer(u) \/ CreateResourceServerScope(u)
    \/ CreateApplication(u) \/ DeleteApplication(u) \/ PatchApplication(u)
    \/ PatchVirtualServer(u) \/ CreateVirtualServer(u)
    \/ CreateUser(u) \/ CreateServiceUser(u)
    \/ AssociateServiceUserPublicKey(u) \/ RemoveServiceUserPublicKey(u) \/ SetPassword(u)
    \/ UpdateUserMetadata(u) \/ PatchUserMetadata(u)
    \/ UpdateUserAppMetadata(u) \/ PatchUserAppMetadata(u)
    \/ CreatePasswordRule(u) \/ UpdatePasswordRule(u)

Next == \E u \in Unit : Admit(u) \/ Handle(u) \/ Save(u) \/ SaveLost(u) \/ Close(u)

Spec == Init /\ [][Next]_vars

-----------------------------------------------------------------------------
(* Properties.                                                             *)

\* Rows have the fields of their kind, and so have the entities that are tracked.
TypeOK ==
    /\ backend \in Backends /\ up \in BOOLEAN /\ faults \in 0 .. MaxFaults
    /\ \A id \in DOMAIN db :
          db[id].kind \in Kind /\ DOMAIN db[id].fields = Fields(db[id].kind)
    /\ \A u \in Unit :
          /\ unit[u].pc \in {"idle", "handle", "save", "close", "done"}
          /\ \A e \in Range(unit[u].work) :
                e.change \in {"added", "updated"} => DOMAIN e.fields = Fields(e.kind)

ServerOf(id) == ServerIn(db, id)

\* Tenants are apart: a row refers to rows of its own virtual server only (an audit entry
\* names the user of the initial server that acted), and a scope and its resource server
\* are of one project.
TenantsApart == \A id \in DOMAIN db : db[id].live /\ db[id].kind # "auditLog" => Apart(db, id)

Touched == {id \in DOMAIN db' : id \notin DOMAIN db \/ db'[id] # db[id]}

\* A request changes rows of the virtual server it is addressed to, or of the one it
\* creates.  (The system user sets the password of a user of any server.)
ChangesStayInTenant ==
    [][\A u \in Unit : unit'[u] # unit[u] /\ Server(u) # Nil =>
          \A id \in Touched :
              ServerOf(id)' \in {Nil, Server(u), New1(u, "virtualServer")}]_vars

SystemRole(id) == db[id].kind = "role" /\ db[db[id].fields.projectId].fields.systemProject
Grants(id) == db[id].kind = "assignment" /\ SystemRole(db[id].fields.roleId)

\* What administrators are is out of the reach of administrators: the roles of an existing
\* system project, and who has them, do not change; its application is not deleted and
\* keeps its script and its redirect addresses.
SystemProjectKept ==
    [][/\ \A id \in DOMAIN db : SystemRole(id) \/ Grants(id) => db'[id] = db[id]
       /\ \A id \in DOMAIN db' \ DOMAIN db :
             SystemRole(id)' => db'[id].fields.projectId \notin DOMAIN db
       /\ \A id \in DOMAIN db' \ DOMAIN db :
             Grants(id)' => db'[id].fields.roleId \notin DOMAIN db
       /\ \A id \in Rows("application") : db[id].fields.systemApplication =>
             /\ db'[id].live
             /\ \A c \in SystemFields : db'[id].fields[c] = db[id].fields[c]]_vars

\* What a transaction stores is what the handler saw and tracked: no column is lost or
\* stale, nobody else changed an updated row since the handler read it.  (A new virtual
\* server is the exception: its requireEmailVerification is not inserted.)
SavedAsTracked ==
    [][\A u \in Unit : Postgres /\ unit'[u] # unit[u] /\ db' # db =>
          \A e \in Range(unit[u].work) :
              /\ e.change = "deleted" => ~IsLive(db', e.id)
              /\ e.change = "added" \/ (e.change = "updated" /\ e.changed # {}) =>
                    \A c \in DOMAIN e.fields \ {"requireEmailVerification"} :
                        db'[e.id].fields[c] = e.fields[c]]_vars

\* An application signs with an algorithm its virtual server offers.  The check of one
\* request does not see what another is about to save: it holds as long as no two
\* requests overlap.
AlgorithmOffered == Postgres /\ ~overlap => Offers(db)

Succeeded(u) == unit[u].pc = "done" /\ ~unit[u].failed
Logged(u) == IsLive(db, New1(u, "auditLog"))

\* The audit log tells what happened: an entry stands for a request that succeeded, and a
\* request that has a policy, succeeded and is over has its entry.
AuditTrail ==
    \A u \in Unit :
        /\ Logged(u) => Succeeded(u)
        /\ Succeeded(u) /\ up /\ Server(u) # Nil /\ Call(u).op \notin Unchecked => Logged(u)

\* Operations that may fail after they have tracked changes.
LateFailures == {"CreateUser", "PatchVirtualServer", "CreateVirtualServer"}

\* A request that was refused, or that lost to another, has changed nothing.  (Not so one
\* that failed after it had tracked changes, or whose transaction failed in the database:
\* the close of the scope saves them.  Nor one that failed because an application had the
\* name, if that is deleted before the close.)
RefusedChangesNothing ==
    \A u \in Unit :
        /\ Postgres /\ unit[u].failed /\ ~unit[u].lost /\ Call(u).op \notin LateFailures
        /\ Call(u).op = "CreateApplication" => ~overlap
        => u \notin wrote

\* A virtual server comes with what it needs to sign, the system project, and the role of the
\* administrators, held by the administrator if the request names one; also if its
\* transaction failed and was repeated by the close of the scope, unless the request failed
\* half way, when it generated the keys or assigned the roles.  (Its keys are those of
\* the algorithms it was created with: a change of them that fails may be saved without keys.)
NewServerComplete ==
    \A u \in Unit :
        LET s == New1(u, "virtualServer")
            of == [virtualServerId |-> s] IN
        s \in Rows("virtualServer") /\ (unit[u].failed => unit[u].lost) =>
            /\ {db[s].fields.name} \X Algorithms(New("virtualServer", Values(u).server)) \subseteq keys
            /\ Select("template", of) # {}
            /\ \E p \in Select("project", of) :
                  /\ db[p].fields.systemProject
                  /\ \E a \in Select("application", [projectId |-> p] ++ of) :
                        db[a].fields.systemApplication
                  /\ \E r \in Select("role", [projectId |-> p, name |-> "admin"] ++ of) :
                        Values(u).admin =>
                            \E user \in Select("user", of) :
                                Select("assignment", [roleId |-> r, userId |-> user]) # {}

\* Keys are there for a server, or for one that is being created; others are left only if
\* the process ends, or a transaction fails, in between.
KeysHaveServer ==
    \A k \in keys :
        \/ Select("virtualServer", [name |-> k[1]]) # {}
        \/ \E u \in Unit : Running(u) /\ Call(u).op = "CreateVirtualServer"
        \/ ~up \/ faults > 0

\* The rows that queries addressed to a server may answer: all, in its projects, by the
\* rows' own ids.
Answers(server) ==
    LET slugs == {db[p].fields.slug : p \in Rows("project")} IN
    ListProjects(server) \union ListUsers(server) \union ListGroups(server)
        \union ListPasswordRules(server) \union ListTemplates(server)
        \union GetTemplate(server, "email_verification") \union ListAuditEntries(server)
        \union (UNION {ListPasskeys(server, user) \union GetUserMetadata(server, user, All) :
                          user \in Rows("user")})
        \union UNION {UNION
              {ListApplications(server, slug) \union ListRoles(server, slug)
                 \union ListResourceServers(server, slug),
               UNION {GetApplication(server, slug, id) : id \in Rows("application")},
               UNION {GetRole(server, slug, id) : id \in Rows("role")},
               UNION {ListUsersInRole(server, slug, r) :
                        r \in Select("role", [virtualServerId |-> server])},
               UNION {ListResourceServerScopes(server, slug, r)
                        \union GetResourceServer(server, slug, r)
                        \union UNION {GetResourceServerScope(server, slug, r, id) : id \in Rows("scope")} :
                        r \in Rows("resourceServer")}} : slug \in slugs}

\* A query answers rows of the virtual server it is addressed to, whatever the commands
\* before have stored; also the queries that do not ask for the server, as long as a role
\* is looked for in its own server.  On PostgreSQL a server's name finds it alone.
AnswersStayInTenant ==
    (\A u \in Unit : ~Running(u)) => \A s \in Rows("virtualServer") :
        /\ \A id \in Answers(s) :
              /\ ServerOf(id) \in {Nil, s}
              /\ db[id].kind = "appUserMetadata" => ServerOf(db[id].fields.applicationId) = s
        /\ Postgres => LET name == db[s].fields.name IN
              GetVirtualServer(name) = {s} /\ GetVirtualServerPublicInfo(name) = {s}

=============================================================================
