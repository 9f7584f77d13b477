---------------------- MODULE AdministrationInvariant ----------------------
(***************************************************************************)
(* What is true of Administration between its steps, as the proofs of its  *)
(* properties need it: five inductive invariants, and the conditions on    *)
(* rows, on tracked changes and on what handlers do that they are made of. *)
(*                                                                         *)
(*   AdminInv     the rows are sound, the requests act within their        *)
(*                virtual servers, the audit log is written with them      *)
(*   RefusedInv   a request that is refused has written nothing            *)
(*   OfferInv     applications have algorithms their virtual server offers *)
(*   CreationInv  a new virtual server has what it needs to be used        *)
(*   KeyInv       a virtual server that has keys is there, or is coming    *)
(***************************************************************************)
EXTENDS Administration

-----------------------------------------------------------------------------
(* The rows, and how they may change.                                      *)

\* The columns that no update changes: what a row refers to, what is unique, and whether a
\* project is the one of the system.
IsFixed(kind, c) ==
    \/ c \in DOMAIN RefersTo(kind)
    \/ \E columns \in TableOf[kind].unique : c \in columns
    \/ kind = "project" /\ c = "systemProject"

\* The kinds whose rows the commands delete.
Removed == {"application", "role", "credential"}

\* The rows are complete, refer to rows that there are, and keep tenants apart.
Sound(rows) ==
    \A id \in DOMAIN rows :
        id # Nil /\ Whole(rows, id) /\ (rows[id].kind # "auditLog" => Apart(rows, id))

\* A row keeps its kind and what is fixed, and an application stays one of the system or
\* not; its version only grows, and PostgreSQL counts each change; only commands delete it,
\* and PostgreSQL does not bring it back; an audit entry stays as it is.
Keeps(rows, r, id) ==
    /\ id \in DOMAIN r /\ r[id].kind = rows[id].kind
    /\ \A c : IsFixed(rows[id].kind, c) => r[id].fields[c] = rows[id].fields[c]
    /\ rows[id].kind = "application" =>
          r[id].fields.systemApplication = rows[id].fields.systemApplication
    /\ r[id].version >= rows[id].version
    /\ Postgres /\ r[id].version = rows[id].version => r[id].fields = rows[id].fields
    /\ rows[id].live /\ rows[id].kind \notin Removed => r[id].live
    /\ Postgres /\ ~rows[id].live => ~r[id].live
    /\ rows[id].kind = "auditLog" => r[id] = rows[id]

Evolves(rows, r, new) ==
    DOMAIN r \subseteq DOMAIN rows \union new /\ \A id \in DOMAIN rows : Keeps(rows, r, id)

BackendOK == backend \in {"postgres", "memory"}

-----------------------------------------------------------------------------
(* What a tracker may hold.                                                *)

\* What is tracked of a change.
IsEntry(e) ==
    /\ e = [change |-> e.change, kind |-> e.kind, id |-> e.id, fields |-> e.fields,
            version |-> e.version, changed |-> e.changed, stamped |-> e.stamped]
    /\ e.kind \in Kind /\ e.stamped \in BOOLEAN

\* An entry of u: an insertion under an id of its own (one that is there is not executed
\* again), or an update or a deletion of a row that there is.  An update that is still to be
\* written has the row's values but for those it changes, if nobody wrote the row since.
EntryFits(rows, u, e) ==
    /\ IsEntry(e)
    /\ \/ /\ e.change = "added" /\ e.id # Nil /\ e.id[1] = u /\ DOMAIN e.fields = Fields(e.kind)
          /\ e.id \in DOMAIN rows => Postgres /\ e.stamped
       \/ /\ e.change = "updated" /\ e.id \in DOMAIN rows /\ rows[e.id].kind = e.kind
          /\ e.kind # "auditLog" /\ DOMAIN e.fields = Fields(e.kind)
          /\ e.version \in Nat /\ e.version <= rows[e.id].version
          /\ "systemApplication" \notin e.changed
          /\ Postgres /\ e.changed # {} /\ e.version = rows[e.id].version =>
                \A c \in Fields(e.kind) \ e.changed : e.fields[c] = rows[e.id].fields[c]
       \/ /\ e.change = "deleted" /\ e.id \in DOMAIN rows /\ rows[e.id].kind = e.kind
          /\ e.kind \in Removed

\* A row of the virtual server H, or of none; a user is of H.
Owned(rows, H, id) ==
    /\ ServerIn(rows, id) \in {Nil, H}
    /\ rows[id].kind = "user" => rows[id].fields.virtualServerId = H

\* An insertion into the virtual server H, as far as it does not refer to other rows.
Belongs(rows, H, e) ==
    /\ e.kind # "auditLog" /\ "virtualServerId" \in Fields(e.kind) => e.fields.virtualServerId = H
    /\ e.kind = "virtualServer" => e.id = H
    /\ e.kind = "scope" =>
          /\ e.fields.resourceServerId \in DOMAIN rows
          /\ rows[e.fields.resourceServerId].kind = "resourceServer"
          /\ rows[e.fields.resourceServerId].fields.projectId = e.fields.projectId

\* It refers to a row of H that there is.
Refers(rows, H, e, c) ==
    /\ e.fields[c] \in DOMAIN rows /\ rows[e.fields[c]].kind = RefersTo(e.kind)[c]
    /\ e.kind # "auditLog" => Owned(rows, H, e.fields[c])

\* What a request for H may change of a row: it is of H, and what makes somebody an
\* administrator is not in these fields.
MayChange(rows, H, id, fields) ==
    /\ id \in DOMAIN rows /\ rows[id].kind \notin {"auditLog", "assignment"} /\ Owned(rows, H, id)
    /\ rows[id].kind = "role" => ~rows[rows[id].fields.projectId].fields.systemProject
    /\ rows[id].kind = "application" =>
          /\ "systemApplication" \notin fields
          /\ rows[id].fields.systemApplication => fields \intersect SystemFields = {}

\* The role p of a row to insert is not one of a system project that there is; one that is
\* not there is inserted by u.
MayGrant(rows, u, p) ==
    IF p \in DOMAIN rows
    THEN rows[p].kind = "role" /\ ~rows[rows[p].fields.projectId].fields.systemProject
    ELSE p[1] = u

MayHold(rows, u, p) ==
    IF p \in DOMAIN rows THEN rows[p].kind = "project" /\ ~rows[p].fields.systemProject ELSE p[1] = u

\* An insertion that makes nobody an administrator of a virtual server that there is.
GrantsNothing(rows, u, e) ==
    ~(Postgres /\ e.stamped) =>
        /\ e.kind = "role" => MayHold(rows, u, e.fields.projectId)
        /\ e.kind = "assignment" => MayGrant(rows, u, e.fields.roleId)

\* The i-th entry of u's tracker, whose request is about the virtual server H: what it
\* refers to is there, or is inserted before; it changes and grants what it may.
Fits(rows, u, H, w, i) ==
    /\ EntryFits(rows, u, w[i])
    /\ w[i].change = "added" =>
          /\ Belongs(rows, H, w[i]) /\ GrantsNothing(rows, u, w[i])
          /\ \A c \in DOMAIN RefersTo(w[i].kind) :
                \/ c = "groupId" /\ w[i].fields[c] = Nil
                \/ Refers(rows, H, w[i], c)
                \/ \E j \in 1 .. i - 1 : /\ w[j].change = "added" /\ w[j].id = w[i].fields[c]
                                         /\ w[j].kind = RefersTo(w[i].kind)[c]
    /\ w[i].change = "updated" => MayChange(rows, H, w[i].id, w[i].changed)
    /\ w[i].change = "deleted" => MayChange(rows, H, w[i].id, SystemFields)

Tracker(w) ==
    /\ Len(w) \in Nat /\ w = [i \in 1 .. Len(w) |-> w[i]]
    /\ \A i, j \in 1 .. Len(w) : w[i].id = w[j].id => i = j

WorkFits(rows, u, H, w) == Tracker(w) /\ \A i \in 1 .. Len(w) : Fits(rows, u, H, w, i)

Ids(w) == {w[i].id : i \in 1 .. Len(w)}

\* The rows after k entries.
After(rows, H, w, r, k) ==
    /\ Evolves(rows, r, Ids(w)) /\ Sound(r)
    /\ \A i \in 1 .. Len(w) : w[i].change = "added" =>
          /\ i <= k => /\ w[i].id \in DOMAIN r /\ r[w[i].id].kind = w[i].kind
                       /\ w[i].kind # "auditLog" => Owned(r, H, w[i].id)
          /\ i > k /\ w[i].id \in DOMAIN r => Postgres /\ w[i].stamped

\* What an entry that was executed has made of the row it is about.
Effected(rows, r, e) ==
    /\ e.id \in DOMAIN r
    /\ e.change = "added" =>
          e.id \notin DOMAIN rows /\ r[e.id] = Row(e.kind, Stored(e)) /\ ~(Postgres /\ e.stamped)
    /\ e.change = "deleted" => ~r[e.id].live /\ r[e.id].fields = rows[e.id].fields
    /\ e.change = "updated" =>
          /\ \A c \in Fields(e.kind) \ e.changed : r[e.id].fields[c] = rows[e.id].fields[c]
          /\ rows[e.id].live => r[e.id].live
          /\ Postgres /\ e.changed # {} =>
                r[e.id] = Updated(rows[e.id], e) /\ rows[e.id].version = e.version

\* What k entries have made of the rows, and no more.
Effects(rows, w, r, k) ==
    /\ \A id \in DOMAIN rows : (\A i \in 1 .. k : w[i].id # id) => r[id] = rows[id]
    /\ \A id \in DOMAIN r \ DOMAIN rows : \E i \in 1 .. k : w[i].id = id
    /\ \A i \in 1 .. k : Effected(rows, r, w[i])
    /\ Postgres /\ Distinct(rows) => Distinct(r)

-----------------------------------------------------------------------------
(* What a handler finds, and what it does.                                 *)

\* The virtual server a request is about: the one it creates, that of the user whose
\* password it sets, or the one it is addressed to.
Home(u) ==
    IF Call(u).op = "CreateVirtualServer" THEN New1(u, "virtualServer")
    ELSE IF Call(u).op = "SetPassword" THEN InitialRows[Call(u).on].fields.virtualServerId
    ELSE Server(u)

\* The virtual server as the request has seen it.
Seen(u) ==
    /\ Server(u) \in DOMAIN db /\ db[Server(u)].kind = "virtualServer"
    /\ Complete(unit[u].seen) /\ unit[u].seen.kind = "virtualServer"
    /\ unit[u].seen.version <= db[Server(u)].version
    /\ Postgres /\ unit[u].seen.version = db[Server(u)].version =>
          unit[u].seen.fields = db[Server(u)].fields

\* What a handler finds: a sound database, in which nothing is its own yet.
Ready(u) ==
    /\ u \in Unit /\ BackendOK /\ Sound(db) /\ Call(u) \in CallsOf[u]
    /\ Call(u).by = "system" \/ Seen(u)
    /\ \A id \in DOMAIN db : id[1] # u
    /\ \A id \in DOMAIN InitialRows : Keeps(InitialRows, db, id)

\* The values that are set have setters, and the request may change them.
MaySet(u, set) ==
    \A id \in DOMAIN set :
        /\ id \in DOMAIN db /\ DOMAIN set[id] \subseteq SettersOf[db[id].kind]
        /\ MayChange(db, Home(u), id, DOMAIN set[id])

\* The virtual server has not changed since the request has seen it.
Current(u) == Call(u).by = "system" \/ unit[u].seen = db[Server(u)]

\* An update leaves an application with an algorithm that its virtual server offers: the one
\* it sets, or those that the applications of the server it is about have.
AlgorithmFields == {"primarySigningAlgorithm", "additionalSigningAlgorithms"}

Suits(rows, id, fields, changed) ==
    /\ rows[id].kind = "application" /\ "signingAlgorithm" \in changed =>
          fields.signingAlgorithm \in Algorithms(rows[rows[id].fields.virtualServerId].fields)
    /\ rows[id].kind = "virtualServer" /\ AlgorithmFields \intersect changed # {} =>
          \A a \in DOMAIN rows :
              LET f == rows[a].fields IN
              rows[a].kind = "application" /\ rows[a].live /\ f.virtualServerId = id =>
                  f.signingAlgorithm \in {Nothing} \union Algorithms(fields)

\* So does the i-th entry of a tracker; what it relies on the tracker does not change.
Careful(rows, w, i) ==
    LET e == w[i] IN
    /\ /\ e.change = "added" /\ ~e.stamped /\ e.kind = "application"
       /\ e.fields.signingAlgorithm # Nothing
       => /\ Len(w) = 1
          /\ e.fields.signingAlgorithm \in Algorithms(rows[e.fields.virtualServerId].fields)
    /\ e.change = "updated" =>
          Suits(rows, e.id, e.fields, e.changed) /\ (e.kind \in {"application", "virtualServer"} => Len(w) = 1)

\* What a handler does: it sets fields that have setters and tracks what fits; it tracks
\* nothing before it refuses, and one entry otherwise, but for those that are excepted.
Legit(u, set, w) ==
    /\ MaySet(u, set)
    /\ WorkFits(db, u, Home(u), w)
    /\ \A i \in 1 .. Len(w) :
          /\ w[i].kind # "auditLog" /\ w[i].id # New1(u, "auditLog")
          /\ w[i].change = "added" /\ w[i].kind = "application" =>
                Call(u).op \in LateFailures \union {"CreateApplication"}
          /\ Postgres /\ Current(u) => Careful(db, w, i)

Returns(u, set, w) == Return(u, TRUE, set, w)

Refuses(u, set, w) == Return(u, FALSE, set, w)

Handled(u) ==
    \E set, w :
        /\ Legit(u, set, w)
        /\ \/ Returns(u, set, w) /\ (Call(u).op \notin LateFailures => Len(w) <= 1)
           \/ Refuses(u, set, w) /\ (Call(u).op \notin LateFailures => w = <<>>)

-----------------------------------------------------------------------------
(* What a handler may insert.                                              *)

\* The values are right for an insertion into the virtual server of the request, whose
\* other rows are there.
Proper(u, kind, values) ==
    /\ DOMAIN values \subseteq Fields(kind) /\ EntityOf[kind].given \subseteq DOMAIN values
    /\ "virtualServerId" \in Fields(kind) =>
          "virtualServerId" \in DOMAIN values /\ values["virtualServerId"] = Home(u)
    /\ kind = "scope" =>
          /\ {"projectId", "resourceServerId"} \subseteq DOMAIN values
          /\ values["resourceServerId"] \in DOMAIN db
          /\ db[values["resourceServerId"]].kind = "resourceServer"
          /\ db[values["resourceServerId"]].fields.projectId = values["projectId"]
    /\ \A c \in DOMAIN RefersTo(kind) :
          /\ c \in DOMAIN values
          /\ \/ c = "groupId" /\ values[c] = Nil
             \/ /\ values[c] \in DOMAIN db /\ db[values[c]].kind = RefersTo(kind)[c]
                /\ Owned(db, Home(u), values[c])
    /\ kind = "role" => MayHold(db, u, values["projectId"])
    /\ kind = "assignment" => MayGrant(db, u, values["roleId"])

\* The application has an algorithm that its virtual server offers.
Signs(fields, H) == fields.signingAlgorithm \in {Nothing} \union Algorithms(db[H].fields)

\* The tracker inserts a row of a kind before its n-th entry.
Inserts(w, n, id, kind) ==
    \E j \in 1 .. n - 1 : w[j].change = "added" /\ w[j].id = id /\ w[j].kind = kind

\* Values for a new row of a kind, whose owner is H and that refers to rows that are there
\* or that the tracker inserts before its n-th entry.
Fresh(u, H, w, n, id, kind, values) ==
    /\ kind \in Kind /\ kind \notin {"auditLog", "scope"} /\ (kind = "virtualServer" => id = H)
    /\ id # Nil /\ id[1] = u /\ id \notin DOMAIN db /\ id # New1(u, "auditLog")
    /\ DOMAIN values \subseteq Fields(kind) /\ EntityOf[kind].given \subseteq DOMAIN values
    /\ "virtualServerId" \in Fields(kind) =>
          "virtualServerId" \in DOMAIN values /\ values["virtualServerId"] = H
    /\ \A c \in DOMAIN RefersTo(kind) :
          /\ c \in DOMAIN values
          /\ \/ c = "groupId" /\ values[c] = Nil
             \/ Inserts(w, n, values[c], RefersTo(kind)[c])
             \/ /\ values[c] \in DOMAIN db /\ db[values[c]].kind = RefersTo(kind)[c]
                /\ Owned(db, H, values[c])
    /\ kind = "role" => MayHold(db, u, values["projectId"])
    /\ kind = "assignment" => MayGrant(db, u, values["roleId"])
    /\ kind = "application" => "signingAlgorithm" \notin DOMAIN values

\* The n-th entry fits; it inserts a row that is not that of the audit log, and an
\* application without an algorithm of its own.
FitsWell(u, H, w, n) ==
    /\ Fits(db, u, H, w, n) /\ w[n].kind # "auditLog" /\ w[n].id # New1(u, "auditLog")
    /\ w[n].change = "added"
    /\ w[n].kind = "application" => w[n].fields.signingAlgorithm = Nothing

FitWell(u, H, w) == Tracker(w) /\ \A n \in 1 .. Len(w) : FitsWell(u, H, w, n)

\* The tracker inserts a row of a kind with these values.
Adds(w, id, kind, values) ==
    \E i \in 1 .. Len(w) :
        /\ w[i].change = "added" /\ w[i].id = id /\ w[i].kind = kind
        /\ \A c \in DOMAIN values : w[i].fields[c] = values[c]

-----------------------------------------------------------------------------
(* A new virtual server.                                                   *)

\* What comes with a virtual server besides its users, and the ids of its rows.
ServerBase(u, server) ==
    LET within == [virtualServerId |-> server, projectId |-> Default(u, "project")] IN
    DefaultTemplates(u, server)
        \o <<SystemProjectOf(u, server), DefaultApplications(u, within), DefaultAdminRoles(u, within)>>
        \o RequestedProject(u, server)

BaseIds(u) ==
    {New1(u, "virtualServer"), Default(u, "file"), Default(u, "template"), Default(u, "project"),
     Default(u, "application"), Default(u, "role"), <<u, "project">>, New1(u, "application"),
     New1(u, "role"), New1(u, "resourceServer")}

\* What a virtual server that u has created needs to be administered: its row, of which
\* fields are the fields, a template, the system project with its application and the role
\* of its administrators, and the users admins, who have that role.
Needs(u, fields, admins, id, kind, values) ==
    LET s == New1(u, "virtualServer")  p == Default(u, "project")  r == Default(u, "role") IN
    \/ id = s /\ kind = "virtualServer" /\ values = [name |-> fields.name]
    \/ id = Default(u, "template") /\ kind = "template" /\ values = [virtualServerId |-> s]
    \/ id = p /\ kind = "project" /\ values = [virtualServerId |-> s, systemProject |-> TRUE]
    \/ /\ id = Default(u, "application") /\ kind = "application"
       /\ values = [virtualServerId |-> s, projectId |-> p, systemApplication |-> TRUE]
    \/ /\ id = r /\ kind = "role"
       /\ values = [virtualServerId |-> s, projectId |-> p, name |-> "admin"]
    \/ id \in admins /\ kind = "user" /\ values = [virtualServerId |-> s]
    \/ \E user \in admins :
          /\ id = <<u, "assignment", "user", "role">> /\ kind = "assignment"
          /\ values = [roleId |-> r, userId |-> user]

\* The administrator that the request names, if it does.
Admins(u) == {user \in {New1(u, "user")} : Values(u).admin}

\* The tracker inserts all of it.
Tracks(w, u, fields, admins) ==
    \A id, kind, values : Needs(u, fields, admins, id, kind, values) => Adds(w, id, kind, values)

\* The n-th entry depends on the earlier ones only: it refers to rows that they insert, and
\* one of its unique columns is such a reference, or null, so that only they could conflict.
Attached(w, n) ==
    LET e == w[n] IN
    /\ \A c \in DOMAIN RefersTo(e.kind) :
          e.fields[c] = Nil \/ Inserts(w, n, e.fields[c], RefersTo(e.kind)[c])
    /\ \A columns \in TableOf[e.kind].unique : \E c \in columns \intersect DOMAIN RefersTo(e.kind) :
          \/ e.fields[c] = Nil
          \/ \A j \in 1 .. n - 1 : w[j].kind = e.kind => \E d \in columns : w[j].fields[d] # e.fields[d]

\* All that is tracked is to be inserted, and depends on the first entry.
Linked(w) ==
    \A n \in 1 .. Len(w) : w[n].change = "added" /\ ~w[n].stamped /\ (n > 1 => Attached(w, n))

\* Values of such an entry.
Tied(w, n, kind, values) ==
    /\ DOMAIN values \subseteq Fields(kind) /\ EntityOf[kind].given \subseteq DOMAIN values
    /\ \A c \in DOMAIN RefersTo(kind) :
          c \in DOMAIN values /\ (values[c] = Nil \/ Inserts(w, n, values[c], RefersTo(kind)[c]))
    /\ \A columns \in TableOf[kind].unique :
          /\ columns \subseteq DOMAIN values
          /\ \E c \in columns \intersect DOMAIN RefersTo(kind) :
                \/ values[c] = Nil
                \/ \A j \in 1 .. n - 1 : w[j].kind = kind => \E d \in columns : w[j].fields[d] # values[d]

\* What is tracked for the virtual server H besides its users fits, and inserts what it needs.
BaseTracked(u, H, e1, values, work) ==
    /\ work = <<e1>> \o ServerBase(u, H)
    /\ FitWell(u, H, work) /\ Linked(work) /\ Len(work) = 10 /\ work[1] = e1
    /\ \E S : <<e1>> \in Seq(S) /\ ServerBase(u, H) \in Seq(S)
    /\ \A n \in 1 .. 10 : work[n].kind # "user" /\ work[n].id \in BaseIds(u)
    /\ Tracks(work, u, New("virtualServer", values), {})
    /\ Inserts(work, 11, H, "virtualServer") /\ Inserts(work, 11, Default(u, "role"), "role")
    /\ Inserts(work, 11, New1(u, "role"), "role")

\* What is tracked for a user with a credential and the role r; that it fits after w; and
\* what fits after w has joined it in y.
UserWork(user, cred, given, r, values, credential) ==
    <<Insertion(user, "user", values), Insertion(cred, "credential", credential),
      Insertion(given, "assignment", [userId |-> user, roleId |-> r, groupId |-> Nil])>>

Joins(u, H, w, user, cred, given, r, values, credential) ==
    /\ FitWell(u, H, w) /\ Linked(w) /\ Len(w) >= 1
    /\ user # cred /\ user # given /\ cred # given
    /\ \A id \in {user, cred, given} :
          /\ id # Nil /\ id[1] = u /\ id \notin DOMAIN db /\ id # New1(u, "auditLog")
          /\ \A i \in 1 .. Len(w) : w[i].id # id
    /\ r \notin DOMAIN db /\ r[1] = u
    /\ Inserts(w, Len(w) + 1, r, "role") /\ Inserts(w, Len(w) + 1, H, "virtualServer")
    /\ DOMAIN values \subseteq Fields("user") /\ EntityOf["user"].given \subseteq DOMAIN values
    /\ values["virtualServerId"] = H
    /\ \A i \in 1 .. Len(w) : w[i].kind = "user" => w[i].fields["username"] # values["username"]
    /\ DOMAIN credential = {"userId", "type", "details"} /\ credential["userId"] = user

Longer(u, H, w, t, y) ==
    /\ y = w \o t
    /\ FitWell(u, H, y) /\ Linked(y) /\ Len(y) = Len(w) + 3
    /\ \A i \in 1 .. Len(w) : y[i] = w[i]
    /\ y[Len(w) + 1] = t[1] /\ y[Len(w) + 2] = t[2] /\ y[Len(w) + 3] = t[3]

-----------------------------------------------------------------------------
(* AdminInv: sound rows, requests that stay within their virtual server, and audit.*)

\* The rows are sound, on PostgreSQL their unique columns are distinct, and those of the start are there.
Base ==
    /\ backend \in Backends /\ up \in BOOLEAN /\ faults \in 0 .. MaxFaults
    /\ unit = [u \in Unit |-> unit[u]]
    /\ Sound(db) /\ (Postgres => Distinct(db))
    /\ \A id \in DOMAIN InitialRows : Keeps(InitialRows, db, id)

\* A request is addressed to a virtual server it has seen, unless it is of the system
\* user; before its handler runs no row is its own, then it tracks what fits.
RequestOK(u) ==
    LET r == unit[u] IN
    /\ r = [pc |-> r.pc, call |-> r.call, server |-> r.server, seen |-> r.seen, work |-> r.work,
            failed |-> r.failed, lost |-> r.lost]
    /\ r.pc \in {"idle", "handle", "save", "close", "done"}
    /\ r.pc \in {"idle", "handle", "done"} => r.work = <<>>
    /\ r.pc # "idle" => r.call \in CallsOf[u]
    /\ r.pc \in {"handle", "save", "close"} => IF r.call.by = "system" THEN r.server = Nil ELSE Seen(u)
    /\ r.pc \in {"idle", "handle"} => \A id \in DOMAIN db : id[1] # u
    /\ r.pc \in {"save", "close"} => WorkFits(db, u, Home(u), r.work)

\* The audit entry of a request is tracked when its changes are saved, and is stored when
\* the request is over.
AuditOK(u) ==
    LET r == unit[u]  a == New1(u, "auditLog") IN
    /\ a \in DOMAIN db => db[a].kind = "auditLog" /\ r.pc = "done" /\ ~r.failed
    /\ r.pc = "save" => ~r.failed /\ r.call.op \notin Unchecked
    /\ r.pc = "save" \/ (r.pc = "close" /\ (r.failed \/ r.call.op \in Unchecked)) =>
          \A i \in 1 .. Len(r.work) : r.work[i].kind # "auditLog" /\ r.work[i].id # a
    /\ r.pc = "close" /\ ~r.failed /\ r.call.op \notin Unchecked => r.work = AuditEntry(u)
    /\ r.pc = "done" /\ ~r.failed /\ up /\ r.call.op \notin Unchecked /\ r.server # Nil =>
          a \in DOMAIN db /\ db[a].live

AdminInv == Base /\ \A u \in Unit : RequestOK(u) /\ AuditOK(u)

\* A change that u may make to a row: some fields, or, if they are among those a system
\* application keeps, its deletion.
Permits(u, r, id) ==
    \E fields :
        /\ MayChange(db, Home(u), id, fields)
        /\ \A c \in Fields(db[id].kind) \ fields : r[id].fields[c] = db[id].fields[c]
        /\ db[id].live /\ ~r[id].live => SystemFields \subseteq fields

\* What a request reaches: rows of its virtual server and, of the rows that make somebody an
\* administrator, those it has made itself.
Reaches(u, r) ==
    /\ Evolves(db, r, DOMAIN r)
    /\ \A id \in DOMAIN db : r[id] # db[id] => Permits(u, r, id)
    /\ \A id \in DOMAIN r \ DOMAIN db :
          /\ IF r[id].kind = "auditLog" THEN r[id].fields.virtualServerId = Server(u)
             ELSE Owned(r, Home(u), id)
          /\ r[id].kind = "role" => MayHold(db, u, r[id].fields.projectId)
          /\ r[id].kind = "assignment" => MayGrant(db, u, r[id].fields.roleId)

-----------------------------------------------------------------------------
(* RefusedInv: what is refused has written nothing.                        *)

\* It failed, but neither after it had tracked changes nor in a transaction that was lost;
\* an application whose name is taken may become free again if requests overlap.
Spared(u) ==
    /\ unit[u].failed /\ ~unit[u].lost /\ Call(u).op \notin LateFailures
    /\ Call(u).op = "CreateApplication" => ~overlap

\* It tracks one entry at most.
Single(u, w) ==
    \/ w = <<>>
    \/ /\ w = <<w[1]>>
       /\ w[1].change = "added" /\ w[1].kind = "application" => Call(u).op = "CreateApplication"

\* A request has changed nothing before it is saved; if it is refused, what it still tracks
\* cannot be executed.
RefusedOK(u) ==
    LET r == unit[u] IN
    Postgres =>
        /\ r.pc \in {"idle", "handle", "save"} => u \notin wrote
        /\ r.pc = "save" /\ Call(u).op \notin LateFailures => Single(u, r.work)
        /\ r.pc \in {"close", "done"} /\ Spared(u) => u \notin wrote
        /\ r.pc = "close" /\ Spared(u) =>
              Single(u, r.work) /\ (r.work # <<>> => ~Executable(db, r.work[1]))

Alone == overlap \/ \A u, v \in Unit : Running(u) /\ Running(v) => u = v

RefusedInv == Alone /\ \A u \in Unit : RefusedOK(u)

-----------------------------------------------------------------------------
(* OfferInv: what a save leaves, and the algorithms that are offered.      *)

\* The rows after a tracker that fitted them was saved.
StoredAs(rows, u, H, w, r) ==
    /\ Sound(rows) /\ WorkFits(rows, u, H, w)
    /\ After(rows, H, w, r, Len(w)) /\ Effects(rows, w, r, Len(w))

\* As long as no two requests overlap, the virtual server is still the one that a handler
\* sees, and what is tracked is tracked with care.
OfferOK(u) ==
    LET r == unit[u] IN
    /\ r.pc = "handle" => Current(u)
    /\ r.pc \in {"save", "close"} => \A i \in 1 .. Len(r.work) : Careful(db, r.work, i)

OfferInv == Postgres /\ ~overlap => Offers(db) /\ \A u \in Unit : OfferOK(u)

\* What a step of u has to leave behind.
Offering(u) == Offers(db) /\ OfferOK(u)

-----------------------------------------------------------------------------
(* CreationInv: what a new virtual server has.                             *)

\* A live row of a kind with these values.
Stands(rows, id, kind, values) ==
    /\ id \in DOMAIN rows /\ rows[id].kind = kind /\ rows[id].live
    /\ \A c \in DOMAIN values : rows[id].fields[c] = values[c]

\* The virtual server that u has created has what it needs among the rows.
Furnished(rows, u, fields, admins) ==
    \A id, kind, values : Needs(u, fields, admins, id, kind, values) => Stands(rows, id, kind, values)

\* The virtual server that u creates, and its keys.
Begun(u) == New("virtualServer", Values(u).server)

Keyed(u) == {Begun(u).name} \X Algorithms(Begun(u)) \subseteq keys

HasServer(rows, u) ==
    LET s == New1(u, "virtualServer") IN s \in DOMAIN rows /\ rows[s].kind = "virtualServer"

\* A virtual server that u has created, unless u failed, has what it needs; it is tracked as
\* long as u may still store it.
CreationOK(u) ==
    LET r == unit[u] IN
    /\ r.pc \in {"idle", "handle", "save"} => ~r.lost
    /\ HasServer(db, u) /\ (r.failed => r.lost) => Furnished(db, u, Begun(u), Admins(u)) /\ Keyed(u)
    /\ Call(u).op = "CreateVirtualServer" /\ (r.pc = "save" \/ (r.pc = "close" /\ r.failed /\ r.lost))
          => Tracks(r.work, u, Begun(u), Admins(u)) /\ Keyed(u)

CreationInv == \A u \in Unit : CreationOK(u)

\* The virtual server s has what NewServerComplete asks for, with the administrators admins.
Equipped(s, admins) ==
    LET of == [virtualServerId |-> s] IN
    /\ Select("template", of) # {}
    /\ \E p \in Select("project", of) :
          /\ db[p].fields.systemProject
          /\ \E a \in Select("application", [projectId |-> p] ++ of) :
                db[a].fields.systemApplication
          /\ \E r \in Select("role", [projectId |-> p, name |-> "admin"] ++ of) :
                \A user \in admins :
                    user \in Select("user", of) /\ Select("assignment", [roleId |-> r, userId |-> user]) # {}

-----------------------------------------------------------------------------
(* KeyInv: who the keys belong to.                                         *)

\* A virtual server of that name.
Bears(rows, id, name) ==
    /\ id \in DOMAIN rows /\ rows[id].kind = "virtualServer" /\ rows[id].live
    /\ rows[id].fields.name = name

Borne(rows, name) == \E id \in DOMAIN rows : Bears(rows, id, name)

\* A server that u is about to store: its row comes first, and if that can be inserted, then
\* so can all that comes with it.
Pending(u) ==
    LET w == unit[u].work IN
    /\ unit[u].pc \in {"save", "close"} /\ Call(u).op = "CreateVirtualServer"
    /\ Len(w) >= 1 /\ w[1].kind = "virtualServer" /\ w[1].fields = Begun(u) /\ Linked(w)

Coming(name) == \E u \in Unit : Pending(u) /\ Begun(u).name = name

\* The virtual server that a handler works in is there, under the name that was seen.
SeenBears(u) ==
    unit[u].pc = "handle" /\ Call(u).by # "system" => Bears(db, Server(u), unit[u].seen.fields.name)

KeyInv ==
    up /\ faults = 0 =>
        /\ \A u \in Unit : SeenBears(u)
        /\ \A k \in keys : Borne(db, k[1]) \/ Coming(k[1])

=============================================================================
