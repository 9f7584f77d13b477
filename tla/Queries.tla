------------------------------- MODULE Queries -------------------------------
(***************************************************************************)
(* The queries of the administration interface: the rows each may answer.  *)
(* A query is addressed to a virtual server and often to one of its        *)
(* projects by its slug; both are looked up first.                         *)
(*                                                                         *)
(* What an answer shows of a row, its order and its pages are left out.    *)
(***************************************************************************)
EXTENDS Repositories

Found(kind, filter) == IF Readable(kind) THEN Select(kind, filter) ELSE {}
FoundIn(server, kind, filter) == Found(kind, [virtualServerId |-> server] ++ filter)
NoFilter == <<>>

GetVirtualServer(name) == Found("virtualServer", [name |-> name])
GetVirtualServerPublicInfo(name) == Found("virtualServer", [name |-> name])

ListProjects(server) == FoundIn(server, "project", NoFilter)
GetProject(server, slug) == FoundIn(server, "project", [slug |-> slug])

\* The rows of a kind in the project with that slug.
FoundInProject(server, slug, kind, filter) ==
    UNION {FoundIn(server, kind, [projectId |-> p] ++ filter) : p \in GetProject(server, slug)}

ListApplications(server, slug) == FoundInProject(server, slug, "application", NoFilter)
GetApplication(server, slug, id) == FoundInProject(server, slug, "application", [id |-> id])
ListRoles(server, slug) == FoundInProject(server, slug, "role", NoFilter)
GetRole(server, slug, id) == FoundInProject(server, slug, "role", [id |-> id])
ListResourceServers(server, slug) == FoundInProject(server, slug, "resourceServer", NoFilter)
GetResourceServer(server, slug, id) == FoundInProject(server, slug, "resourceServer", [id |-> id])

\* The scopes of a resource server, which is looked up; for a single scope it is not.
ListResourceServerScopes(server, slug, resourceServer) ==
    UNION {FoundInProject(server, slug, "scope", [resourceServerId |-> r]) :
              r \in GetResourceServer(server, slug, resourceServer)}
GetResourceServerScope(server, slug, resourceServer, id) ==
    FoundInProject(server, slug, "scope", [resourceServerId |-> resourceServer, id |-> id])

ListUsers(server) == FoundIn(server, "user", NoFilter)
GetUser(server, id) == FoundIn(server, "user", [id |-> id])
ListPasskeys(server, user) ==
    UNION {Found("credential", [userId |-> id, type |-> "webauthn"]) : id \in GetUser(server, user)}

\* The metadata of a user for some applications, or for all (All): neither the applications
\* nor their metadata are asked for by virtual server.
All == "all"
GetUserMetadata(server, user, applications) ==
    UNION {LET asked == IF applications = All THEN NoFilter ELSE [ids |-> applications] IN
           Found("appUserMetadata",
                 [applicationIds |-> Found("application", asked), userId |-> id]) :
              id \in GetUser(server, user)}

\* The users that have a role: the project is looked up, but the role is not asked for in it.
ListUsersInRole(server, slug, role) ==
    IF GetProject(server, slug) = {} THEN {}
    ELSE {db[a].fields.userId : a \in Found("assignment", [roleId |-> role])}

ListGroups(server) == FoundIn(server, "group", NoFilter)
ListPasswordRules(server) == FoundIn(server, "passwordRule", NoFilter)
ListTemplates(server) == FoundIn(server, "template", NoFilter)
GetTemplate(server, type) ==
    UNION {{t} \union Found("file", [id |-> db[t].fields.fileId]) :
              t \in FoundIn(server, "template", [templateType |-> type])}
ListAuditEntries(server) == FoundIn(server, "auditLog", NoFilter)

=============================================================================
