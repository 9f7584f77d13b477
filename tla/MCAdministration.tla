--------------------------- MODULE MCAdministration ---------------------------
\* Instances of Administration for TLC: two virtual servers that look alike, "a" whose
\* administrators may act on the others, and "b"; one request that makes every call, and
\* a rival whose calls touch the same rows.
EXTENDS Administration

Id(s, kind, name) == <<s, kind, name>>
VirtualServer(s) == <<s, "virtualServer">>
Of(s) == [virtualServerId |-> VirtualServer(s)]
Within(s, project) == [projectId |-> Id(s, "project", project)] @@ Of(s)
R(id, values) == id :> Row(id[2], New(id[2], values))
App(s, project, name, alg) ==
    R(Id(s, "application", name),
      [name |-> name, displayName |-> "", type |-> "public", redirectUris |-> {},
       systemApplication |-> project = "system", signingAlgorithm |-> alg] @@ Within(s, project))
RoleIn(s, project, name) ==
    R(Id(s, "role", name), [name |-> name, description |-> ""] @@ Within(s, project))
Person(s, name, isService) ==
    R(Id(s, "user", name), [username |-> name, displayName |-> name, primaryEmail |-> name,
                            serviceUser |-> isService] @@ Of(s))
Has(s, user, role) ==
    R(Id(s, "assignment", user), [userId |-> Id(s, "user", user), roleId |-> Id(s, "role", role),
                                  groupId |-> Nil])

Tenant(s) ==
    R(VirtualServer(s), [name |-> s, displayName |-> s, primarySigningAlgorithm |-> "EdDSA",
                         additionalSigningAlgorithms |-> {"RS256"}])
    @@ R(Id(s, "project", "system"), [slug |-> "system", name |-> "System", description |-> "",
                                      systemProject |-> TRUE] @@ Of(s))
    @@ R(Id(s, "project", "p"), [slug |-> "p", name |-> "p", description |-> ""] @@ Of(s))
    @@ App(s, "system", "admin-ui", Nothing) @@ App(s, "p", "app", "RS256")
    @@ RoleIn(s, "system", "admin") @@ RoleIn(s, "p", "r")
    @@ Person(s, "admin", FALSE) @@ Person(s, "user", FALSE) @@ Person(s, "service", TRUE)
    @@ Has(s, "admin", "admin")
    @@ R(Id(s, "resourceServer", "rs"),
         [slug |-> "rs", name |-> "rs", description |-> ""] @@ Within(s, "p"))
    @@ R(Id(s, "credential", "key"),
         [userId |-> Id(s, "user", "service"), type |-> "service_user_key", details |-> "k"])
    @@ R(Id(s, "template", "t"),
         [fileId |-> Id(s, "file", "f"), type |-> "email_verification"] @@ Of(s))
    @@ R(Id(s, "file", "f"), [name |-> "f", mimeType |-> "text/plain", content |-> "t"])

MCRows ==
    Tenant("a") @@ Tenant("b") @@ App("a", "p", "used", Nothing) @@ RoleIn("a", "p", "given")
    @@ Has("a", "user", "given")
    @@ R(Id("a", "appUserMetadata", "m"),
         [applicationId |-> Id("a", "application", "used"), userId |-> Id("a", "user", "user"),
          metadata |-> "m0"])
    @@ R(Id("a", "credential", "password"),
         [userId |-> Id("a", "user", "user"), type |-> "password", details |-> "d0"])
    @@ R(Id("a", "group", "g"), [name |-> "g", description |-> ""] @@ Of("a"))
    @@ R(Id("a", "scope", "s"),
         [resourceServerId |-> Id("a", "resourceServer", "rs"), scope |-> "s", name |-> "s"]
         @@ Within("a", "p"))

MCKeys == {"a", "b"} \X {"EdDSA", "RS256"}

-----------------------------------------------------------------------------
\* A call of an administrator of "a" to the server at.
By(by, op, at, project, on, with) ==
    [op |-> op, by |-> by, who |-> Id("a", "user", "admin"), at |-> at, project |-> project,
     on |-> on, with |-> with]
Admin(op, at, project, on, with) == By("admin", op, at, project, on, with)

Named(name) == [slug |-> name, name |-> name, description |-> name]
ApplicationOn(name, alg) ==
    [name |-> name, displayName |-> "", type |-> "public", redirectUris |-> {},
     signingAlgorithm |-> alg]
Offering(algorithms) == [additionalSigningAlgorithms |-> algorithms]
NewServer(known, admin) ==
    [rolesKnown |-> known, admin |-> admin,
     server |-> [name |-> "c", displayName |-> "c", primarySigningAlgorithm |-> "EdDSA",
                 additionalSigningAlgorithms |-> {"RS256"}]]
UserNamed(name, verified) ==
    [username |-> name, displayName |-> name, primaryEmail |-> name, emailVerified |-> verified]

\* What is asked of projects: the system project, the ordinary one; rows of the other server.
OfProjects(server, other) ==
    {Admin("CreateProject", server, "", Nil, Named("q")),
     Admin("PatchProject", server, "p", Nil, [name |-> "n", description |-> ""])}
    \union
    {Admin("AssignRoleToUser", server, c[1], c[2], [userId |-> c[3]]) : c \in
        {<<"p", Id(server, "role", "r"), Id(server, "user", "user")>>,
         <<"p", Id(server, "role", "r"), Id(other, "user", "user")>>,
         <<"system", Id(server, "role", "admin"), Id(server, "user", "user")>>}}
    \union
    UNION {{Admin("CreateRole", server, p, Nil, [name |-> "r", description |-> ""]),
            Admin("CreateResourceServer", server, p, Nil, Named("rs"))} : p \in {"p", "system"}}
    \union
    UNION {{Admin(op, server, c[1], c[2], [name |-> "n"]) : op \in {"PatchRole", "DeleteRole"}} :
              c \in {<<"p", Id(server, "role", "r")>>, <<"p", Id(other, "role", "r")>>,
                     <<"system", Id(server, "role", "admin")>>}}
    \union
    UNION {{Admin("PatchResourceServer", server, "p", s, [name |-> "n"]),
            Admin("CreateResourceServerScope", server, "p", s, [scope |-> "t", name |-> "t"])} :
              s \in {Id(server, "resourceServer", "rs"), Id(other, "resourceServer", "rs")}}

OfApplications(server) ==
    {Admin("CreateApplication", server, p, Nil, ApplicationOn("new", alg)) :
        p \in {"p", "system"}, alg \in {Nothing, "RS256", "ES256"}}
    \union
    {Admin("CreateApplication", server, "p", Nil, ApplicationOn("app", Nothing))}
    \union
    {Admin("DeleteApplication", server, c[1], Id(server, "application", c[2]), <<>>) :
        c \in {<<"p", "app">>, <<"p", "used">>, <<"system", "admin-ui">>}}
    \union
    {Admin("PatchApplication", server, c[1], Id(server, "application", c[2]), c[3]) : c \in
        {<<"p", "app", [displayName |-> "d", signingAlgorithm |-> "EdDSA"]>>,
         <<"p", "app", [displayName |-> "d", signingAlgorithm |-> "ES256"]>>,
         <<"system", "admin-ui", [displayName |-> "d", redirectUris |-> {"x"}]>>,
         <<"p", "gone", [displayName |-> "d"]>>}}
    \union
    {Admin("PatchVirtualServer", server, "", Nil, v) : v \in
        {[displayName |-> "d"], Offering({}), Offering({"RS256", "ES256"})}}

OfUsers(server, other) ==
    {Admin("CreateUser", server, "", Nil, UserNamed("new", v)) : v \in BOOLEAN}
    \union
    {Admin("CreateServiceUser", server, "", Nil,
           [serviceUser |-> TRUE] @@ UserNamed("new", FALSE))}
    \union
    {Admin(op, server, "", Id(s, "user", name), [key |-> "k"]) :
        op \in {"AssociateServiceUserPublicKey", "RemoveServiceUserPublicKey"},
        s \in {server, other}, name \in {"user", "service"}}
    \union
    {By("system", "SetPassword", server, "", Id(server, "user", name), [password |-> "d1"]) :
        name \in {"user", "admin"}}
    \union
    {Admin(op, server, "", Id(s, "user", "user"),
           [applicationId |-> Id(app[1], "application", app[2]), metadata |-> "m1"]) :
        op \in {"PatchUserMetadata", "UpdateUserAppMetadata", "PatchUserAppMetadata"},
        s \in {server, other}, app \in {<<server, "app">>, <<server, "used">>, <<other, "app">>}}
    \union
    {Admin(op, server, "", Nil, [type |-> "min_length", details |-> "8"]) :
        op \in {"CreatePasswordRule", "UpdatePasswordRule"}}

MoreCalls ==
    {Admin("UpdateUserMetadata", "a", "", Id("a", "user", "user"), [metadata |-> "m1"]),
     By("user", "CreateProject", "a", "", Nil, Named("q")),
     Admin("CreateProject", "none", "", Nil, Named("q")),
     By("user", "CreateResourceServerScope", "a", "p", Id("a", "resourceServer", "rs"),
        [scope |-> "s", name |-> "s"]),
     Admin("CreateVirtualServer", "a", "", Nil, NewServer(TRUE, TRUE))}
    \union {By("systemAdmin", "CreateVirtualServer", "a", "", Nil, NewServer(known, admin)) :
               known \in BOOLEAN, admin \in BOOLEAN}

RivalCalls ==
    {Admin("PatchVirtualServer", "a", "", Nil, Offering({"ES256"})),
     Admin("DeleteApplication", "a", "p", Id("a", "application", "app"), <<>>),
     Admin("PatchApplication", "a", "p", Id("a", "application", "app"), [displayName |-> "e"]),
     Admin("DeleteRole", "a", "p", Id("a", "role", "r"), <<>>),
     Admin("CreateProject", "a", "", Nil, Named("q")),
     Admin("CreatePasswordRule", "a", "", Nil, [type |-> "min_length", details |-> "9"]),
     Admin("UpdateUserAppMetadata", "a", "", Id("a", "user", "user"),
           [applicationId |-> Id("a", "application", "app"), metadata |-> "m2"]),
     By("systemAdmin", "CreateVirtualServer", "a", "", Nil, NewServer(TRUE, TRUE))}

MCCalls ==
    [u1 |-> OfProjects("a", "b") \union OfApplications("a") \union OfUsers("a", "b") \union MoreCalls,
     u2 |-> RivalCalls]
=============================================================================
