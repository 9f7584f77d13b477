---------------------------- MODULE TokenGrants ----------------------------
(***************************************************************************)
(* The authorization code and refresh token grants of the token endpoint   *)
(* (internal/handlers/oidc.go) over the key-value store                    *)
(* (internal/services/tokens.go).                                          *)
(*                                                                         *)
(* A request reads the token, checks it against the client's row, issues   *)
(* new tokens and deletes the one presented, in separate calls of a store  *)
(* that offers no transaction; requests, the clock and the administration  *)
(* of applications interleave between any two of them, and a request may   *)
(* end at any point with an error or with its instance.                    *)
(*                                                                         *)
(* A token's value never changes, so the store is the set of stored tokens *)
(* and one record per token issued.  Secrets, redirect URIs and PKCE       *)
(* challenges are compared for equality only: the secret of an application *)
(* is its id and a verifier is its challenge.                              *)
(***************************************************************************)
EXTENDS Naturals, FiniteSets

CONSTANTS
    VirtualServer,
    ClientName,    \* names of applications, unique within a virtual server
    App,           \* identities of applications
    Confidential,  \* those that have a secret
    User,
    Uri,           \* redirect URIs
    Challenge,     \* PKCE challenges
    Token,         \* authorization codes and refresh tokens
    Request,       \* requests in progress at the same time
    None,
    CodeTTL,       \* one minute in the code
    RefreshTTL,    \* one hour in the code
    MaxTime,       \* bound on the clock
    MaxAdmin       \* bound on the changes to applications

(* What a token carries.  app and redirect, challenge are those of CodeInfo; *)
(* RefreshTokenInfo has the client's name only, and the others are history,  *)
(* as are parent, the token it was granted for, and via, the form presented. *)
Form == [client : ClientName, secret : App \union {None},
         redirect : Uri, verifier : Challenge]
Info == [kind : {"code", "refresh"}, vs : VirtualServer, client : ClientName, app : App,
         user : User, redirect : Uri \union {None}, challenge : Challenge \union {None},
         parent : Token \union {None}, via : Form \union {None}, expires : Nat]

ASSUME GrantAssumption ==
    /\ {CodeTTL, RefreshTTL, MaxTime, MaxAdmin} \subseteq Nat
    /\ Confidential \subseteq App
    /\ None \notin VirtualServer \union App \union User \union Uri \union Challenge \union Token
    /\ None \notin Info

VARIABLES
    now,
    apps,      \* the application rows: [VirtualServer -> [ClientName -> App or None]]
    admin,     \* [created : applications ever created, changes : their number]
    issued,    \* [Token -> what the token was issued for, or None]
    stored,    \* the tokens in the key-value store
    known,     \* the tokens a client has been given
    request,   \* [Request -> the request in progress]
    granted    \* history: the tokens for which a response was sent

vars == <<now, apps, admin, issued, stored, known, request, granted>>

InProgress ==
    [pc : {"idle", "check", "issue", "delete", "load", "respond"}, token : Token \union {None},
     form : Form \union {None}, app : App \union {None}, new : Token \union {None}]
Idle == [pc |-> "idle", token |-> None, form |-> None, app |-> None, new |-> None]

Fresh == {t \in Token : issued[t] = None}

\* kvStore.Get: an expired value is not found.
Found(t) == t \in stored /\ now <= issued[t].expires

Init ==
    /\ now = 0
    /\ apps \in [VirtualServer -> [ClientName -> App]]
    /\ \A u, v \in VirtualServer, c, d \in ClientName :
          apps[u][c] = apps[v][d] => u = v /\ c = d
    /\ admin = [created |-> {apps[v][c] : v \in VirtualServer, c \in ClientName}, changes |-> 0]
    /\ issued = [t \in Token |-> None] /\ stored = {} /\ known = {}
    /\ request = [q \in Request |-> Idle]
    /\ granted = {}

-----------------------------------------------------------------------------
(* The environment: users sign in, administrators change applications.      *)

\* BeginAuthorizationFlow with a session: the code is stored and the browser is
\* redirected with it.  Every code has a challenge.
Authorize(v, c, u, uri, ch) ==
    /\ apps[v][c] # None
    /\ \E t \in Fresh :
          /\ issued' = [issued EXCEPT ![t] =
                [kind |-> "code", vs |-> v, client |-> c, app |-> apps[v][c], user |-> u,
                 redirect |-> uri, challenge |-> ch, parent |-> None, via |-> None,
                 expires |-> now + CodeTTL]]
          /\ stored' = stored \union {t} /\ known' = known \union {t}
    /\ UNCHANGED <<now, apps, admin, request, granted>>

DeleteApplication(v, c) ==
    /\ apps[v][c] # None /\ admin.changes < MaxAdmin
    /\ apps' = [apps EXCEPT ![v][c] = None]
    /\ admin' = [admin EXCEPT !.changes = @ + 1]
    /\ UNCHANGED <<now, issued, stored, known, request, granted>>

\* The name of a deleted application is free again.
CreateApplication(v, c, a) ==
    /\ apps[v][c] = None /\ a \notin admin.created /\ admin.changes < MaxAdmin
    /\ apps' = [apps EXCEPT ![v][c] = a]
    /\ admin' = [created |-> admin.created \union {a}, changes |-> admin.changes + 1]
    /\ UNCHANGED <<now, issued, stored, known, request, granted>>

Tick == /\ now < MaxTime /\ now' = now + 1
        /\ UNCHANGED <<apps, admin, issued, stored, known, request, granted>>

-----------------------------------------------------------------------------
(* The token endpoint. *)

\* GetToken: the value is a copy from here on.
ReadToken(q, t) ==
    /\ request[q].pc = "idle" /\ t \in known /\ Found(t)
    /\ request' = [request EXCEPT ![q] = [Idle EXCEPT !.pc = "check", !.token = t]]
    /\ UNCHANGED <<now, apps, admin, issued, stored, known, granted>>

\* authenticateApplication: the client of that name in that virtual server, with
\* its secret if it has one and with none otherwise.
Authenticated(v, form) ==
    /\ apps[v][form.client] # None
    /\ form.secret = IF apps[v][form.client] \in Confidential
                     THEN apps[v][form.client] ELSE None

\* Mutant: the code is not bound to the application.
CheckCode_AnyClient(q, form) ==
    LET i == issued[request[q].token] IN
    /\ request[q].pc = "check" /\ i.kind = "code"
    /\ Authenticated(i.vs, form)
    /\ form.redirect = i.redirect /\ form.verifier = i.challenge
    /\ request' = [request EXCEPT ![q] = [@ EXCEPT !.pc = "issue", !.form = form,
                     !.app = apps[i.vs][form.client]]]
    /\ UNCHANGED <<now, apps, admin, issued, stored, known, granted>>

\* handleAuthorizationCode up to the key: the code is bound to the application,
\* the redirect URI and the challenge.
CheckCode(q, form) ==
    LET i == issued[request[q].token] IN
    /\ request[q].pc = "check" /\ i.kind = "code"
    /\ Authenticated(i.vs, form)
    /\ apps[i.vs][form.client] = i.app
    /\ form.redirect = i.redirect /\ form.verifier = i.challenge
    /\ request' = [request EXCEPT ![q] = [@ EXCEPT !.pc = "issue", !.form = form,
                     !.app = apps[i.vs][form.client]]]
    /\ UNCHANGED <<now, apps, admin, issued, stored, known, granted>>

\* Mutant: the refresh token presented is not deleted.
CheckRefresh_Keeps(q, form) ==
    LET i == issued[request[q].token] IN
    /\ request[q].pc = "check" /\ i.kind = "refresh"
    /\ Authenticated(i.vs, form)
    /\ form.client = i.client
    /\ request' = [request EXCEPT ![q] = [@ EXCEPT !.pc = "load", !.form = form]]
    /\ UNCHANGED <<now, apps, admin, issued, stored, known, granted>>

\* handleRefreshToken up to the deletion: the token is bound to the client's name.
CheckRefresh(q, form) ==
    LET i == issued[request[q].token] IN
    /\ request[q].pc = "check" /\ i.kind = "refresh"
    /\ Authenticated(i.vs, form)
    /\ form.client = i.client
    /\ request' = [request EXCEPT ![q] = [@ EXCEPT !.pc = "delete", !.form = form]]
    /\ UNCHANGED <<now, apps, admin, issued, stored, known, granted>>

\* DeleteToken: before the new tokens are issued for a refresh token, after it
\* for a code; a token that is gone is no error.
DeleteToken(q) ==
    /\ request[q].pc = "delete"
    /\ stored' = stored \ {request[q].token}
    /\ request' = [request EXCEPT ![q] = [@ EXCEPT
                     !.pc = IF issued[request[q].token].kind = "code" THEN "respond" ELSE "load"]]
    /\ UNCHANGED <<now, apps, admin, issued, known, granted>>

\* Mutant: the second lookup is made by name only, in any virtual server.
LoadApplication_As(q, a) ==
    /\ request[q].pc = "load"
    /\ request' = [request EXCEPT ![q] = [@ EXCEPT !.pc = "issue", !.app = a]]
    /\ UNCHANGED <<now, apps, admin, issued, stored, known, granted>>
LoadApplication_AnyServer(q) ==
    /\ request[q].pc = "load"
    /\ \E v \in VirtualServer :
          /\ apps[v][request[q].form.client] # None
          /\ LoadApplication_As(q, apps[v][request[q].form.client])

\* handleRefreshToken reads the application a second time, by name.
LoadApplication(q) ==
    LET i == issued[request[q].token] IN
    /\ request[q].pc = "load" /\ apps[i.vs][request[q].form.client] # None
    /\ request' = [request EXCEPT ![q] = [@ EXCEPT !.pc = "issue",
                                            !.app = apps[i.vs][request[q].form.client]]]
    /\ UNCHANGED <<now, apps, admin, issued, stored, known, granted>>

\* Mutant: the response is sent without deleting the code.
IssueTokens_KeepsCode(q) ==
    LET r == request[q]
        i == issued[r.token]
    IN
    /\ r.pc = "issue"
    /\ \E t \in Fresh :
          /\ issued' = [issued EXCEPT ![t] =
                [kind |-> "refresh", vs |-> i.vs, client |-> r.form.client, app |-> r.app,
                 user |-> i.user, redirect |-> None, challenge |-> None,
                 parent |-> r.token, via |-> r.form, expires |-> now + RefreshTTL]]
          /\ stored' = stored \union {t}
          /\ request' = [request EXCEPT ![q] = [@ EXCEPT !.new = t, !.pc = "respond"]]
    /\ UNCHANGED <<now, apps, admin, known, granted>>

\* generateTokens: of the three tokens the refresh token is stored.
IssueTokens(q) ==
    LET r == request[q]
        i == issued[r.token]
    IN
    /\ r.pc = "issue"
    /\ \E t \in Fresh :
          /\ issued' = [issued EXCEPT ![t] =
                [kind |-> "refresh", vs |-> i.vs, client |-> r.form.client, app |-> r.app,
                 user |-> i.user, redirect |-> None, challenge |-> None,
                 parent |-> r.token, via |-> r.form, expires |-> now + RefreshTTL]]
          /\ stored' = stored \union {t}
          /\ request' = [request EXCEPT ![q] = [@ EXCEPT !.new = t,
                           !.pc = IF i.kind = "code" THEN "delete" ELSE "respond"]]
    /\ UNCHANGED <<now, apps, admin, known, granted>>

Respond(q) ==
    /\ request[q].pc = "respond"
    /\ known' = known \union {request[q].new}
    /\ granted' = granted \union {request[q].token}
    /\ request' = [request EXCEPT ![q] = Idle]
    /\ UNCHANGED <<now, apps, admin, issued, stored>>

\* A check fails, a call of the store or of the database does, no key is found,
\* or the instance stops: the request ends and what it has done stays.
Abandon(q) ==
    /\ request[q].pc # "idle"
    /\ request' = [request EXCEPT ![q] = Idle]
    /\ UNCHANGED <<now, apps, admin, issued, stored, known, granted>>

RequestStep(q) ==
    \/ \E t \in known : ReadToken(q, t)
    \/ \E form \in Form : CheckCode(q, form) \/ CheckRefresh(q, form)
    \/ DeleteToken(q) \/ LoadApplication(q) \/ IssueTokens(q) \/ Respond(q) \/ Abandon(q)

Environment ==
    \/ Tick
    \/ \E v \in VirtualServer, c \in ClientName :
          \/ \E u \in User, uri \in Uri, ch \in Challenge : Authorize(v, c, u, uri, ch)
          \/ DeleteApplication(v, c)
          \/ \E a \in App : CreateApplication(v, c, a)

Next == Environment \/ \E q \in Request : RequestStep(q)

Spec == Init /\ [][Next]_vars

-----------------------------------------------------------------------------
TypeOK ==
    /\ now \in Nat
    /\ apps \in [VirtualServer -> [ClientName -> App \union {None}]]
    /\ admin \in [created : SUBSET App, changes : Nat]
    /\ issued \in [Token -> Info \union {None}]
    /\ stored \subseteq Token /\ known \subseteq Token /\ granted \subseteq Token
    /\ request \in [Request -> InProgress]

Refreshes == {t \in Token : issued[t] # None /\ issued[t].kind = "refresh"}

\* Whatever is granted for a token is granted to the client it was issued to, in
\* its virtual server and for its user; for a code the application, the redirect
\* URI and the verifier are those of the authorization request.
GrantBinding ==
    \A t \in Refreshes :
        LET i == issued[t]
            p == issued[i.parent]
        IN  /\ i.vs = p.vs /\ i.user = p.user /\ i.client = p.client
            /\ p.kind = "code" =>
                 /\ i.app = p.app
                 /\ i.via.redirect = p.redirect /\ i.via.verifier = p.challenge

\* A refresh chain follows the name of the client, but it passes to another
\* application only when the one it was issued to is gone (handleRefreshToken
\* looks the application up twice, and by name).
ClientContinuity ==
    \A t \in Refreshes :
        LET i == issued[t]
            p == issued[i.parent]
        IN  i.app # p.app => \A c \in ClientName : apps[p.vs][c] # p.app

\* Rotation: a refresh token and one obtained with it are never both usable,
\* however the requests that present them overlap or fail.
RotationInvalidates ==
    \A t \in Refreshes :
        t \in stored /\ issued[t].parent \in Refreshes => issued[t].parent \notin stored

\* The endpoint implements OneTimeToken, for codes and refresh tokens alike: a
\* token whose response was sent is not handed to a request again, and a request
\* that fails before the response leaves no grant behind.
Lifecycle == [t \in Token |->
    IF issued[t] = None THEN "unissued" ELSE IF Found(t) THEN "live" ELSE "spent"]
Holders == [t \in Token |->
    {q \in Request : request[q].pc # "idle" /\ request[q].token = t}]

Abstract == INSTANCE OneTimeToken
    WITH Holder <- Request, state <- Lifecycle, holders <- Holders
OneTime == Abstract!Spec
=============================================================================
