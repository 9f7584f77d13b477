-------------------------- MODULE TokenGrantsProofs --------------------------
(***************************************************************************)
(* Theorems about TokenGrants, for any number of virtual servers, clients, *)
(* tokens and overlapping requests, any lifetime of the tokens and any     *)
(* number of applications created and deleted.                             *)
(***************************************************************************)
EXTENDS TokenGrants, TLAPS

USE GrantAssumption

-----------------------------------------------------------------------------
(* The inductive invariant.                                                *)

Gone(v, a) == \A c \in ClientName : apps[v][c] # a

\* An application has one name in one virtual server.
OnePlace ==
    \A u, v \in VirtualServer, c, d \in ClientName :
        apps[u][c] # None =>
            /\ apps[u][c] \in admin.created
            /\ apps[u][c] = apps[v][d] => u = v /\ c = d

\* Only what was issued is stored, known and spent.
IssuedFirst == stored \union known \union granted \subseteq {t \in Token : issued[t] # None}

\* The application a token was issued for is nowhere but where it was then, and a
\* refresh token was granted for a token in all the ways that the properties name.
Grounded(t) ==
    LET i == issued[t]
        p == issued[i.parent]
    IN
    issued[t] # None =>
        /\ i.app \in admin.created
        /\ \A v \in VirtualServer, c \in ClientName :
              apps[v][c] = i.app => v = i.vs /\ c = i.client
        /\ i.kind = "refresh" =>
              /\ i.parent \in Token /\ p # None
              /\ i.vs = p.vs /\ i.user = p.user /\ i.client = p.client
              /\ p.kind = "code" =>
                    /\ i.app = p.app
                    /\ i.via.redirect = p.redirect /\ i.via.verifier = p.challenge
              /\ i.app # p.app => Gone(p.vs, p.app)
              /\ p.kind = "refresh" => i.parent \notin stored

\* What a request in progress has established of the token it presented.
Established(q) ==
    LET r == request[q]
        i == issued[r.token]
    IN
    r.pc # "idle" =>
        /\ r.token \in Token /\ i # None
        /\ r.pc # "check" =>
              /\ r.form \in Form /\ r.form.client = i.client
              /\ i.kind = "code" =>
                    r.form.redirect = i.redirect /\ r.form.verifier = i.challenge /\ r.pc # "load"
        /\ r.pc = "issue" =>
              /\ r.app \in App /\ r.app \in admin.created
              /\ \A v \in VirtualServer, c \in ClientName :
                    apps[v][c] = r.app => v = i.vs /\ c = i.client
              /\ i.kind = "code" => r.app = i.app
              /\ r.app # i.app => Gone(i.vs, i.app)
        /\ r.pc = "respond" \/ (r.pc = "delete" /\ i.kind = "code") =>
              r.new \in Token /\ issued[r.new] # None
        /\ r.pc = "respond" \/ (r.pc \in {"load", "issue"} /\ i.kind = "refresh") =>
              r.token \notin stored

GrantInv ==
    /\ OnePlace /\ IssuedFirst
    /\ \A t \in Token : Grounded(t)
    /\ \A t \in granted : t \notin stored
    /\ \A q \in Request : Established(q)

-----------------------------------------------------------------------------
(* Types.                                                                  *)

LEMMA TypeInit == Init => TypeOK
  BY DEF Init, TypeOK, Idle, InProgress

\* A request is replaced by another.
LEMMA RequestUpdate ==
  ASSUME TypeOK, NEW q \in Request, NEW r \in InProgress, request' = [request EXCEPT ![q] = r]
  PROVE  /\ request' \in [Request -> InProgress]
         /\ request'[q] = r /\ \A p \in Request : p # q => request'[p] = request[p]
  BY DEF TypeOK

\* What the two checks, the deletion, the second lookup and the end make of a request.
LEMMA CheckCodeEffect ==
  ASSUME TypeOK, NEW q \in Request, NEW form \in Form, CheckCode(q, form),
         issued[request[q].token] \in Info
  PROVE  /\ request' \in [Request -> InProgress]
         /\ \A p \in Request : p # q => request'[p] = request[p]
         /\ request'[q].pc = "issue" /\ request'[q].token = request[q].token
         /\ request'[q].form = form
         /\ request'[q].app = apps[issued[request[q].token].vs][form.client]
         /\ request'[q].app \in App
<1> DEFINE a == apps[issued[request[q].token].vs][form.client]
           r == [request[q] EXCEPT !.pc = "issue", !.form = form, !.app = a]
<1>1. a \in App
  BY DEF CheckCode, Authenticated, TypeOK, Info, Form
<1>2. request' = [request EXCEPT ![q] = r]
  BY DEF CheckCode
<1> HIDE DEF a
<1>3. request[q] \in InProgress
  BY DEF TypeOK
<1>4. /\ r \in InProgress
      /\ r.pc = "issue" /\ r.token = request[q].token /\ r.form = form /\ r.app = a
  BY <1>1, <1>3 DEF InProgress
<1> HIDE DEF r
<1>5. QED
  BY <1>1, <1>2, <1>4, RequestUpdate DEF a

LEMMA CheckRefreshEffect ==
  ASSUME TypeOK, NEW q \in Request, NEW form \in Form, CheckRefresh(q, form)
  PROVE  /\ request' \in [Request -> InProgress]
         /\ \A p \in Request : p # q => request'[p] = request[p]
         /\ request'[q].pc = "delete" /\ request'[q].token = request[q].token
         /\ request'[q].form = form
<1> DEFINE r == [request[q] EXCEPT !.pc = "delete", !.form = form]
<1>1. request' = [request EXCEPT ![q] = r]
  BY DEF CheckRefresh
<1>2. request[q] \in InProgress
  BY DEF TypeOK
<1>3. /\ r \in InProgress
      /\ r.pc = "delete" /\ r.token = request[q].token /\ r.form = form
  BY <1>2 DEF InProgress
<1> HIDE DEF r
<1>4. QED
  BY <1>1, <1>3, RequestUpdate

LEMMA DeleteEffect ==
  ASSUME TypeOK, NEW q \in Request, DeleteToken(q)
  PROVE  /\ request' \in [Request -> InProgress]
         /\ \A p \in Request : p # q => request'[p] = request[p]
         /\ request'[q].pc = (IF issued[request[q].token].kind = "code" THEN "respond" ELSE "load")
         /\ request'[q].token = request[q].token /\ request'[q].form = request[q].form
         /\ request'[q].new = request[q].new
<1> DEFINE to == IF issued[request[q].token].kind = "code" THEN "respond" ELSE "load"
           r == [request[q] EXCEPT !.pc = to]
<1>1. request' = [request EXCEPT ![q] = r]
  BY DEF DeleteToken
<1>2. request[q] \in InProgress /\ to \in {"respond", "load"}
  BY DEF TypeOK
<1> HIDE DEF to
<1>3. /\ r \in InProgress /\ r.pc = to /\ r.token = request[q].token
      /\ r.form = request[q].form /\ r.new = request[q].new
  BY <1>2 DEF InProgress
<1> HIDE DEF r
<1>4. QED
  BY <1>1, <1>3, RequestUpdate DEF to

LEMMA LoadEffect ==
  ASSUME TypeOK, NEW q \in Request, LoadApplication(q),
         issued[request[q].token] \in Info, request[q].form \in Form
  PROVE  /\ request' \in [Request -> InProgress]
         /\ \A p \in Request : p # q => request'[p] = request[p]
         /\ request'[q].pc = "issue" /\ request'[q].token = request[q].token
         /\ request'[q].form = request[q].form
         /\ request'[q].app = apps[issued[request[q].token].vs][request[q].form.client]
         /\ request'[q].app \in App
<1> DEFINE a == apps[issued[request[q].token].vs][request[q].form.client]
           r == [request[q] EXCEPT !.pc = "issue", !.app = a]
<1>1. a \in App
  BY DEF LoadApplication, TypeOK, Info, Form
<1>2. request' = [request EXCEPT ![q] = r]
  BY DEF LoadApplication
<1> HIDE DEF a
<1>3. request[q] \in InProgress
  BY DEF TypeOK
<1>4. /\ r \in InProgress /\ r.pc = "issue" /\ r.token = request[q].token
      /\ r.form = request[q].form /\ r.app = a
  BY <1>1, <1>3 DEF InProgress
<1> HIDE DEF r
<1>5. QED
  BY <1>1, <1>2, <1>4, RequestUpdate DEF a

\* What IssueTokens stores for the token new.
Grant(q, new) ==
    [kind |-> "refresh", vs |-> issued[request[q].token].vs,
     client |-> request[q].form.client, app |-> request[q].app,
     user |-> issued[request[q].token].user, redirect |-> None, challenge |-> None,
     parent |-> request[q].token, via |-> request[q].form, expires |-> now + RefreshTTL]

LEMMA GrantType ==
  ASSUME TypeOK, NEW q \in Request, NEW new, request[q].token \in Token,
         issued[request[q].token] \in Info, request[q].form \in Form, request[q].app \in App
  PROVE  Grant(q, new) \in Info
  BY DEF TypeOK, Grant, Info, Form

LEMMA IssueEffect ==
  ASSUME TypeOK, NEW q \in Request, NEW t \in Token,
         request' = [request EXCEPT ![q] = [@ EXCEPT !.new = t,
                      !.pc = IF issued[request[q].token].kind = "code" THEN "delete" ELSE "respond"]]
  PROVE  /\ request' \in [Request -> InProgress]
         /\ \A p \in Request : p # q => request'[p] = request[p]
         /\ request'[q].pc = (IF issued[request[q].token].kind = "code" THEN "delete" ELSE "respond")
         /\ request'[q].token = request[q].token /\ request'[q].form = request[q].form
         /\ request'[q].new = t
<1> DEFINE to == IF issued[request[q].token].kind = "code" THEN "delete" ELSE "respond"
           r == [request[q] EXCEPT !.new = t, !.pc = to]
<1>1. request' = [request EXCEPT ![q] = r]
  OBVIOUS
<1>2. request[q] \in InProgress /\ to \in {"respond", "delete"}
  BY DEF TypeOK
<1> HIDE DEF to
<1>3. /\ r \in InProgress /\ r.pc = to /\ r.token = request[q].token
      /\ r.form = request[q].form /\ r.new = t
  BY <1>2 DEF InProgress
<1> HIDE DEF r
<1>4. /\ request' \in [Request -> InProgress]
      /\ \A p \in Request : p # q => request'[p] = request[p]
      /\ request'[q].pc = to /\ request'[q].token = request[q].token
      /\ request'[q].form = request[q].form /\ request'[q].new = t
  BY <1>1, <1>3, RequestUpdate
<1>5. QED
  BY <1>4 DEF to

LEMMA ReadEffect ==
  ASSUME TypeOK, NEW q \in Request, NEW t \in Token, ReadToken(q, t)
  PROVE  /\ request' \in [Request -> InProgress]
         /\ \A p \in Request : p # q => request'[p] = request[p]
         /\ request'[q].pc = "check" /\ request'[q].token = t
<1> DEFINE r == [Idle EXCEPT !.pc = "check", !.token = t]
<1>1. request' = [request EXCEPT ![q] = r]
  BY DEF ReadToken
<1>2. r \in InProgress /\ r.pc = "check" /\ r.token = t
  BY DEF InProgress, Idle
<1> HIDE DEF r
<1>3. QED
  BY <1>1, <1>2, RequestUpdate

LEMMA EndEffect ==
  ASSUME TypeOK, NEW q \in Request, request' = [request EXCEPT ![q] = Idle]
  PROVE  /\ request' \in [Request -> InProgress]
         /\ \A p \in Request : p # q => request'[p] = request[p]
         /\ request'[q] = Idle /\ request'[q].pc = "idle"
<1>1. Idle \in InProgress /\ Idle.pc = "idle"
  BY DEF InProgress, Idle
<1>2. QED
  BY <1>1, RequestUpdate

\* The types of what a request that has passed its check refers to.
LEMMA EstablishedType ==
  ASSUME TypeOK, NEW q \in Request, Established(q), request[q].pc # "idle"
  PROVE  /\ request[q].token \in Token
         /\ issued[request[q].token] \in Info
         /\ request[q].pc # "check" => request[q].form \in Form
         /\ request[q].pc = "issue" => request[q].app \in App
  BY DEF TypeOK, Established

LEMMA TypeNext == TypeOK /\ GrantInv /\ [Next]_vars => TypeOK'
<1> SUFFICES ASSUME TypeOK, GrantInv, [Next]_vars PROVE TypeOK'
  OBVIOUS
<1>1. \A q \in Request : Established(q)
  BY DEF GrantInv
<1>2. ASSUME NEW v \in VirtualServer, NEW c \in ClientName, NEW u \in User, NEW uri \in Uri,
             NEW ch \in Challenge, Authorize(v, c, u, uri, ch)
      PROVE  TypeOK'
  <2>1. PICK t \in Fresh :
          /\ issued' = [issued EXCEPT ![t] =
                [kind |-> "code", vs |-> v, client |-> c, app |-> apps[v][c], user |-> u,
                 redirect |-> uri, challenge |-> ch, parent |-> None, via |-> None,
                 expires |-> now + CodeTTL]]
          /\ stored' = stored \union {t} /\ known' = known \union {t}
    BY <1>2 DEF Authorize
  <2>2. apps[v][c] \in App /\ now + CodeTTL \in Nat /\ t \in Token
    BY <1>2 DEF Authorize, TypeOK, Fresh
  <2>3. [kind |-> "code", vs |-> v, client |-> c, app |-> apps[v][c], user |-> u,
         redirect |-> uri, challenge |-> ch, parent |-> None, via |-> None,
         expires |-> now + CodeTTL] \in Info
    BY <2>2 DEF Info
  <2>4. issued' \in [Token -> Info \union {None}]
    BY <2>1, <2>3 DEF TypeOK
  <2>5. QED
    BY <1>2, <2>1, <2>2, <2>4 DEF Authorize, TypeOK
<1>3. ASSUME NEW v \in VirtualServer, NEW c \in ClientName, DeleteApplication(v, c) PROVE TypeOK'
  BY <1>3 DEF DeleteApplication, TypeOK
<1>4. ASSUME NEW v \in VirtualServer, NEW c \in ClientName, NEW a \in App, CreateApplication(v, c, a)
      PROVE  TypeOK'
  BY <1>4 DEF CreateApplication, TypeOK
<1>5. CASE Tick
  BY <1>5 DEF Tick, TypeOK
<1>6. ASSUME NEW q \in Request, NEW t \in known, ReadToken(q, t) PROVE TypeOK'
  BY <1>6, ReadEffect DEF ReadToken, TypeOK
<1>7. ASSUME NEW q \in Request, NEW form \in Form, CheckCode(q, form) PROVE TypeOK'
  BY <1>7, <1>1, CheckCodeEffect, EstablishedType DEF CheckCode, TypeOK
<1>8. ASSUME NEW q \in Request, NEW form \in Form, CheckRefresh(q, form) PROVE TypeOK'
  BY <1>8, CheckRefreshEffect DEF CheckRefresh, TypeOK
<1>9. ASSUME NEW q \in Request, DeleteToken(q) PROVE TypeOK'
  BY <1>9, DeleteEffect DEF DeleteToken, TypeOK
<1>10. ASSUME NEW q \in Request, LoadApplication(q) PROVE TypeOK'
  BY <1>10, <1>1, LoadEffect, EstablishedType DEF LoadApplication, TypeOK
<1>11. ASSUME NEW q \in Request, IssueTokens(q) PROVE TypeOK'
  <2>1. PICK t \in Fresh :
          /\ issued' = [issued EXCEPT ![t] = Grant(q, t)]
          /\ stored' = stored \union {t}
          /\ request' = [request EXCEPT ![q] = [@ EXCEPT !.new = t,
                           !.pc = IF issued[request[q].token].kind = "code" THEN "delete" ELSE "respond"]]
    BY <1>11 DEF IssueTokens, Grant
  <2>2. Grant(q, t) \in Info
    BY <1>11, <1>1, GrantType, EstablishedType DEF IssueTokens
  <2>3. issued' \in [Token -> Info \union {None}] /\ t \in Token
    BY <2>1, <2>2 DEF TypeOK, Fresh
  <2>4. request' \in [Request -> InProgress]
    BY <2>1, <2>3, IssueEffect
  <2>5. QED
    BY <1>11, <2>1, <2>3, <2>4 DEF IssueTokens, TypeOK
<1>12. ASSUME NEW q \in Request, Respond(q) PROVE TypeOK'
  <2>1. request[q].new \in Token /\ request[q].token \in Token
    BY <1>12, <1>1 DEF Respond, Established
  <2>2. QED
    BY <1>12, <2>1, EndEffect DEF Respond, TypeOK
<1>13. ASSUME NEW q \in Request, Abandon(q) PROVE TypeOK'
  BY <1>13, EndEffect DEF Abandon, TypeOK
<1>14. CASE UNCHANGED vars
  BY <1>14 DEF vars, TypeOK
<1>15. QED
  BY <1>2, <1>3, <1>4, <1>5, <1>6, <1>7, <1>8, <1>9, <1>10, <1>11, <1>12, <1>13, <1>14
     DEF Next, Environment, RequestStep

-----------------------------------------------------------------------------
(* The invariant is kept.                                                  *)

\* What no step takes back: the value of a token, its deletion, and the place of
\* an application that is gone.
Stable ==
    /\ \A t \in Token : issued[t] # None => issued'[t] = issued[t]
    /\ \A t \in Token : issued[t] # None /\ t \notin stored => t \notin stored'
    /\ admin.created \subseteq admin'.created
    /\ \A v \in VirtualServer, c \in ClientName :
          apps'[v][c] \in admin.created => apps'[v][c] = apps[v][c]

LEMMA StableNext == TypeOK /\ GrantInv /\ [Next]_vars => Stable
<1> SUFFICES ASSUME TypeOK, GrantInv, [Next]_vars PROVE Stable
  OBVIOUS
<1>1. ASSUME NEW v \in VirtualServer, NEW c \in ClientName, NEW u \in User, NEW uri \in Uri,
             NEW ch \in Challenge, Authorize(v, c, u, uri, ch)
      PROVE  Stable
  BY <1>1 DEF Authorize, Fresh, TypeOK, Stable
<1>2. ASSUME NEW v \in VirtualServer, NEW c \in ClientName, DeleteApplication(v, c) PROVE Stable
  <2>1. None \notin admin.created
    BY DEF TypeOK
  <2>2. \A u \in VirtualServer, d \in ClientName : apps'[u][d] \in {None, apps[u][d]}
    BY <1>2 DEF DeleteApplication, TypeOK
  <2>3. QED
    BY <1>2, <2>1, <2>2 DEF DeleteApplication, TypeOK, Stable
<1>3. ASSUME NEW v \in VirtualServer, NEW c \in ClientName, NEW a \in App, CreateApplication(v, c, a)
      PROVE  Stable
  <2>1. \A u \in VirtualServer, d \in ClientName : apps'[u][d] \in {a, apps[u][d]}
    BY <1>3 DEF CreateApplication, TypeOK
  <2>2. QED
    BY <1>3, <2>1 DEF CreateApplication, TypeOK, Stable
<1>4. ASSUME NEW q \in Request, IssueTokens(q) PROVE Stable
  BY <1>4 DEF IssueTokens, Fresh, TypeOK, Stable
<1>5. ASSUME issued' = issued, stored' \subseteq stored, apps' = apps, admin' = admin PROVE Stable
  BY <1>5 DEF Stable
<1>6. QED
  BY <1>1, <1>2, <1>3, <1>4, <1>5
     DEF Next, Environment, RequestStep, Tick, ReadToken, CheckCode, CheckRefresh, DeleteToken,
         LoadApplication, Respond, Abandon, vars

\* A token issued before stays grounded.
LEMMA GroundedStable ==
  ASSUME TypeOK, GrantInv, Stable, NEW t \in Token, issued[t] # None
  PROVE  Grounded(t)'
<1>1. Grounded(t) /\ issued'[t] = issued[t]
  BY DEF GrantInv, Stable
<1> DEFINE i == issued[t]
           p == issued[i.parent]
<1>2. i \in Info /\ i.app \in admin.created /\ i.app \in admin'.created
  BY <1>1 DEF Grounded, TypeOK, Stable
<1>3. \A v \in VirtualServer, c \in ClientName : apps'[v][c] = i.app => v = i.vs /\ c = i.client
  BY <1>1, <1>2 DEF Grounded, Stable
<1>4. CASE i.kind = "refresh"
  <2>1. i.parent \in Token /\ p # None /\ issued'[i.parent] = p
    BY <1>1, <1>4 DEF Grounded, Stable
  <2>2. p \in Info /\ p.app \in admin.created
    BY <2>1 DEF GrantInv, Grounded, TypeOK
  <2>3. i.app # p.app => \A c \in ClientName : apps'[p.vs][c] # p.app
    BY <1>1, <1>4, <2>1, <2>2 DEF Grounded, Gone, Stable, Info
  <2>4. p.kind = "refresh" => i.parent \notin stored'
    BY <1>1, <1>4, <2>1 DEF Grounded, Stable
  <2>5. QED
    BY <1>1, <1>2, <1>3, <1>4, <2>1, <2>3, <2>4 DEF Grounded, Gone
<1>5. CASE i.kind # "refresh"
  BY <1>1, <1>2, <1>3, <1>5 DEF Grounded
<1>6. QED
  BY <1>4, <1>5

\* A request that does not move loses nothing.
LEMMA EstablishedStable ==
  ASSUME TypeOK, GrantInv, Stable, NEW q \in Request, request'[q] = request[q]
  PROVE  Established(q)'
<1> DEFINE r == request[q]
           i == issued[r.token]
<1> SUFFICES ASSUME r.pc # "idle" PROVE Established(q)'
  BY DEF Established
<1>1. Established(q) /\ r.token \in Token /\ i # None /\ issued'[r.token] = i
  BY DEF GrantInv, Established, Stable
<1>2. i \in Info /\ i.app \in admin.created
  BY <1>1 DEF TypeOK, GrantInv, Grounded
<1>3. r.pc = "issue" =>
        /\ r.app \in App /\ r.app \in admin'.created
        /\ \A v \in VirtualServer, c \in ClientName : apps'[v][c] = r.app => v = i.vs /\ c = i.client
        /\ i.kind = "code" => r.app = i.app
        /\ r.app # i.app => \A c \in ClientName : apps'[i.vs][c] # i.app
  BY <1>1, <1>2 DEF Established, Stable, Gone, Info
<1>4. r.pc = "respond" \/ (r.pc = "delete" /\ i.kind = "code") =>
        r.new \in Token /\ issued'[r.new] # None
  BY <1>1 DEF Established, Stable
<1>5. r.pc = "respond" \/ (r.pc \in {"load", "issue"} /\ i.kind = "refresh") => r.token \notin stored'
  BY <1>1 DEF Established, Stable
<1>6. QED
  BY <1>1, <1>3, <1>4, <1>5 DEF Established, Gone

LEMMA OnePlaceNext == TypeOK /\ OnePlace /\ [Next]_vars => OnePlace'
<1> SUFFICES ASSUME TypeOK, OnePlace, [Next]_vars PROVE OnePlace'
  OBVIOUS
<1>1. ASSUME NEW v \in VirtualServer, NEW c \in ClientName, DeleteApplication(v, c) PROVE OnePlace'
  <2>1. \A u \in VirtualServer, d \in ClientName : apps'[u][d] \in {None, apps[u][d]}
    BY <1>1 DEF DeleteApplication, TypeOK
  <2>2. admin'.created = admin.created
    BY <1>1 DEF DeleteApplication, TypeOK
  <2>3. QED
    BY <2>1, <2>2 DEF OnePlace
<1>2. ASSUME NEW v \in VirtualServer, NEW c \in ClientName, NEW a \in App, CreateApplication(v, c, a)
      PROVE  OnePlace'
  <2>1. \A u \in VirtualServer, d \in ClientName :
           apps'[u][d] = IF u = v /\ d = c THEN a ELSE apps[u][d]
    BY <1>2 DEF CreateApplication, TypeOK
  <2>2. a \notin admin.created /\ admin'.created = admin.created \union {a}
    BY <1>2 DEF CreateApplication
  <2>3. QED
    BY <2>1, <2>2 DEF OnePlace
<1>3. ASSUME apps' = apps, admin' = admin PROVE OnePlace'
  BY <1>3 DEF OnePlace
<1>4. QED
  BY <1>1, <1>2, <1>3
     DEF Next, Environment, RequestStep, Authorize, Tick, ReadToken, CheckCode, CheckRefresh,
         DeleteToken, LoadApplication, IssueTokens, Respond, Abandon, vars

LEMMA GrantInit == Init => GrantInv
<1> SUFFICES ASSUME Init PROVE GrantInv
  OBVIOUS
<1>1. OnePlace
  BY DEF Init, OnePlace
<1>2. \A t \in Token : issued[t] = None
  BY DEF Init
<1>3. \A q \in Request : request[q].pc = "idle"
  BY DEF Init, Idle
<1>4. QED
  BY <1>1, <1>2, <1>3 DEF Init, GrantInv, IssuedFirst, Grounded, Established

\* An application that has a place has been created, and no other place has it.
LEMMA OneOwner ==
  ASSUME OnePlace, NEW u \in VirtualServer, NEW c \in ClientName, NEW a, a = apps[u][c], a # None
  PROVE  /\ a \in admin.created
         /\ \A v \in VirtualServer, d \in ClientName : apps[v][d] = a => v = u /\ d = c
BY DEF OnePlace

\* One request moves, and no token is issued.
LEMMA MoveKeeps ==
  ASSUME TypeOK, GrantInv, Stable, OnePlace', NEW q \in Request,
         issued' = issued, stored' \subseteq stored, known' = known, granted' = granted,
         \A p \in Request : p # q => request'[p] = request[p],
         Established(q)'
  PROVE  GrantInv'
<1>1. IssuedFirst'
  BY DEF GrantInv, IssuedFirst
<1>2. ASSUME NEW t \in Token PROVE Grounded(t)'
  <2>1. CASE issued[t] # None
    BY <2>1, GroundedStable
  <2>2. CASE issued[t] = None
    BY <2>2 DEF Grounded
  <2>3. QED
    BY <2>1, <2>2
<1>3. ASSUME NEW p \in Request PROVE Established(p)'
  BY EstablishedStable
<1>4. QED
  BY <1>1, <1>2, <1>3 DEF GrantInv

\* A step of the environment that issues nothing.
LEMMA QuietKeeps ==
  ASSUME TypeOK, GrantInv, Stable, OnePlace',
         issued' = issued, stored' = stored, known' = known, granted' = granted, request' = request
  PROVE  GrantInv'
<1>1. IssuedFirst'
  BY DEF GrantInv, IssuedFirst
<1>2. ASSUME NEW t \in Token PROVE Grounded(t)'
  <2>1. CASE issued[t] # None
    BY <2>1, GroundedStable
  <2>2. CASE issued[t] = None
    BY <2>2 DEF Grounded
  <2>3. QED
    BY <2>1, <2>2
<1>3. ASSUME NEW p \in Request PROVE Established(p)'
  BY EstablishedStable
<1>4. QED
  BY <1>1, <1>2, <1>3 DEF GrantInv

\* A token is issued: everything else stays as it is, what it is issued for must be grounded.
LEMMA IssueKeeps ==
  ASSUME TypeOK, GrantInv, Stable, OnePlace', NEW t \in Fresh, NEW i \in Info,
         issued' = [issued EXCEPT ![t] = i], stored' = stored \union {t},
         known' \subseteq known \union {t}, granted' = granted,
         Grounded(t)',
         \A q \in Request : Established(q)'
  PROVE  GrantInv'
<1>1. t \in Token /\ issued[t] = None /\ issued'[t] = i /\ i # None
  BY DEF Fresh, TypeOK
<1>2. \A u \in Token : u # t => issued'[u] = issued[u]
  BY DEF TypeOK
<1>3. IssuedFirst'
  BY <1>1, <1>2 DEF GrantInv, IssuedFirst
<1>4. ASSUME NEW u \in Token PROVE Grounded(u)'
  <2>1. CASE issued[u] # None
    BY <2>1, GroundedStable
  <2>2. CASE u = t
    BY <2>2
  <2>3. CASE issued[u] = None /\ u # t
    BY <1>2, <2>3 DEF Grounded
  <2>4. QED
    BY <2>1, <2>2, <2>3
<1>5. \A u \in granted' : u \notin stored'
  BY <1>1 DEF GrantInv, IssuedFirst
<1>6. QED
  BY <1>3, <1>4, <1>5 DEF GrantInv

LEMMA GrantNext == TypeOK /\ GrantInv /\ [Next]_vars => GrantInv'
<1> SUFFICES ASSUME TypeOK, GrantInv, [Next]_vars PROVE GrantInv'
  OBVIOUS
<1>1. Stable /\ OnePlace'
  BY StableNext, OnePlaceNext DEF GrantInv
<1>2. \A q \in Request : Established(q)
  BY DEF GrantInv
<1>3. \A t \in Token : issued[t] # None => issued[t] \in Info /\ Grounded(t)
  BY DEF TypeOK, GrantInv
<1>4. ASSUME NEW v \in VirtualServer, NEW c \in ClientName, NEW u \in User, NEW uri \in Uri,
             NEW ch \in Challenge, Authorize(v, c, u, uri, ch)
      PROVE  GrantInv'
  <2> DEFINE i == [kind |-> "code", vs |-> v, client |-> c, app |-> apps[v][c], user |-> u,
                   redirect |-> uri, challenge |-> ch, parent |-> None, via |-> None,
                   expires |-> now + CodeTTL]
  <2>1. PICK t \in Fresh :
          /\ issued' = [issued EXCEPT ![t] = i]
          /\ stored' = stored \union {t} /\ known' = known \union {t}
    BY <1>4 DEF Authorize
  <2>2. apps[v][c] # None /\ apps[v][c] \in App /\ now + CodeTTL \in Nat /\ t \in Token
    BY <1>4 DEF Authorize, TypeOK, Fresh
  <2>3. i \in Info /\ i.kind = "code" /\ i.app = apps[v][c] /\ i.vs = v /\ i.client = c
    BY <2>2 DEF Info
  <2> HIDE DEF i
  <2>4. issued'[t] = i /\ apps' = apps /\ admin' = admin /\ request' = request /\ granted' = granted
    BY <1>4, <2>1, <2>2 DEF Authorize, TypeOK
  <2>5. Grounded(t)'
    BY <2>2, <2>3, <2>4 DEF Grounded, GrantInv, OnePlace
  <2>6. \A q \in Request : Established(q)'
    BY <1>1, <2>4, EstablishedStable
  <2>7. QED
    BY <1>1, <2>1, <2>3, <2>4, <2>5, <2>6, IssueKeeps
<1>5. ASSUME NEW v \in VirtualServer, NEW c \in ClientName, DeleteApplication(v, c) PROVE GrantInv'
  BY <1>5, <1>1, QuietKeeps DEF DeleteApplication
<1>6. ASSUME NEW v \in VirtualServer, NEW c \in ClientName, NEW a \in App, CreateApplication(v, c, a)
      PROVE  GrantInv'
  BY <1>6, <1>1, QuietKeeps DEF CreateApplication
<1>7. CASE Tick
  BY <1>7, <1>1, QuietKeeps DEF Tick
<1>8. ASSUME NEW q \in Request, NEW t \in known, ReadToken(q, t) PROVE GrantInv'
  <2>1. t \in Token /\ issued[t] # None
    BY DEF GrantInv, IssuedFirst
  <2>2. /\ request'[q].pc = "check" /\ request'[q].token = t
        /\ \A p \in Request : p # q => request'[p] = request[p]
    BY <1>8, <2>1, ReadEffect
  <2>3. Established(q)'
    BY <1>8, <2>1, <2>2 DEF Established, ReadToken
  <2>4. QED
    BY <1>8, <1>1, <2>2, <2>3, MoveKeeps DEF ReadToken
<1>9. ASSUME NEW q \in Request, NEW form \in Form, CheckCode(q, form) PROVE GrantInv'
  <2> DEFINE i == issued[request[q].token]
  <2>1. /\ request[q].token \in Token /\ i \in Info /\ i # None /\ i.kind = "code"
        /\ apps[i.vs][form.client] = i.app /\ i.app # None
        /\ form.redirect = i.redirect /\ form.verifier = i.challenge
    BY <1>9, <1>2, EstablishedType DEF CheckCode, Authenticated, Established
  <2>2. /\ request'[q].pc = "issue" /\ request'[q].token = request[q].token
        /\ request'[q].form = form /\ request'[q].app = i.app /\ i.app \in App
        /\ \A p \in Request : p # q => request'[p] = request[p]
    BY <1>9, <2>1, CheckCodeEffect
  <2>3. /\ i.app \in admin.created
        /\ \A v \in VirtualServer, c \in ClientName : apps[v][c] = i.app => v = i.vs /\ c = i.client
        /\ form.client = i.client
    BY <1>3, <2>1 DEF Grounded, Info, Form
  <2>4. issued' = issued /\ apps' = apps /\ admin' = admin /\ stored' = stored
    BY <1>9 DEF CheckCode
  <2>5. Established(q)'
    BY <2>1, <2>2, <2>3, <2>4 DEF Established
  <2>6. QED
    BY <1>9, <1>1, <2>2, <2>5, MoveKeeps DEF CheckCode
<1>10. ASSUME NEW q \in Request, NEW form \in Form, CheckRefresh(q, form) PROVE GrantInv'
  <2> DEFINE i == issued[request[q].token]
  <2>1. /\ request[q].token \in Token /\ i # None /\ i.kind = "refresh" /\ form.client = i.client
    BY <1>10, <1>2 DEF CheckRefresh, Established
  <2>2. /\ request'[q].pc = "delete" /\ request'[q].token = request[q].token
        /\ request'[q].form = form
        /\ \A p \in Request : p # q => request'[p] = request[p]
    BY <1>10, CheckRefreshEffect
  <2>3. issued' = issued /\ stored' = stored
    BY <1>10 DEF CheckRefresh
  <2>4. Established(q)'
    BY <2>1, <2>2, <2>3 DEF Established
  <2>5. QED
    BY <1>10, <1>1, <2>2, <2>4, MoveKeeps DEF CheckRefresh
<1>11. ASSUME NEW q \in Request, DeleteToken(q) PROVE GrantInv'
  <2> DEFINE i == issued[request[q].token]
             to == IF i.kind = "code" THEN "respond" ELSE "load"
  <2>1. request[q].pc = "delete" /\ issued' = issued /\ stored' = stored \ {request[q].token}
    BY <1>11 DEF DeleteToken
  <2>2. /\ request'[q].pc = to /\ request'[q].token = request[q].token
        /\ request'[q].form = request[q].form /\ request'[q].new = request[q].new
        /\ \A p \in Request : p # q => request'[p] = request[p]
    BY <1>11, DeleteEffect
  <2>3. /\ request[q].token \in Token /\ i # None
        /\ request[q].form \in Form /\ request[q].form.client = i.client
        /\ i.kind = "code" => /\ request[q].form.redirect = i.redirect
                              /\ request[q].form.verifier = i.challenge
                              /\ request[q].new \in Token /\ issued[request[q].new] # None
    BY <1>2, <2>1 DEF Established
  <2>4. Established(q)'
    BY <2>1, <2>2, <2>3 DEF Established
  <2>5. QED
    BY <1>11, <1>1, <2>2, <2>4, MoveKeeps DEF DeleteToken
<1>12. ASSUME NEW q \in Request, LoadApplication(q) PROVE GrantInv'
  <2> DEFINE i == issued[request[q].token]
             a == apps[i.vs][request[q].form.client]
  <2>1. request[q].pc = "load" /\ a # None /\ issued' = issued /\ stored' = stored
        /\ apps' = apps /\ admin' = admin
    BY <1>12 DEF LoadApplication
  <2>2. /\ request[q].token \in Token /\ i # None /\ i \in Info /\ i.kind = "refresh"
        /\ request[q].form \in Form /\ request[q].form.client = i.client
        /\ request[q].token \notin stored
    BY <1>2, <1>3, <2>1 DEF Established, Info
  <2>3. /\ request'[q].pc = "issue" /\ request'[q].token = request[q].token
        /\ request'[q].form = request[q].form /\ request'[q].app = a /\ a \in App
        /\ \A p \in Request : p # q => request'[p] = request[p]
    BY <1>12, <2>2, LoadEffect
  <2>4. i.vs \in VirtualServer /\ i.client \in ClientName /\ a = apps[i.vs][i.client]
    BY <2>2 DEF Info
  <2>5. /\ a \in admin.created
        /\ \A v \in VirtualServer, c \in ClientName : apps[v][c] = a => v = i.vs /\ c = i.client
    <3>1. PICK vs, client, app : vs = i.vs /\ client = i.client /\ app = a
      OBVIOUS
    <3>2. /\ vs \in VirtualServer /\ client \in ClientName
          /\ app = apps[vs][client] /\ app # None
      BY <2>1, <2>4, <3>1
    <3>3. OnePlace
      BY DEF GrantInv
    <3>4. /\ app \in admin.created
          /\ \A v \in VirtualServer, c \in ClientName : apps[v][c] = app => v = vs /\ c = client
      BY <3>2, <3>3, OneOwner
    <3>5. QED
      BY <3>1, <3>4
  <2>6. a # i.app => \A c \in ClientName : apps[i.vs][c] # i.app
    BY <1>3, <2>2, <2>4 DEF Grounded
  <2> HIDE DEF a
  <2>7. Established(q)'
    BY <2>1, <2>2, <2>3, <2>5, <2>6 DEF Established, Gone
  <2>8. QED
    BY <1>12, <1>1, <2>3, <2>7, MoveKeeps DEF LoadApplication
<1>13. ASSUME NEW q \in Request, IssueTokens(q) PROVE GrantInv'
  <2> DEFINE p == issued[request[q].token]
             to == IF p.kind = "code" THEN "delete" ELSE "respond"
  <2>1. PICK t \in Fresh :
          /\ issued' = [issued EXCEPT ![t] = Grant(q, t)]
          /\ stored' = stored \union {t}
          /\ request' = [request EXCEPT ![q] = [@ EXCEPT !.new = t,
                           !.pc = IF issued[request[q].token].kind = "code" THEN "delete" ELSE "respond"]]
    BY <1>13 DEF IssueTokens, Grant
  <2>2. /\ request[q].pc = "issue" /\ known' = known /\ granted' = granted
        /\ apps' = apps /\ admin' = admin /\ t \in Token /\ issued[t] = None
    BY <1>13 DEF IssueTokens, Fresh
  <2>3. /\ Established(q) /\ request[q].token \in Token /\ p # None /\ p \in Info
        /\ request[q].form \in Form /\ request[q].app \in App
        /\ request[q].token # t
    BY <1>2, <1>3, <2>2 DEF Established
  <2>4. Grant(q, t) \in Info
    BY <2>3, GrantType
  <2>5. /\ issued'[t] = Grant(q, t) /\ issued'[request[q].token] = p
        /\ issued'[t] # None
    BY <2>1, <2>2, <2>3, <2>4 DEF TypeOK
  <2>6. Grounded(t)'
    <3> DEFINE i == Grant(q, t)
    <3>1. /\ i.kind = "refresh" /\ i.parent = request[q].token /\ i.vs = p.vs
          /\ i.client = request[q].form.client /\ i.user = p.user /\ i.app = request[q].app
          /\ i.via = request[q].form
      BY DEF Grant
    <3> HIDE DEF i
    <3>2. /\ i.app \in admin.created
          /\ \A v \in VirtualServer, c \in ClientName :
                apps[v][c] = i.app => v = i.vs /\ c = i.client
      BY <2>2, <2>3, <3>1 DEF Established
    <3>3. /\ i.client = p.client
          /\ p.kind = "code" =>
                /\ i.app = p.app
                /\ i.via.redirect = p.redirect /\ i.via.verifier = p.challenge
          /\ i.app # p.app => \A c \in ClientName : apps[p.vs][c] # p.app
          /\ p.kind = "refresh" => request[q].token \notin stored'
      BY <2>1, <2>2, <2>3, <3>1 DEF Established, Gone
    <3>4. QED
      BY <2>2, <2>3, <2>5, <3>1, <3>2, <3>3 DEF Grounded, Gone, i
  <2>7. /\ request'[q].pc = to /\ request'[q].token = request[q].token
        /\ request'[q].form = request[q].form /\ request'[q].new = t
        /\ \A o \in Request : o # q => request'[o] = request[o]
    BY <2>1, <2>2, IssueEffect
  <2>8. Established(q)'
    <3>1. to = "respond" => request[q].token \notin stored'
      BY <2>1, <2>2, <2>3 DEF Established, Info
    <3>2. /\ request[q].form.client = p.client
          /\ p.kind = "code" => /\ request[q].form.redirect = p.redirect
                                /\ request[q].form.verifier = p.challenge
      BY <2>2, <2>3 DEF Established
    <3>3. to \in {"delete", "respond"}
      OBVIOUS
    <3> HIDE DEF to
    <3>4. QED
      BY <2>2, <2>3, <2>5, <2>7, <3>1, <3>2, <3>3 DEF Established
  <2>9. \A o \in Request : Established(o)'
    BY <1>1, <2>7, <2>8, EstablishedStable
  <2>10. QED
    BY <1>1, <2>1, <2>2, <2>4, <2>6, <2>9, IssueKeeps
<1>14. ASSUME NEW q \in Request, Respond(q) PROVE GrantInv'
  <2>1. /\ request'[q].pc = "idle"
        /\ \A p \in Request : p # q => request'[p] = request[p]
    BY <1>14, EndEffect DEF Respond
  <2>2. /\ request[q].token \in Token /\ issued[request[q].token] # None
        /\ request[q].token \notin stored
        /\ request[q].new \in Token /\ issued[request[q].new] # None
    BY <1>14, <1>2 DEF Respond, Established
  <2>3. issued' = issued /\ stored' = stored
    BY <1>14 DEF Respond
  <2>4. IssuedFirst' /\ \A t \in granted' : t \notin stored'
    BY <1>14, <2>2 DEF Respond, GrantInv, IssuedFirst
  <2>5. \A t \in Token : Grounded(t)'
    <3>1. ASSUME NEW t \in Token, issued[t] # None PROVE Grounded(t)'
      BY <1>1, <3>1, GroundedStable
    <3>2. ASSUME NEW t \in Token, issued[t] = None PROVE Grounded(t)'
      BY <2>3, <3>2 DEF Grounded
    <3>3. QED
      BY <3>1, <3>2
  <2>6. \A p \in Request : Established(p)'
    <3>1. Established(q)'
      BY <2>1 DEF Established
    <3>2. QED
      BY <1>1, <2>1, <3>1, EstablishedStable
  <2>7. QED
    BY <1>1, <2>4, <2>5, <2>6 DEF GrantInv
<1>15. ASSUME NEW q \in Request, Abandon(q) PROVE GrantInv'
  <2>1. /\ request'[q].pc = "idle"
        /\ \A p \in Request : p # q => request'[p] = request[p]
    BY <1>15, EndEffect DEF Abandon
  <2>2. Established(q)'
    BY <2>1 DEF Established
  <2>3. QED
    BY <1>15, <1>1, <2>1, <2>2, MoveKeeps DEF Abandon
<1>16. CASE UNCHANGED vars
  BY <1>16, <1>1, QuietKeeps DEF vars
<1>17. QED
  BY <1>4, <1>5, <1>6, <1>7, <1>8, <1>9, <1>10, <1>11, <1>12, <1>13, <1>14, <1>15, <1>16
     DEF Next, Environment, RequestStep

LEMMA GrantAlways == Spec => [](TypeOK /\ GrantInv)
  BY TypeInit, TypeNext, GrantInit, GrantNext, PTL DEF Spec

\* The variables keep their types.
THEOREM Typing == Spec => []TypeOK
  BY GrantAlways, PTL

\* Whatever is granted for a token is granted to the client, in the virtual server and
\* for the user of that token, and for a code to the application, the redirect URI and
\* the verifier of the authorization request, however requests and the administration
\* of applications interleave.
THEOREM Binding == Spec => []GrantBinding
<1>1. GrantInv => GrantBinding
  BY DEF GrantInv, Grounded, GrantBinding, Refreshes
<1>2. QED
  BY GrantAlways, <1>1, PTL

\* A refresh chain passes to another application of the same name only when the one
\* it was issued to is gone.
THEOREM Continuity == Spec => []ClientContinuity
<1>1. GrantInv => ClientContinuity
  BY DEF GrantInv, Grounded, Gone, ClientContinuity, Refreshes
<1>2. QED
  BY GrantAlways, <1>1, PTL

\* A refresh token and one obtained with it are never both stored.
THEOREM Rotation == Spec => []RotationInvalidates
<1>1. GrantInv => RotationInvalidates
  BY DEF GrantInv, Grounded, RotationInvalidates, Refreshes
<1>2. QED
  BY GrantAlways, <1>1, PTL

-----------------------------------------------------------------------------
(* TokenGrants implements OneTimeToken.                                    *)

LEMMA MapInit == Init => Abstract!Init
<1> SUFFICES ASSUME Init PROVE Abstract!Init
  OBVIOUS
<1>1. Lifecycle = [t \in Token |-> "unissued"]
  BY DEF Init, Lifecycle
<1>2. Holders = [t \in Token |-> {}]
  BY DEF Init, Holders, Idle
<1>3. QED
  BY <1>1, <1>2 DEF Init, Abstract!Init

\* The requests in progress with t are the same if no request begins, ends or changes
\* its token.
LEMMA HoldersSame ==
  ASSUME \A q \in Request : /\ request'[q].token = request[q].token
                            /\ request'[q].pc = "idle" <=> request[q].pc = "idle"
  PROVE  Holders' = Holders
  BY DEF Holders

\* The life of a token is the same if its value, its place in the store and the clock are.
LEMMA LifecycleSame ==
  ASSUME issued' = issued, stored' = stored, now' = now
  PROVE  Lifecycle' = Lifecycle
  BY DEF Lifecycle, Found

\* A new token becomes live.
LEMMA IssueMaps ==
  ASSUME TypeOK, GrantInv, Stable, now' = now, Holders' = Holders, granted' = granted,
         NEW t \in Fresh, NEW i \in Info, i.expires >= now,
         issued' = [issued EXCEPT ![t] = i], stored' = stored \union {t}
  PROVE  Abstract!Issue(t)
<1>1. t \in Token /\ issued[t] = None /\ issued'[t] = i /\ i # None
  BY DEF Fresh, TypeOK
<1>2. \A u \in Token : u # t => issued'[u] = issued[u]
  BY DEF TypeOK
<1>3. Lifecycle[t] = "unissued"
  BY <1>1 DEF Lifecycle
<1>4. now \in Nat /\ i.expires \in Nat
  BY DEF TypeOK, Info
<1>5. ASSUME NEW u \in Token
      PROVE  Lifecycle'[u] = IF u = t THEN "live" ELSE Lifecycle[u]
  BY <1>1, <1>2, <1>4 DEF Lifecycle, Found
<1>6. Lifecycle' = [Lifecycle EXCEPT ![t] = "live"]
  BY <1>5 DEF Lifecycle
<1>7. QED
  BY <1>3, <1>6 DEF Abstract!Issue

\* A request ends, and no longer holds its token.
LEMMA EndMaps ==
  ASSUME TypeOK, NEW q \in Request, request[q].pc # "idle", request[q].token \in Token,
         request'[q].pc = "idle",
         \A p \in Request : p # q => request'[p] = request[p]
  PROVE  /\ q \in Holders[request[q].token]
         /\ Holders' = [Holders EXCEPT ![request[q].token] = @ \ {q}]
<1>1. q \in Holders[request[q].token]
  BY DEF Holders
<1>2. ASSUME NEW t \in Token
      PROVE  Holders'[t] = IF t = request[q].token THEN Holders[t] \ {q} ELSE Holders[t]
  BY DEF Holders
<1>3. Holders = [t \in Token |-> Holders[t]] /\ Holders' = [t \in Token |-> Holders'[t]]
  BY DEF Holders
<1>4. QED
  BY <1>1, <1>2, <1>3

LEMMA MapNext == TypeOK /\ GrantInv /\ [Next]_vars => [Abstract!Next]_(Abstract!vars)
<1> SUFFICES ASSUME TypeOK, GrantInv, [Next]_vars
             PROVE  Abstract!Next \/ UNCHANGED Abstract!vars
  OBVIOUS
<1>1. Stable
  BY StableNext
<1>2. \A q \in Request : Established(q)
  BY DEF GrantInv
<1>3. ASSUME NEW v \in VirtualServer, NEW c \in ClientName, NEW u \in User, NEW uri \in Uri,
             NEW ch \in Challenge, Authorize(v, c, u, uri, ch)
      PROVE  Abstract!Next
  <2> DEFINE i == [kind |-> "code", vs |-> v, client |-> c, app |-> apps[v][c], user |-> u,
                   redirect |-> uri, challenge |-> ch, parent |-> None, via |-> None,
                   expires |-> now + CodeTTL]
  <2>1. PICK t \in Fresh : issued' = [issued EXCEPT ![t] = i] /\ stored' = stored \union {t}
    BY <1>3 DEF Authorize
  <2>2. apps[v][c] # None /\ apps[v][c] \in App /\ now + CodeTTL \in Nat /\ now + CodeTTL >= now
        /\ t \in Token
    BY <1>3 DEF Authorize, TypeOK, Fresh
  <2>3. i \in Info /\ i.expires >= now
    BY <2>2 DEF Info
  <2> HIDE DEF i
  <2>4. Holders' = Holders /\ now' = now /\ granted' = granted
    BY <1>3 DEF Authorize, Holders
  <2>5. Abstract!Issue(t)
    BY <1>1, <2>1, <2>3, <2>4, IssueMaps
  <2>6. QED
    BY <2>2, <2>5 DEF Abstract!Next
<1>4. CASE Tick
  <2> DEFINE T == {t \in Token : Lifecycle[t] = "live" /\ ~(now' <= issued[t].expires)}
  <2>1. issued' = issued /\ stored' = stored /\ now' = now + 1 /\ now \in Nat
        /\ granted' = granted /\ request' = request
    BY <1>4 DEF Tick, TypeOK
  <2>2. ASSUME NEW t \in Token
        PROVE  Lifecycle'[t] = IF t \in T THEN "spent" ELSE Lifecycle[t]
    <3>1. issued[t] # None => issued[t].expires \in Nat
      BY DEF TypeOK, Info
    <3>2. QED
      BY <2>1, <3>1 DEF Lifecycle, Found
  <2>3. Lifecycle' = [t \in Token |-> IF t \in T THEN "spent" ELSE Lifecycle[t]]
    BY <2>2 DEF Lifecycle
  <2>4. Holders' = Holders
    BY <2>1 DEF Holders
  <2>5. Abstract!Spend(T)
    BY <2>1, <2>3, <2>4 DEF Abstract!Spend
  <2>6. QED
    BY <2>5 DEF Abstract!Next
<1>5. ASSUME NEW q \in Request, NEW t \in known, ReadToken(q, t) PROVE Abstract!Next
  <2>1. t \in Token /\ issued[t] # None
    BY DEF GrantInv, IssuedFirst
  <2>2. /\ request'[q].pc = "check" /\ request'[q].token = t /\ request[q].pc = "idle"
        /\ \A p \in Request : p # q => request'[p] = request[p]
    BY <1>5, <2>1, ReadEffect DEF ReadToken
  <2>3. Lifecycle[t] = "live"
    BY <1>5, <2>1 DEF ReadToken, Lifecycle
  <2>4. ASSUME NEW u \in Token
        PROVE  Holders'[u] = IF u = t THEN Holders[u] \union {q} ELSE Holders[u]
    BY <2>2 DEF Holders
  <2>5. Holders' = [Holders EXCEPT ![t] = @ \union {q}]
    BY <2>4 DEF Holders
  <2>6. Lifecycle' = Lifecycle /\ granted' = granted
    BY <1>5, LifecycleSame DEF ReadToken
  <2>7. Abstract!Take(t, q)
    BY <2>3, <2>5, <2>6 DEF Abstract!Take
  <2>8. QED
    BY <2>1, <2>7 DEF Abstract!Next
<1>6. ASSUME NEW q \in Request, NEW form \in Form, CheckCode(q, form) PROVE UNCHANGED Abstract!vars
  <2>1. issued[request[q].token] \in Info /\ request[q].pc = "check"
    BY <1>6, <1>2, EstablishedType DEF CheckCode
  <2>2. /\ request'[q].pc = "issue" /\ request'[q].token = request[q].token
        /\ \A p \in Request : p # q => request'[p] = request[p]
    BY <1>6, <2>1, CheckCodeEffect
  <2>3. Holders' = Holders
    BY <2>1, <2>2, HoldersSame
  <2>4. QED
    BY <1>6, <2>3, LifecycleSame DEF CheckCode, Abstract!vars
<1>7. ASSUME NEW q \in Request, NEW form \in Form, CheckRefresh(q, form) PROVE UNCHANGED Abstract!vars
  <2>1. /\ request[q].pc = "check"
        /\ request'[q].pc = "delete" /\ request'[q].token = request[q].token
        /\ \A p \in Request : p # q => request'[p] = request[p]
    BY <1>7, CheckRefreshEffect DEF CheckRefresh
  <2>2. Holders' = Holders
    BY <2>1, HoldersSame
  <2>3. QED
    BY <1>7, <2>2, LifecycleSame DEF CheckRefresh, Abstract!vars
<1>8. ASSUME NEW q \in Request, DeleteToken(q) PROVE Abstract!Next
  <2> DEFINE d == request[q].token
             T == {t \in Token : t = d /\ Lifecycle[t] = "live"}
  <2>1. /\ request[q].pc = "delete" /\ d \in Token /\ issued[d] # None
        /\ issued' = issued /\ stored' = stored \ {d} /\ now' = now /\ granted' = granted
    BY <1>8, <1>2 DEF DeleteToken, Established
  <2>2. /\ request'[q].pc # "idle" /\ request'[q].token = request[q].token
        /\ \A p \in Request : p # q => request'[p] = request[p]
    BY <1>8, DeleteEffect
  <2>3. Holders' = Holders
    BY <2>1, <2>2, HoldersSame
  <2>4. ASSUME NEW t \in Token
        PROVE  Lifecycle'[t] = IF t \in T THEN "spent" ELSE Lifecycle[t]
    BY <2>1 DEF Lifecycle, Found
  <2>5. Lifecycle' = [t \in Token |-> IF t \in T THEN "spent" ELSE Lifecycle[t]]
    BY <2>4 DEF Lifecycle
  <2>6. Abstract!Spend(T)
    BY <2>1, <2>3, <2>5 DEF Abstract!Spend
  <2>7. QED
    BY <2>6 DEF Abstract!Next
<1>9. ASSUME NEW q \in Request, LoadApplication(q) PROVE UNCHANGED Abstract!vars
  <2>1. issued[request[q].token] \in Info /\ request[q].pc = "load" /\ request[q].form \in Form
    BY <1>9, <1>2, EstablishedType DEF LoadApplication
  <2>2. /\ request'[q].pc = "issue" /\ request'[q].token = request[q].token
        /\ \A p \in Request : p # q => request'[p] = request[p]
    BY <1>9, <2>1, LoadEffect
  <2>3. Holders' = Holders
    BY <2>1, <2>2, HoldersSame
  <2>4. QED
    BY <1>9, <2>3, LifecycleSame DEF LoadApplication, Abstract!vars
<1>10. ASSUME NEW q \in Request, IssueTokens(q) PROVE Abstract!Next
  <2>1. PICK t \in Fresh :
          /\ issued' = [issued EXCEPT ![t] = Grant(q, t)]
          /\ stored' = stored \union {t}
          /\ request' = [request EXCEPT ![q] = [@ EXCEPT !.new = t,
                           !.pc = IF issued[request[q].token].kind = "code" THEN "delete" ELSE "respond"]]
    BY <1>10 DEF IssueTokens, Grant
  <2>2. /\ request[q].pc = "issue" /\ now' = now /\ granted' = granted /\ t \in Token
    BY <1>10 DEF IssueTokens, Fresh
  <2>3. Grant(q, t) \in Info
    BY <1>2, <2>2, GrantType, EstablishedType
  <2>4. Grant(q, t).expires >= now
    BY DEF Grant, TypeOK
  <2> DEFINE to == IF issued[request[q].token].kind = "code" THEN "delete" ELSE "respond"
  <2>5. /\ request'[q].pc = to /\ request'[q].token = request[q].token
        /\ \A p \in Request : p # q => request'[p] = request[p]
    BY <2>1, <2>2, IssueEffect
  <2>6. /\ request'[q].pc # "idle" /\ request'[q].token = request[q].token
        /\ \A p \in Request : p # q => request'[p] = request[p]
    BY <2>5
  <2>7. Holders' = Holders
    BY <2>2, <2>6, HoldersSame
  <2>8. Abstract!Issue(t)
    BY <1>1, <2>1, <2>2, <2>3, <2>4, <2>7, IssueMaps
  <2>9. QED
    BY <2>2, <2>8 DEF Abstract!Next
<1>11. ASSUME NEW q \in Request, Respond(q) PROVE Abstract!Next
  <2> DEFINE d == request[q].token
  <2>1. /\ request[q].pc = "respond" /\ d \in Token /\ issued[d] # None /\ d \notin stored
    BY <1>11, <1>2 DEF Respond, Established
  <2>2. /\ request'[q].pc = "idle"
        /\ \A p \in Request : p # q => request'[p] = request[p]
    BY <1>11, EndEffect DEF Respond
  <2>3. /\ q \in Holders[d]
        /\ Holders' = [Holders EXCEPT ![d] = @ \ {q}]
    BY <2>1, <2>2, EndMaps
  <2>4. Lifecycle[d] = "spent"
    BY <2>1 DEF Lifecycle, Found
  <2>5. Lifecycle' = Lifecycle /\ granted' = granted \union {d}
    BY <1>11, LifecycleSame DEF Respond
  <2>6. Abstract!Grant(d, q)
    BY <2>3, <2>4, <2>5 DEF Abstract!Grant
  <2>7. QED
    BY <2>1, <2>6 DEF Abstract!Next
<1>12. ASSUME NEW q \in Request, Abandon(q) PROVE Abstract!Next
  <2> DEFINE d == request[q].token
  <2>1. request[q].pc # "idle" /\ d \in Token
    BY <1>12, <1>2 DEF Abandon, Established
  <2>2. /\ request'[q].pc = "idle"
        /\ \A p \in Request : p # q => request'[p] = request[p]
    BY <1>12, EndEffect DEF Abandon
  <2>3. /\ q \in Holders[d]
        /\ Holders' = [Holders EXCEPT ![d] = @ \ {q}]
    BY <2>1, <2>2, EndMaps
  <2>4. Lifecycle' = Lifecycle /\ granted' = granted
    BY <1>12, LifecycleSame DEF Abandon
  <2>5. Abstract!Drop(d, q)
    BY <2>3, <2>4 DEF Abstract!Drop
  <2>6. QED
    BY <2>1, <2>5 DEF Abstract!Next
<1>13. ASSUME issued' = issued, stored' = stored, now' = now, granted' = granted, request' = request
       PROVE  UNCHANGED Abstract!vars
  <2>1. Lifecycle' = Lifecycle
    BY <1>13, LifecycleSame
  <2>2. Holders' = Holders
    BY <1>13 DEF Holders
  <2>3. QED
    BY <1>13, <2>1, <2>2 DEF Abstract!vars
<1>14. ASSUME NEW v \in VirtualServer, NEW c \in ClientName,
              DeleteApplication(v, c) \/ \E a \in App : CreateApplication(v, c, a)
       PROVE  UNCHANGED Abstract!vars
  BY <1>13, <1>14 DEF DeleteApplication, CreateApplication
<1>15. CASE UNCHANGED vars
  BY <1>13, <1>15 DEF vars
<1>16. QED
  BY <1>3, <1>4, <1>5, <1>6, <1>7, <1>8, <1>9, <1>10, <1>11, <1>12, <1>14, <1>15
     DEF Next, Environment, RequestStep

\* The endpoint implements the abstract specification: every step of a request, of the
\* clock and of the administration issues, hands out, spends, grants or drops one token
\* (or several that expire), or leaves all as they are.
THEOREM Implements == Spec => OneTime
  BY GrantAlways, MapInit, MapNext, PTL DEF Spec, OneTime, Abstract!Spec

\* A token for which a response was sent cannot be presented again.
THEOREM Spent == Spec => []Abstract!GrantedIsSpent
<1>1. GrantInv => Abstract!GrantedIsSpent
  BY DEF GrantInv, IssuedFirst, Abstract!GrantedIsSpent, Lifecycle, Found
<1>2. QED
  BY GrantAlways, <1>1, PTL

=============================================================================
