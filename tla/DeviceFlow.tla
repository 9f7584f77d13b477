----------------------------- MODULE DeviceFlow -----------------------------
(***************************************************************************)
(* The device authorization grant (internal/handlers/oidc.go) with the     *)
(* part of FinishLogin (internal/handlers/login.go) that authorizes the    *)
(* device.  A device obtains a device code and a user code; a user types   *)
(* the user code, signs in, and finishing the login marks the device code  *)
(* authorized; the device, polling, exchanges it for tokens.               *)
(*                                                                         *)
(* Every handler is a process that calls the key-value store several       *)
(* times, and writes back values it read earlier.  The steps of a login    *)
(* between its start and its end are those of LoginFlow; here they are     *)
(* the single action SignIn.                                               *)
(***************************************************************************)
EXTENDS Naturals, FiniteSets

CONSTANTS
    VirtualServer, ClientName, User, Device, UserCode, Login, Handler, None,
    Applications,    \* the applications, <<server, name>>
    DeviceClients,   \* those with the device flow enabled
    Home,            \* the virtual server of each user
    DeviceTTL,       \* ten minutes in the code
    LoginTTL,        \* fifteen
    MaxTime          \* bound on the clock

DeviceCodeInfo == [vs : VirtualServer, client : ClientName, userCode : UserCode,
                   status : {"pending", "authorized"}, user : User \union {None},
                   expires : Nat]

ASSUME DeviceAssumption ==
    /\ {DeviceTTL, LoginTTL, MaxTime} \subseteq Nat
    /\ DeviceClients \subseteq Applications /\ Applications \subseteq VirtualServer \X ClientName
    /\ Home \in [User -> VirtualServer]
    /\ None \notin VirtualServer \union ClientName \union User \union Device \union Login
    /\ None \notin DeviceCodeInfo

VARIABLES
    now,
    deviceCodes,  \* oidc_device_code in the store: [Device -> DeviceCodeInfo or None]
    userCodes,    \* oidc_user_code: [UserCode -> the device code it stands for, or None]
    logins,       \* login_session: [Login -> LoginInfo or None]
    handler,      \* [Handler -> the handler in progress]
    shared,       \* history: the device codes two handlers were busy with at once
    begun,        \* history: what each device code was issued for
    opened,       \* history: the logins ever started
    approved,     \* history: <<device, user>> of each login finished for a device
    grants,       \* history: what tokens were issued for
    redeemed      \* history: [Device -> how often]

vars == <<now, deviceCodes, userCodes, logins, handler, shared, begun, opened, approved,
          grants, redeemed>>

UserCodeInfo == [device : Device, expires : Nat]
LoginInfo == [vs : VirtualServer, device : Device, user : User \union {None}, expires : Nat]

\* A request and what its handler holds.
InProgress ==
    [pc : {"idle", "storeUserCode", "activate", "openLogin", "deleteLogin", "readDevice",
           "authorize", "dropUserCode", "redeem", "issue"},
     device : Device \union {None}, vs : VirtualServer \union {None},
     user : User \union {None}, login : Login \union {None},
     info : DeviceCodeInfo \union {None}]
Idle == [pc |-> "idle", device |-> None, vs |-> None, user |-> None, login |-> None,
         info |-> None]

Live(entry) == entry # None /\ now <= entry.expires
At(h, pc) == handler[h].pc = pc
Go(h, r) == handler' = [handler EXCEPT ![h] = r] /\ UNCHANGED shared
Leave(h) == Go(h, Idle)

\* A handler takes up the device code d, whether or not another is busy with it.
Enter(h, d, r) ==
    /\ At(h, "idle") /\ handler' = [handler EXCEPT ![h] = [r EXCEPT !.device = d]]
    /\ shared' = IF \E g \in Handler : handler[g].device = d THEN shared \union {d} ELSE shared

Init ==
    /\ now = 0
    /\ deviceCodes = [d \in Device |-> None] /\ userCodes = [c \in UserCode |-> None]
    /\ logins = [l \in Login |-> None] /\ handler = [h \in Handler |-> Idle]
    /\ shared = {} /\ begun = [d \in Device |-> None] /\ opened = {} /\ approved = {}
    /\ grants = {} /\ redeemed = [d \in Device |-> 0]

-----------------------------------------------------------------------------
(* BeginDeviceFlow: the device code is stored, then the user code, which is *)
(* drawn without looking whether it is in use.                              *)
BeginDeviceFlow(h, v, c, code) ==
    /\ <<v, c>> \in DeviceClients
    /\ \E d \in {e \in Device : begun[e] = None} :
          LET info == [vs |-> v, client |-> c, userCode |-> code, status |-> "pending",
                       user |-> None, expires |-> now + DeviceTTL]
          IN  /\ deviceCodes' = [deviceCodes EXCEPT ![d] = info]
              /\ begun' = [begun EXCEPT ![d] = info]
              /\ Enter(h, d, [Idle EXCEPT !.pc = "storeUserCode", !.info = info])
    /\ UNCHANGED <<now, userCodes, logins, opened, approved, grants, redeemed>>

StoreUserCode(h) ==
    /\ At(h, "storeUserCode")
    /\ userCodes' = [userCodes EXCEPT ![handler[h].info.userCode] =
                        [device |-> handler[h].device, expires |-> now + DeviceTTL]]
    /\ Leave(h)
    /\ UNCHANGED <<now, deviceCodes, logins, begun, opened, approved, grants, redeemed>>

-----------------------------------------------------------------------------
(* PostActivatePage: from the user code to a login session. *)
EnterUserCode(h, code) ==
    /\ Live(userCodes[code])
    /\ Enter(h, userCodes[code].device, [Idle EXCEPT !.pc = "activate"])
    /\ UNCHANGED <<now, deviceCodes, userCodes, logins, begun, opened, approved, grants, redeemed>>

\* Mutant: the application is looked up in the virtual server of the device code.
CheckPending_OtherPage(h, v) ==
    LET info == deviceCodes[handler[h].device] IN
    /\ At(h, "activate")
    /\ Live(info) /\ info.status = "pending" /\ <<info.vs, info.client>> \in Applications
    /\ Go(h, [handler[h] EXCEPT !.pc = "openLogin", !.vs = v])
    /\ UNCHANGED <<now, deviceCodes, userCodes, logins, begun, opened, approved, grants, redeemed>>

\* The application is looked up by name in the virtual server v of the page; whether
\* the device flow is enabled for it is asked in BeginDeviceFlow only.
CheckPending(h, v) ==
    LET info == deviceCodes[handler[h].device] IN
    /\ At(h, "activate")
    /\ Live(info) /\ info.status = "pending" /\ <<v, info.client>> \in Applications
    /\ Go(h, [handler[h] EXCEPT !.pc = "openLogin", !.vs = v])
    /\ UNCHANGED <<now, deviceCodes, userCodes, logins, begun, opened, approved, grants, redeemed>>

OpenLogin(h) ==
    /\ At(h, "openLogin")
    /\ \E l \in Login \ opened :
          /\ logins' = [logins EXCEPT ![l] =
                [vs |-> handler[h].vs, device |-> handler[h].device, user |-> None,
                 expires |-> now + LoginTTL]]
          /\ opened' = opened \union {l}
    /\ Leave(h)
    /\ UNCHANGED <<now, deviceCodes, userCodes, begun, approved, grants, redeemed>>

\* The steps of the login up to "finish": a user of the login's virtual server.
SignIn(l, u) ==
    /\ Live(logins[l]) /\ logins[l].user = None /\ Home[u] = logins[l].vs
    /\ logins' = [logins EXCEPT ![l].user = u, ![l].expires = now + LoginTTL]
    /\ UNCHANGED <<now, deviceCodes, userCodes, handler, shared, begun, opened, approved, grants, redeemed>>

-----------------------------------------------------------------------------
(* FinishLogin, for a login with a device code. *)
ReadLogin(h, l) ==
    /\ Live(logins[l]) /\ logins[l].user # None
    /\ Enter(h, logins[l].device,
             [Idle EXCEPT !.pc = "deleteLogin", !.login = l, !.user = logins[l].user])
    /\ UNCHANGED <<now, deviceCodes, userCodes, logins, begun, opened, approved, grants, redeemed>>

DeleteLogin(h) ==
    /\ At(h, "deleteLogin")
    /\ logins' = [logins EXCEPT ![handler[h].login] = None]
    /\ Go(h, [handler[h] EXCEPT !.pc = "readDevice"])
    /\ UNCHANGED <<now, deviceCodes, userCodes, begun, opened, approved, grants, redeemed>>

\* Mutant: a device code that is gone is written anew from what it was issued for.
ReadDevice_Blind(h) ==
    /\ At(h, "readDevice")
    /\ Go(h, [handler[h] EXCEPT !.pc = "authorize", !.info = begun[handler[h].device]])
    /\ UNCHANGED <<now, deviceCodes, userCodes, logins, begun, opened, approved, grants, redeemed>>

ReadDevice(h) ==
    /\ At(h, "readDevice") /\ Live(deviceCodes[handler[h].device])
    /\ Go(h, [handler[h] EXCEPT !.pc = "authorize", !.info = deviceCodes[handler[h].device]])
    /\ UNCHANGED <<now, deviceCodes, userCodes, logins, begun, opened, approved, grants, redeemed>>

\* UpdateToken sets the value whatever the store holds by now.
AuthorizeDevice(h) ==
    LET r == handler[h] IN
    /\ At(h, "authorize")
    /\ deviceCodes' = [deviceCodes EXCEPT ![r.device] =
          [r.info EXCEPT !.status = "authorized", !.user = r.user, !.expires = now + DeviceTTL]]
    /\ approved' = approved \union {<<r.device, r.user>>}
    /\ Go(h, [r EXCEPT !.pc = "dropUserCode"])
    /\ UNCHANGED <<now, userCodes, logins, begun, opened, grants, redeemed>>

DropUserCode(h) ==
    /\ At(h, "dropUserCode")
    /\ userCodes' = [userCodes EXCEPT ![handler[h].info.userCode] = None]
    /\ Leave(h)
    /\ UNCHANGED <<now, deviceCodes, logins, begun, opened, approved, grants, redeemed>>

-----------------------------------------------------------------------------
(* handleDeviceCodeGrant. *)

\* Mutant: the client that polls is not compared with the one of the device code.
Poll_AnyClient(h, d, c) ==
    LET info == deviceCodes[d] IN
    /\ Live(info) /\ info.status = "authorized"
    /\ <<info.vs, c>> \in Applications
    /\ Enter(h, d, [Idle EXCEPT !.pc = "redeem", !.info = [info EXCEPT !.client = c]])
    /\ UNCHANGED <<now, deviceCodes, userCodes, logins, begun, opened, approved, grants, redeemed>>

\* The device polls as client c: only an authorized code goes on, and only for
\* the client it was issued to.
Poll(h, d, c) ==
    LET info == deviceCodes[d] IN
    /\ Live(info) /\ info.status = "authorized"
    /\ <<info.vs, c>> \in Applications /\ info.client = c
    /\ Enter(h, d, [Idle EXCEPT !.pc = "redeem", !.info = info])
    /\ UNCHANGED <<now, deviceCodes, userCodes, logins, begun, opened, approved, grants, redeemed>>

DeleteDeviceCode(h) ==
    /\ At(h, "redeem")
    /\ deviceCodes' = [deviceCodes EXCEPT ![handler[h].device] = None]
    /\ Go(h, [handler[h] EXCEPT !.pc = "issue"])
    /\ UNCHANGED <<now, userCodes, logins, begun, opened, approved, grants, redeemed>>

IssueDeviceTokens(h) ==
    LET r == handler[h] IN
    /\ At(h, "issue")
    /\ grants' = grants \union {[device |-> r.device, vs |-> r.info.vs,
                                 client |-> r.info.client, user |-> r.info.user]}
    /\ redeemed' = [redeemed EXCEPT ![r.device] = @ + 1]
    /\ Leave(h)
    /\ UNCHANGED <<now, deviceCodes, userCodes, logins, begun, opened, approved>>

-----------------------------------------------------------------------------
\* An error or the end of the instance: what was written stays.
Abandon(h) ==
    /\ ~At(h, "idle") /\ Leave(h)
    /\ UNCHANGED <<now, deviceCodes, userCodes, logins, begun, opened, approved, grants, redeemed>>

Tick ==
    /\ now < MaxTime /\ now' = now + 1
    /\ UNCHANGED <<deviceCodes, userCodes, logins, handler, shared, begun, opened, approved, grants, redeemed>>

HandlerStep(h) ==
    \/ \E v \in VirtualServer :
          \/ CheckPending(h, v)
          \/ \E c \in ClientName, code \in UserCode : BeginDeviceFlow(h, v, c, code)
    \/ StoreUserCode(h)
    \/ \E code \in UserCode : EnterUserCode(h, code)
    \/ \E l \in Login : ReadLogin(h, l)
    \/ OpenLogin(h) \/ DeleteLogin(h) \/ ReadDevice(h) \/ AuthorizeDevice(h) \/ DropUserCode(h)
    \/ \E d \in Device, c \in ClientName : Poll(h, d, c)
    \/ DeleteDeviceCode(h) \/ IssueDeviceTokens(h) \/ Abandon(h)

Next ==
    \/ Tick
    \/ \E l \in Login, u \in User : SignIn(l, u)
    \/ \E h \in Handler : HandlerStep(h)

Spec == Init /\ [][Next]_vars

-----------------------------------------------------------------------------
TypeOK ==
    /\ now \in Nat
    /\ deviceCodes \in [Device -> DeviceCodeInfo \union {None}]
    /\ begun \in [Device -> DeviceCodeInfo \union {None}]
    /\ userCodes \in [UserCode -> UserCodeInfo \union {None}]
    /\ logins \in [Login -> LoginInfo \union {None}]
    /\ opened \subseteq Login /\ shared \subseteq Device /\ approved \subseteq Device \X User
    /\ grants \subseteq [device : Device, vs : VirtualServer, client : ClientName, user : User]
    /\ redeemed \in [Device -> Nat]
    /\ handler \in [Handler -> InProgress]

\* Tokens go to the client, in the virtual server, that began the flow, and for a
\* user who finished a login for that very device code: neither a colliding user
\* code nor a stale write of FinishLogin crosses two flows.
GrantAuthorized ==
    \A g \in grants :
        /\ begun[g.device].vs = g.vs /\ begun[g.device].client = g.client
        /\ <<g.device, g.user>> \in approved

\* "rejects double use of device_code" (tests/e2e/deviceflow_test.go:123): a
\* device code is exchanged for tokens twice only if two handlers overlapped on
\* it; several logins for it, failures and expiry do not suffice.
RedeemedOnce == \A d \in Device \ shared : redeemed[d] <= 1

\* A virtual server issues tokens for a user of another one only if that one has an
\* application of the same name, device flow enabled or not: PostActivatePage looks
\* the name in the device code up in the virtual server of its own URL, and the user
\* signs in there.
ForeignUserByName ==
    \A g \in grants : Home[g.user] # g.vs => <<Home[g.user], g.client>> \in Applications
=============================================================================
