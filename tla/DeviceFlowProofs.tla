-------------------------- MODULE DeviceFlowProofs ---------------------------
(***************************************************************************)
(* Theorems about DeviceFlow, for any number of virtual servers, clients,  *)
(* devices, logins and overlapping requests, any lifetime of the codes and *)
(* any collision of user codes.                                            *)
(***************************************************************************)
EXTENDS DeviceFlow, TLAPS

USE DeviceAssumption

-----------------------------------------------------------------------------
(* The inductive invariant.  b stands for what a device code was issued    *)
(* for, A for the finished logins.                                         *)

\* What every copy of a device code says, in the store or read by a handler.
Genuine(b, A, d, info) ==
    /\ info \in DeviceCodeInfo /\ b # None
    /\ info.vs = b.vs /\ info.client = b.client
    /\ info.status = "authorized" => info.user \in User /\ <<d, info.user>> \in A

\* The virtual server v has an application of the name the code was issued to.
Named(b, v) == b # None /\ <<v, b.client>> \in Applications

CodeInv(d) ==
    /\ deviceCodes[d] # None => Genuine(begun[d], approved, d, deviceCodes[d])
    /\ d \notin shared => redeemed[d] <= 1 /\ (deviceCodes[d] # None => redeemed[d] = 0)
    /\ begun[d] = None => redeemed[d] = 0

LoginInv(l) ==
    logins[l] # None =>
        /\ Named(begun[logins[l].device], logins[l].vs)
        /\ logins[l].user # None => Home[logins[l].user] = logins[l].vs

UserCodeInv == \A c \in UserCode : userCodes[c] # None => begun[userCodes[c].device] # None

HandlerInv(h) ==
    LET r == handler[h]
        d == r.device
    IN
    r.pc # "idle" =>
    /\ d \in Device /\ begun[d] # None
    /\ r.pc \in {"storeUserCode", "authorize", "dropUserCode", "redeem", "issue"} =>
          Genuine(begun[d], approved, d, r.info)
    /\ r.pc = "openLogin" => r.vs \in VirtualServer /\ Named(begun[d], r.vs)
    /\ r.pc \in {"deleteLogin", "readDevice", "authorize"} =>
          r.user \in User /\ Named(begun[d], Home[r.user])
    /\ r.pc \in {"redeem", "issue"} => r.info.status = "authorized"
    /\ d \notin shared /\ r.pc \in {"authorize", "redeem", "issue"} => redeemed[d] = 0
    /\ d \notin shared /\ r.pc = "issue" => deviceCodes[d] = None

\* Only one handler is busy with a device code that is not shared.
Solo == \A g, h \in Handler :
            ~At(g, "idle") /\ handler[g].device = handler[h].device /\ handler[g].device \notin shared => g = h

Approvals == \A d \in Device, u \in User : <<d, u>> \in approved => Named(begun[d], Home[u])

Granted(g) ==
    /\ begun[g.device] # None /\ begun[g.device].vs = g.vs /\ begun[g.device].client = g.client
    /\ <<g.device, g.user>> \in approved

DeviceInv ==
    /\ Solo /\ UserCodeInv /\ Approvals
    /\ \A d \in Device : CodeInv(d)
    /\ \A l \in Login : LoginInv(l)
    /\ \A h \in Handler : HandlerInv(h)
    /\ \A g \in grants : Granted(g)

-----------------------------------------------------------------------------
(* What every step leaves true.                                            *)

Grows ==
    /\ \A d \in Device : begun[d] # None => begun'[d] = begun[d]
    /\ approved \subseteq approved' /\ shared \subseteq shared'

LEMMA GenuineGrows ==
  ASSUME NEW b, NEW A, NEW B, A \subseteq B, NEW d, NEW info, Genuine(b, A, d, info)
  PROVE  Genuine(b, B, d, info)
  BY DEF Genuine

\* A device code that a step leaves alone, or takes out of the store.
Untouched(d) ==
    /\ deviceCodes'[d] = deviceCodes[d] \/ deviceCodes'[d] = None
    /\ redeemed'[d] = redeemed[d] /\ begun'[d] = begun[d]

LEMMA CodeKept ==
  ASSUME TypeOK, Grows, NEW d \in Device, CodeInv(d), Untouched(d)
  PROVE  CodeInv(d)'
<1>1. deviceCodes'[d] # None => Genuine(begun'[d], approved', d, deviceCodes'[d])
  BY GenuineGrows DEF CodeInv, Untouched, Grows
<1>2. QED
  BY <1>1 DEF CodeInv, Untouched, Grows

\* A handler that a step does not move, and whose device code it leaves alone unless
\* two handlers were busy with it.
LEMMA HandlerKept ==
  ASSUME TypeOK, Grows, NEW h \in Handler, HandlerInv(h), handler'[h] = handler[h],
         handler[h].pc # "idle" /\ handler[h].device \notin shared' => Untouched(handler[h].device)
  PROVE  HandlerInv(h)'
<1> SUFFICES ASSUME handler[h].pc # "idle" PROVE HandlerInv(h)'
  BY DEF HandlerInv
<1>1. PICK d \in Device : d = handler[h].device /\ begun[d] # None /\ begun'[d] = begun[d]
  BY DEF HandlerInv, Grows
<1>2. Genuine(begun[d], approved, d, handler[h].info) => Genuine(begun'[d], approved', d, handler[h].info)
  BY <1>1, GenuineGrows DEF Grows
<1>3. d \notin shared' => /\ d \notin shared /\ redeemed'[d] = redeemed[d]
                          /\ deviceCodes'[d] = deviceCodes[d] \/ deviceCodes'[d] = None
  BY <1>1 DEF Grows, Untouched
<1>4. QED
  BY <1>1, <1>2, <1>3 DEF HandlerInv

LEMMA LoginKept ==
  ASSUME TypeOK, Grows, NEW l \in Login, LoginInv(l), logins'[l] = logins[l] \/ logins'[l] = None
  PROVE  LoginInv(l)'
<1> SUFFICES ASSUME logins'[l] # None, logins'[l] = logins[l] PROVE LoginInv(l)'
  BY DEF LoginInv
<1>1. logins[l].device \in Device
  BY DEF TypeOK, LoginInfo
<1>2. begun'[logins[l].device] = begun[logins[l].device]
  BY <1>1 DEF LoginInv, Named, Grows
<1>3. QED
  BY <1>2 DEF LoginInv

LEMMA Rest ==
  ASSUME TypeOK, DeviceInv, Grows
  PROVE  /\ logins' = logins => \A l \in Login : LoginInv(l)'
         /\ (\A c \in UserCode : userCodes'[c] = userCodes[c] \/ userCodes'[c] = None) => UserCodeInv'
         /\ approved' = approved => Approvals'
         /\ grants' = grants => \A g \in grants' : Granted(g)'
<1>1. logins' = logins => \A l \in Login : LoginInv(l)'
  BY LoginKept DEF DeviceInv
<1>2. ASSUME \A c \in UserCode : userCodes'[c] = userCodes[c] \/ userCodes'[c] = None PROVE UserCodeInv'
  BY <1>2 DEF DeviceInv, UserCodeInv, Grows, TypeOK, UserCodeInfo
<1>3. approved' = approved => Approvals'
  BY DEF DeviceInv, Approvals, Named, Grows
<1>4. ASSUME grants' = grants, NEW g \in grants PROVE Granted(g)'
  <2>1. g.device \in Device /\ Granted(g)
    BY DEF TypeOK, DeviceInv
  <2>2. QED
    BY <2>1 DEF Granted, Grows
<1>5. QED
  BY <1>1, <1>2, <1>3, <1>4

-----------------------------------------------------------------------------
(* A step of one handler, about one device code.                           *)

Only(h) == \A g \in Handler \ {h} : handler'[g] = handler[g]
Apart(d) == \A e \in Device \ {d} : Untouched(e)
Alone(h, d) == \A g \in Handler \ {h} : ~At(g, "idle") /\ handler[g].device = d => d \in shared'

LEMMA OneDevice ==
  ASSUME TypeOK, DeviceInv, Grows, NEW h \in Handler, NEW d \in Device,
         Only(h), Apart(d), Alone(h, d), Solo', HandlerInv(h)', CodeInv(d)',
         UserCodeInv', Approvals', \A l \in Login : LoginInv(l)', \A g \in grants' : Granted(g)'
  PROVE  DeviceInv'
<1>1. ASSUME NEW g \in Handler \ {h} PROVE HandlerInv(g)'
  <2>1. HandlerInv(g) /\ handler'[g] = handler[g]
    BY DEF DeviceInv, Only
  <2>2. ASSUME handler[g].pc # "idle", handler[g].device \notin shared'
        PROVE  Untouched(handler[g].device)
    <3>1. handler[g].device \in Device \ {d}
      BY <2>1, <2>2 DEF HandlerInv, Alone, At
    <3>2. QED
      BY <3>1 DEF Apart
  <2>3. QED
    BY <2>1, <2>2, HandlerKept
<1>2. ASSUME NEW e \in Device \ {d} PROVE CodeInv(e)'
  BY CodeKept DEF DeviceInv, Apart
<1>3. QED
  BY <1>1, <1>2 DEF DeviceInv

\* A handler in progress goes on with its device code, or ends.
LEMMA Busy ==
  ASSUME TypeOK, DeviceInv, NEW h \in Handler, handler[h].pc # "idle", shared \subseteq shared',
         Only(h), handler'[h].device = handler[h].device \/ handler'[h] = Idle
  PROVE  handler[h].device \in Device /\ Alone(h, handler[h].device) /\ Solo'
<1>1. handler[h].device \in Device /\ Solo
  BY DEF DeviceInv, HandlerInv
<1>2. Alone(h, handler[h].device)
  BY <1>1 DEF Solo, Alone, At
<1>3. Solo'
  <2> SUFFICES ASSUME NEW f \in Handler, NEW g \in Handler,
                      handler'[f].pc # "idle", handler'[f].device = handler'[g].device,
                      handler'[f].device \notin shared'
               PROVE  f = g
    BY DEF Solo, At
  <2>1. CASE f = h
    <3>1. handler'[h].device = handler[h].device
      BY <2>1 DEF Idle
    <3>2. ASSUME g # h PROVE handler'[g] = handler[g]
      BY <3>2 DEF Only
    <3>3. QED
      BY <1>1, <2>1, <3>1, <3>2 DEF Solo, At
  <2>2. CASE f # h
    <3>1. handler'[f] = handler[f]
      BY <2>2 DEF Only
    <3>2. CASE g # h
      BY <1>1, <3>1, <3>2 DEF Solo, At, Only
    <3>3. CASE g = h
      <4>1. handler[f].device # None
        BY <3>1 DEF DeviceInv, HandlerInv
      <4>2. handler'[h].device = handler[h].device
        BY <3>1, <3>3, <4>1 DEF Idle
      <4>3. QED
        BY <1>1, <3>1, <3>3, <4>2 DEF Solo, At
    <3>4. QED
      BY <3>2, <3>3
  <2>3. QED
    BY <2>1, <2>2
<1>4. QED
  BY <1>1, <1>2, <1>3

\* The handler moves on with the fields of r.
LEMMA Goes ==
  ASSUME TypeOK, NEW h \in Handler, NEW r \in InProgress, Go(h, r)
  PROVE  handler' \in [Handler -> InProgress] /\ handler'[h] = r /\ Only(h) /\ shared' = shared
  BY DEF TypeOK, Only, Go

\* Only the handler moves.
LEMMA Moves ==
  ASSUME TypeOK, DeviceInv, NEW h \in Handler, handler[h].pc # "idle",
         NEW r \in InProgress, Go(h, r), r.device = handler[h].device \/ r = Idle, HandlerInv(h)',
         UNCHANGED <<now, deviceCodes, userCodes, logins, begun, opened, approved, grants, redeemed>>
  PROVE  TypeOK' /\ DeviceInv'
<1>1. handler' \in [Handler -> InProgress] /\ handler'[h] = r /\ Only(h) /\ shared' = shared
  BY Goes
<1>2. Grows /\ \A d \in Device : Untouched(d)
  BY <1>1 DEF Grows, Untouched
<1>3. PICK d \in Device : d = handler[h].device /\ Alone(h, d) /\ Solo'
  BY <1>1, Busy
<1>4. Apart(d) /\ CodeInv(d)'
  BY <1>2, CodeKept DEF Apart, DeviceInv
<1>5. DeviceInv'
  BY <1>1, <1>2, <1>3, <1>4, Rest, OneDevice
<1>6. QED
  BY <1>1, <1>5 DEF TypeOK

\* A request takes up a device code that was issued.
LEMMA Enters ==
  ASSUME TypeOK, DeviceInv, Grows, NEW h \in Handler, NEW d \in Device, NEW r, Enter(h, d, r),
         [r EXCEPT !.device = d] \in InProgress, [r EXCEPT !.device = d].device = d
  PROVE  /\ handler' \in [Handler -> InProgress] /\ handler'[h] = [r EXCEPT !.device = d]
         /\ Only(h) /\ Alone(h, d) /\ Solo' /\ shared' \subseteq Device
<1> DEFINE new == [r EXCEPT !.device = d]
<1>1. /\ handler' = [handler EXCEPT ![h] = new]
      /\ shared' = IF \E g \in Handler : handler[g].device = d THEN shared \union {d} ELSE shared
  BY DEF Enter
<1>2. new \in InProgress /\ new.device = d
  OBVIOUS
<1> HIDE DEF new
<1>3. handler' \in [Handler -> InProgress] /\ handler'[h] = new /\ Only(h)
  BY <1>1, <1>2 DEF TypeOK, Only
<1>4. Alone(h, d) /\ shared' \subseteq Device /\ shared \subseteq shared'
  BY <1>1 DEF Alone, TypeOK
<1>5. Solo'
  BY <1>1, <1>2, <1>3, <1>4 DEF Solo, DeviceInv, At, Only, Alone
<1>6. QED
  BY <1>3, <1>4, <1>5 DEF new

LEMMA Begins ==
  ASSUME TypeOK, DeviceInv, NEW h \in Handler, NEW d \in Device, NEW r, Enter(h, d, r),
         [r EXCEPT !.device = d] \in InProgress, [r EXCEPT !.device = d].device = d, HandlerInv(h)',
         UNCHANGED <<now, deviceCodes, userCodes, logins, begun, opened, approved, grants, redeemed>>
  PROVE  TypeOK' /\ DeviceInv'
<1>1. Grows /\ \A e \in Device : Untouched(e)
  BY DEF Grows, Untouched, Enter
<1>2. /\ handler' \in [Handler -> InProgress] /\ Only(h) /\ Alone(h, d) /\ Solo'
      /\ shared' \subseteq Device
  BY <1>1, Enters
<1>3. Apart(d) /\ CodeInv(d)'
  BY <1>1, CodeKept DEF Apart, DeviceInv
<1>4. DeviceInv'
  BY <1>1, <1>2, <1>3, Rest, OneDevice
<1>5. QED
  BY <1>2, <1>4 DEF TypeOK

-----------------------------------------------------------------------------
(* Only the handler moves on.                                              *)

LEMMA IdleType == Idle \in InProgress /\ Idle.pc = "idle" /\ Idle.device = None
  BY DEF Idle, InProgress

LEMMA Ends ==
  ASSUME TypeOK, NEW h \in Handler, Leave(h)
  PROVE  /\ handler' \in [Handler -> InProgress] /\ handler'[h] = Idle /\ Only(h)
         /\ shared' = shared /\ HandlerInv(h)'
<1>1. handler' \in [Handler -> InProgress] /\ handler'[h] = Idle /\ Only(h) /\ shared' = shared
  BY IdleType, Goes DEF Leave
<1>2. QED
  BY <1>1, IdleType DEF HandlerInv

LEMMA AbandonKeeps ==
  ASSUME TypeOK, DeviceInv, NEW h \in Handler, Abandon(h)
  PROVE  TypeOK' /\ DeviceInv'
  BY Ends, Moves, IdleType DEF Abandon, At, Leave

LEMMA EnterUserCodeKeeps ==
  ASSUME TypeOK, DeviceInv, NEW h \in Handler, NEW code \in UserCode, EnterUserCode(h, code)
  PROVE  TypeOK' /\ DeviceInv'
<1>1. PICK d \in Device : d = userCodes[code].device /\ begun[d] # None
  BY DEF EnterUserCode, Live, TypeOK, UserCodeInfo, DeviceInv, UserCodeInv
<1> DEFINE r == [Idle EXCEPT !.pc = "activate"]
           new == [r EXCEPT !.device = d]
<1>2. new \in InProgress /\ new.device = d /\ new.pc = "activate"
  BY DEF InProgress, Idle
<1>3. Enter(h, d, r)
  BY <1>1 DEF EnterUserCode
<1>4. handler'[h] = new
  BY <1>3 DEF Enter, TypeOK
<1> HIDE DEF r
<1>5. HandlerInv(h)'
  <2> HIDE DEF new
  <2>1. QED
    BY <1>1, <1>2, <1>4 DEF HandlerInv, EnterUserCode
<1>6. QED
  BY <1>2, <1>3, <1>5, Begins DEF EnterUserCode

LEMMA CheckPendingKeeps ==
  ASSUME TypeOK, DeviceInv, NEW h \in Handler, NEW v \in VirtualServer, CheckPending(h, v)
  PROVE  TypeOK' /\ DeviceInv'
<1>1. PICK d \in Device : /\ d = handler[h].device /\ handler[h].pc = "activate" /\ begun[d] # None
                          /\ Genuine(begun[d], approved, d, deviceCodes[d])
                          /\ <<v, deviceCodes[d].client>> \in Applications
  BY DEF CheckPending, At, Live, DeviceInv, HandlerInv, CodeInv
<1> DEFINE r == [handler[h] EXCEPT !.pc = "openLogin", !.vs = v]
<1>2. handler[h] \in InProgress
  BY DEF TypeOK
<1>3. r \in InProgress /\ r.pc = "openLogin" /\ r.vs = v /\ r.device = d
  BY <1>1, <1>2 DEF InProgress
<1>4. Go(h, r)
  BY DEF CheckPending
<1> HIDE DEF r
<1>5. Named(begun[d], v)
  BY <1>1 DEF Named, Genuine
<1>6. HandlerInv(h)'
  BY <1>1, <1>3, <1>4, <1>5, Goes DEF HandlerInv, CheckPending
<1>7. QED
  BY <1>1, <1>3, <1>4, <1>6, Moves DEF CheckPending

LEMMA ReadLoginKeeps ==
  ASSUME TypeOK, DeviceInv, NEW h \in Handler, NEW l \in Login, ReadLogin(h, l)
  PROVE  TypeOK' /\ DeviceInv'
<1>1. PICK d \in Device, u \in User :
        d = logins[l].device /\ u = logins[l].user /\ begun[d] # None /\ Named(begun[d], Home[u])
  BY DEF ReadLogin, Live, TypeOK, LoginInfo, DeviceInv, LoginInv, Named
<1> DEFINE r == [Idle EXCEPT !.pc = "deleteLogin", !.login = l, !.user = u]
           new == [r EXCEPT !.device = d]
<1>2. new \in InProgress /\ new.device = d /\ new.pc = "deleteLogin" /\ new.user = u
  BY DEF InProgress, Idle
<1>3. Enter(h, d, r)
  BY <1>1 DEF ReadLogin
<1>4. handler'[h] = new
  BY <1>3 DEF Enter, TypeOK
<1> HIDE DEF r
<1>5. HandlerInv(h)'
  <2> HIDE DEF new
  <2>1. QED
    BY <1>1, <1>2, <1>4 DEF HandlerInv, ReadLogin
<1>6. QED
  BY <1>2, <1>3, <1>5, Begins DEF ReadLogin

LEMMA ReadDeviceKeeps ==
  ASSUME TypeOK, DeviceInv, NEW h \in Handler, ReadDevice(h)
  PROVE  TypeOK' /\ DeviceInv'
<1>1. PICK d \in Device, info \in DeviceCodeInfo :
        /\ d = handler[h].device /\ handler[h].pc = "readDevice" /\ begun[d] # None
        /\ info = deviceCodes[d] /\ Genuine(begun[d], approved, d, info)
        /\ handler[h].user \in User /\ Named(begun[d], Home[handler[h].user])
        /\ d \notin shared => redeemed[d] = 0
  BY DEF ReadDevice, At, Live, DeviceInv, HandlerInv, CodeInv, Genuine
<1> DEFINE r == [handler[h] EXCEPT !.pc = "authorize", !.info = info]
<1>2. handler[h] \in InProgress
  BY DEF TypeOK
<1>3. r \in InProgress /\ r.pc = "authorize" /\ r.info = info /\ r.device = d /\ r.user = handler[h].user
  BY <1>1, <1>2 DEF InProgress
<1>4. Go(h, r)
  BY <1>1 DEF ReadDevice
<1> HIDE DEF r
<1>5. HandlerInv(h)'
  BY <1>1, <1>3, <1>4, Goes DEF HandlerInv, ReadDevice
<1>6. QED
  BY <1>1, <1>3, <1>4, <1>5, Moves DEF ReadDevice

LEMMA PollKeeps ==
  ASSUME TypeOK, DeviceInv, NEW h \in Handler, NEW d \in Device, NEW c \in ClientName, Poll(h, d, c)
  PROVE  TypeOK' /\ DeviceInv'
<1>1. PICK info \in DeviceCodeInfo :
        /\ info = deviceCodes[d] /\ Genuine(begun[d], approved, d, info) /\ begun[d] # None
        /\ info.status = "authorized" /\ (d \notin shared => redeemed[d] = 0)
  BY DEF Poll, Live, DeviceInv, CodeInv, Genuine
<1> DEFINE r == [Idle EXCEPT !.pc = "redeem", !.info = info]
           new == [r EXCEPT !.device = d]
<1>2. new \in InProgress /\ new.device = d /\ new.pc = "redeem" /\ new.info = info
  BY DEF InProgress, Idle
<1>3. Enter(h, d, r)
  BY <1>1 DEF Poll
<1>4. handler'[h] = new /\ shared \subseteq shared'
  BY <1>3 DEF Enter, TypeOK
<1> HIDE DEF r
<1>5. HandlerInv(h)'
  <2> HIDE DEF new
  <2>1. QED
    BY <1>1, <1>2, <1>4 DEF HandlerInv, Poll
<1>6. QED
  BY <1>2, <1>3, <1>5, Begins DEF Poll

-----------------------------------------------------------------------------
(* A handler changes the store.                                            *)

LEMMA BeginDeviceFlowKeeps ==
  ASSUME TypeOK, DeviceInv, NEW h \in Handler, NEW v \in VirtualServer, NEW c \in ClientName,
         NEW code \in UserCode, BeginDeviceFlow(h, v, c, code)
  PROVE  TypeOK' /\ DeviceInv'
<1> DEFINE info == [vs |-> v, client |-> c, userCode |-> code, status |-> "pending",
                    user |-> None, expires |-> now + DeviceTTL]
           r == [Idle EXCEPT !.pc = "storeUserCode", !.info = info]
<1>1. PICK d \in Device :
        /\ begun[d] = None
        /\ deviceCodes' = [deviceCodes EXCEPT ![d] = info]
        /\ begun' = [begun EXCEPT ![d] = info]
        /\ Enter(h, d, r)
  BY DEF BeginDeviceFlow
<1>2. /\ info \in DeviceCodeInfo /\ info.vs = v /\ info.client = c /\ info.status = "pending"
  BY DEF DeviceCodeInfo, TypeOK
<1> HIDE DEF info
<1> DEFINE new == [r EXCEPT !.device = d]
<1>3. new \in InProgress /\ new.device = d /\ new.pc = "storeUserCode" /\ new.info = info
  BY <1>2 DEF InProgress, Idle
<1> HIDE DEF r
<1>4. Grows /\ Apart(d)
  BY <1>1 DEF Grows, Apart, Untouched, Enter, BeginDeviceFlow, TypeOK
<1>5. /\ handler' \in [Handler -> InProgress] /\ Only(h) /\ Alone(h, d) /\ Solo'
      /\ shared' \subseteq Device /\ handler'[h] = new
  BY <1>1, <1>3, <1>4, Enters
<1> HIDE DEF new
<1>6. begun'[d] = info /\ deviceCodes'[d] = info /\ redeemed'[d] = 0
  BY <1>1 DEF TypeOK, DeviceInv, CodeInv, BeginDeviceFlow
<1>7. info # None /\ Genuine(info, approved', d, info)
  BY <1>2 DEF Genuine
<1>8. CodeInv(d)'
  BY <1>6, <1>7 DEF CodeInv
<1>9. HandlerInv(h)'
  BY <1>3, <1>5, <1>6, <1>7 DEF HandlerInv
<1>10. DeviceInv'
  BY <1>4, <1>5, <1>8, <1>9, Rest, OneDevice DEF BeginDeviceFlow
<1>11. /\ deviceCodes' \in [Device -> DeviceCodeInfo \union {None}]
       /\ begun' \in [Device -> DeviceCodeInfo \union {None}]
  BY <1>1, <1>2 DEF TypeOK
<1>12. QED
  BY <1>5, <1>10, <1>11 DEF TypeOK, BeginDeviceFlow

\* What a handler knows of its device code.
LEMMA Knows ==
  ASSUME TypeOK, DeviceInv, NEW h \in Handler, handler[h].pc # "idle"
  PROVE  \E d \in Device :
            /\ d = handler[h].device /\ begun[d] # None
            /\ handler[h].pc \in {"storeUserCode", "authorize", "dropUserCode", "redeem", "issue"} =>
                  handler[h].info \in DeviceCodeInfo /\ Genuine(begun[d], approved, d, handler[h].info)
            /\ handler[h].pc = "openLogin" =>
                  handler[h].vs \in VirtualServer /\ Named(begun[d], handler[h].vs)
            /\ handler[h].pc \in {"deleteLogin", "readDevice", "authorize"} =>
                  handler[h].user \in User /\ Named(begun[d], Home[handler[h].user])
            /\ handler[h].pc \in {"redeem", "issue"} => handler[h].info.status = "authorized"
            /\ d \notin shared /\ handler[h].pc \in {"authorize", "redeem", "issue"} => redeemed[d] = 0
            /\ d \notin shared /\ handler[h].pc = "issue" => deviceCodes[d] = None
<1>1. HandlerInv(h) /\ handler[h].device \in Device
  BY DEF DeviceInv, HandlerInv
<1>2. PICK d \in Device : d = handler[h].device
  BY <1>1
<1>3. Genuine(begun[d], approved, d, handler[h].info) => handler[h].info \in DeviceCodeInfo
  BY DEF Genuine
<1>4. QED
  BY <1>1, <1>2, <1>3 DEF HandlerInv

\* A user code, a login or an approval is written and the handler goes on or ends: no
\* device code is touched.
LEMMA Beside ==
  ASSUME TypeOK, DeviceInv, NEW h \in Handler, handler[h].pc # "idle",
         NEW r \in InProgress, Go(h, r), r.device = handler[h].device \/ r = Idle, HandlerInv(h)',
         UNCHANGED <<deviceCodes, begun, approved, grants, redeemed>>,
         UserCodeInv', \A l \in Login : LoginInv(l)'
  PROVE  DeviceInv' /\ handler' \in [Handler -> InProgress] /\ shared' = shared
<1>1. handler' \in [Handler -> InProgress] /\ handler'[h] = r /\ Only(h) /\ shared' = shared
  BY Goes
<1>2. Grows /\ \A d \in Device : Untouched(d)
  BY <1>1 DEF Grows, Untouched
<1>3. PICK d \in Device : d = handler[h].device /\ Alone(h, d) /\ Solo'
  BY <1>1, Busy
<1>4. Apart(d) /\ CodeInv(d)'
  BY <1>2, CodeKept DEF Apart, DeviceInv
<1>5. QED
  BY <1>1, <1>2, <1>3, <1>4, Rest, OneDevice

LEMMA StoreUserCodeKeeps ==
  ASSUME TypeOK, DeviceInv, NEW h \in Handler, StoreUserCode(h)
  PROVE  TypeOK' /\ DeviceInv'
<1>1. handler[h].pc = "storeUserCode" /\ Go(h, Idle) /\ HandlerInv(h)'
  BY Ends DEF StoreUserCode, At, Leave
<1>2. PICK d \in Device : d = handler[h].device /\ begun[d] # None
  BY <1>1, Knows
<1> DEFINE entry == [device |-> d, expires |-> now + DeviceTTL]
<1>3. entry \in UserCodeInfo /\ entry.device = d
  BY DEF TypeOK, UserCodeInfo
<1>4. userCodes' = [userCodes EXCEPT ![handler[h].info.userCode] = entry] /\ begun' = begun
  BY <1>2 DEF StoreUserCode
<1> HIDE DEF entry
<1>5. \A c \in UserCode : userCodes'[c] = userCodes[c] \/ userCodes'[c] = entry
  BY <1>4 DEF TypeOK
<1>6. UserCodeInv'
  BY <1>2, <1>3, <1>4, <1>5 DEF UserCodeInv, DeviceInv
<1>7. Grows
  BY <1>1 DEF Grows, Go, StoreUserCode
<1>8. \A l \in Login : LoginInv(l)'
  BY <1>7, Rest DEF StoreUserCode
<1>9. DeviceInv' /\ handler' \in [Handler -> InProgress] /\ shared' = shared
  BY <1>1, <1>6, <1>8, IdleType, Beside DEF StoreUserCode
<1>10. userCodes' \in [UserCode -> UserCodeInfo \union {None}]
  BY <1>3, <1>4 DEF TypeOK
<1>11. QED
  BY <1>9, <1>10 DEF TypeOK, StoreUserCode

LEMMA DropUserCodeKeeps ==
  ASSUME TypeOK, DeviceInv, NEW h \in Handler, DropUserCode(h)
  PROVE  TypeOK' /\ DeviceInv'
<1>1. handler[h].pc = "dropUserCode" /\ Go(h, Idle) /\ HandlerInv(h)'
  BY Ends DEF DropUserCode, At, Leave
<1>2. /\ \A c \in UserCode : userCodes'[c] = userCodes[c] \/ userCodes'[c] = None
      /\ userCodes' \in [UserCode -> UserCodeInfo \union {None}]
  BY DEF DropUserCode, TypeOK
<1>3. Grows
  BY <1>1 DEF Grows, Go, DropUserCode
<1>4. UserCodeInv' /\ \A l \in Login : LoginInv(l)'
  BY <1>2, <1>3, Rest DEF DropUserCode
<1>5. DeviceInv' /\ handler' \in [Handler -> InProgress] /\ shared' = shared
  BY <1>1, <1>4, IdleType, Beside DEF DropUserCode
<1>6. QED
  BY <1>2, <1>5 DEF TypeOK, DropUserCode

LEMMA OpenLoginKeeps ==
  ASSUME TypeOK, DeviceInv, NEW h \in Handler, OpenLogin(h)
  PROVE  TypeOK' /\ DeviceInv'
<1>1. handler[h].pc = "openLogin" /\ Go(h, Idle) /\ HandlerInv(h)'
  BY Ends DEF OpenLogin, At, Leave
<1>2. PICK d \in Device, v \in VirtualServer :
        d = handler[h].device /\ v = handler[h].vs /\ Named(begun[d], v)
  BY <1>1, Knows
<1> DEFINE new == [vs |-> v, device |-> d, user |-> None, expires |-> now + LoginTTL]
<1>3. new \in LoginInfo /\ new.device = d /\ new.vs = v /\ new.user = None
  BY DEF TypeOK, LoginInfo
<1>4. PICK l \in Login : logins' = [logins EXCEPT ![l] = new] /\ opened' = opened \union {l}
  BY <1>2 DEF OpenLogin
<1> HIDE DEF new
<1>5. Grows /\ begun' = begun
  BY <1>1 DEF Grows, Go, OpenLogin
<1>6. ASSUME NEW m \in Login PROVE LoginInv(m)'
  <2>1. CASE m = l
    BY <1>2, <1>3, <1>4, <1>5, <2>1 DEF LoginInv, TypeOK
  <2>2. CASE m # l
    BY <1>4, <1>5, <2>2, LoginKept DEF DeviceInv, TypeOK
  <2>3. QED
    BY <2>1, <2>2
<1>7. UserCodeInv'
  BY <1>5, Rest DEF OpenLogin
<1>8. DeviceInv' /\ handler' \in [Handler -> InProgress] /\ shared' = shared
  BY <1>1, <1>6, <1>7, IdleType, Beside DEF OpenLogin
<1>9. logins' \in [Login -> LoginInfo \union {None}] /\ opened' \subseteq Login
  BY <1>3, <1>4 DEF TypeOK
<1>10. QED
  BY <1>8, <1>9 DEF TypeOK, OpenLogin

LEMMA DeleteLoginKeeps ==
  ASSUME TypeOK, DeviceInv, NEW h \in Handler, DeleteLogin(h)
  PROVE  TypeOK' /\ DeviceInv'
<1>1. handler[h].pc = "deleteLogin" /\ handler[h] \in InProgress
  BY DEF DeleteLogin, At, TypeOK
<1>2. PICK d \in Device : /\ d = handler[h].device /\ begun[d] # None /\ handler[h].user \in User
                          /\ Named(begun[d], Home[handler[h].user])
  BY <1>1, Knows
<1> DEFINE r == [handler[h] EXCEPT !.pc = "readDevice"]
<1>3. r \in InProgress /\ r.pc = "readDevice" /\ r.device = d /\ r.user = handler[h].user
  BY <1>1, <1>2 DEF InProgress
<1>4. Go(h, r)
  BY DEF DeleteLogin
<1> HIDE DEF r
<1>5. handler'[h] = r
  BY <1>3, <1>4, Goes
<1>6. HandlerInv(h)'
  BY <1>2, <1>3, <1>5 DEF HandlerInv, DeleteLogin
<1>7. /\ \A l \in Login : logins'[l] = logins[l] \/ logins'[l] = None
      /\ logins' \in [Login -> LoginInfo \union {None}]
  BY DEF DeleteLogin, TypeOK
<1>8. Grows
  BY <1>4 DEF Grows, Go, DeleteLogin
<1>9. UserCodeInv' /\ \A l \in Login : LoginInv(l)'
  BY <1>7, <1>8, Rest, LoginKept DEF DeleteLogin, DeviceInv
<1>10. DeviceInv' /\ handler' \in [Handler -> InProgress] /\ shared' = shared
  BY <1>1, <1>2, <1>3, <1>4, <1>6, <1>9, Beside DEF DeleteLogin
<1>11. QED
  BY <1>7, <1>10 DEF TypeOK, DeleteLogin

LEMMA AuthorizeDeviceKeeps ==
  ASSUME TypeOK, DeviceInv, NEW h \in Handler, AuthorizeDevice(h)
  PROVE  TypeOK' /\ DeviceInv'
<1>1. handler[h].pc = "authorize" /\ handler[h] \in InProgress
  BY DEF AuthorizeDevice, At, TypeOK
<1>2. PICK d \in Device, info \in DeviceCodeInfo, u \in User :
        /\ d = handler[h].device /\ begun[d] # None
        /\ info = handler[h].info /\ Genuine(begun[d], approved, d, info)
        /\ u = handler[h].user /\ Named(begun[d], Home[u])
        /\ d \notin shared => redeemed[d] = 0
  BY <1>1, Knows
<1>0. PICK end \in Nat : end = now + DeviceTTL
  BY DEF TypeOK
<1> DEFINE new == [info EXCEPT !.status = "authorized", !.user = u, !.expires = end]
           r == [handler[h] EXCEPT !.pc = "dropUserCode"]
<1>3. /\ new \in DeviceCodeInfo /\ new.status = "authorized" /\ new.user = u
      /\ new.vs = info.vs /\ new.client = info.client
  BY DEF DeviceCodeInfo
<1>4. r \in InProgress /\ r.pc = "dropUserCode" /\ r.device = d /\ r.info = info
  BY <1>1, <1>2 DEF InProgress
<1>5. /\ deviceCodes' = [deviceCodes EXCEPT ![d] = new]
      /\ approved' = approved \union {<<d, u>>}
      /\ Go(h, r)
  BY <1>0, <1>2 DEF AuthorizeDevice
<1> HIDE DEF new, r
<1>6. handler' \in [Handler -> InProgress] /\ handler'[h] = r /\ Only(h) /\ shared' = shared
  BY <1>4, <1>5, Goes
<1>7. Alone(h, d) /\ Solo'
  BY <1>1, <1>2, <1>4, <1>6, Busy
<1>8. Grows /\ Apart(d)
  BY <1>5, <1>6 DEF Grows, Apart, Untouched, AuthorizeDevice, TypeOK
<1>9. Genuine(begun[d], approved', d, new) /\ Genuine(begun[d], approved', d, info)
  BY <1>2, <1>3, <1>5 DEF Genuine
<1>10. CodeInv(d)'
  BY <1>2, <1>5, <1>6, <1>9 DEF CodeInv, AuthorizeDevice, TypeOK
<1>11. HandlerInv(h)'
  BY <1>2, <1>4, <1>6, <1>9 DEF HandlerInv, AuthorizeDevice
<1>12. Approvals'
  BY <1>2, <1>5 DEF Approvals, DeviceInv, AuthorizeDevice
<1>13. UserCodeInv' /\ (\A l \in Login : LoginInv(l)') /\ \A g \in grants' : Granted(g)'
  BY <1>8, Rest DEF AuthorizeDevice
<1>14. DeviceInv'
  BY <1>6, <1>7, <1>8, <1>10, <1>11, <1>12, <1>13, OneDevice
<1>15. deviceCodes' \in [Device -> DeviceCodeInfo \union {None}] /\ approved' \subseteq Device \X User
  BY <1>3, <1>5 DEF TypeOK
<1>16. QED
  BY <1>6, <1>14, <1>15 DEF TypeOK, AuthorizeDevice

LEMMA DeleteDeviceCodeKeeps ==
  ASSUME TypeOK, DeviceInv, NEW h \in Handler, DeleteDeviceCode(h)
  PROVE  TypeOK' /\ DeviceInv'
<1>1. handler[h].pc = "redeem" /\ handler[h] \in InProgress
  BY DEF DeleteDeviceCode, At, TypeOK
<1>2. PICK d \in Device, info \in DeviceCodeInfo :
        /\ d = handler[h].device /\ begun[d] # None
        /\ info = handler[h].info /\ Genuine(begun[d], approved, d, info)
        /\ info.status = "authorized" /\ (d \notin shared => redeemed[d] = 0)
  BY <1>1, Knows
<1> DEFINE r == [handler[h] EXCEPT !.pc = "issue"]
<1>3. r \in InProgress /\ r.pc = "issue" /\ r.device = d /\ r.info = info
  BY <1>1, <1>2 DEF InProgress
<1>4. deviceCodes' = [deviceCodes EXCEPT ![d] = None] /\ Go(h, r)
  BY <1>2 DEF DeleteDeviceCode
<1> HIDE DEF r
<1>5. handler' \in [Handler -> InProgress] /\ handler'[h] = r /\ Only(h) /\ shared' = shared
  BY <1>3, <1>4, Goes
<1>6. Alone(h, d) /\ Solo'
  BY <1>1, <1>2, <1>3, <1>5, Busy
<1>7. Grows /\ (\A e \in Device : Untouched(e)) /\ deviceCodes'[d] = None
  BY <1>4, <1>5 DEF Grows, Untouched, DeleteDeviceCode, TypeOK
<1>8. CodeInv(d)' /\ Apart(d)
  BY <1>7, CodeKept DEF Apart, DeviceInv
<1>9. HandlerInv(h)'
  BY <1>2, <1>3, <1>5, <1>7 DEF HandlerInv, DeleteDeviceCode
<1>10. /\ UserCodeInv' /\ Approvals' /\ \A l \in Login : LoginInv(l)'
       /\ \A g \in grants' : Granted(g)'
  BY <1>7, Rest DEF DeleteDeviceCode
<1>11. DeviceInv'
  BY <1>5, <1>6, <1>7, <1>8, <1>9, <1>10, OneDevice
<1>12. deviceCodes' \in [Device -> DeviceCodeInfo \union {None}]
  BY <1>4 DEF TypeOK
<1>13. QED
  BY <1>5, <1>11, <1>12 DEF TypeOK, DeleteDeviceCode

LEMMA IssueDeviceTokensKeeps ==
  ASSUME TypeOK, DeviceInv, NEW h \in Handler, IssueDeviceTokens(h)
  PROVE  TypeOK' /\ DeviceInv'
<1>1. handler[h].pc = "issue" /\ Go(h, Idle)
  BY DEF IssueDeviceTokens, At, Leave
<1>2. PICK d \in Device, info \in DeviceCodeInfo, u \in User :
        /\ d = handler[h].device /\ begun[d] # None
        /\ info = handler[h].info /\ Genuine(begun[d], approved, d, info)
        /\ u = info.user /\ <<d, u>> \in approved
        /\ d \notin shared => redeemed[d] = 0 /\ deviceCodes[d] = None
  <2>1. PICK d \in Device :
          /\ d = handler[h].device /\ begun[d] # None
          /\ handler[h].info \in DeviceCodeInfo /\ Genuine(begun[d], approved, d, handler[h].info)
          /\ handler[h].info.status = "authorized"
          /\ d \notin shared => redeemed[d] = 0 /\ deviceCodes[d] = None
    BY <1>1, Knows
  <2>2. handler[h].info.user \in User /\ <<d, handler[h].info.user>> \in approved
    BY <2>1 DEF Genuine
  <2>3. QED
    BY <2>1, <2>2
<1> DEFINE g == [device |-> d, vs |-> info.vs, client |-> info.client, user |-> u]
<1>3. /\ g \in [device : Device, vs : VirtualServer, client : ClientName, user : User]
      /\ g.device = d /\ g.vs = begun[d].vs /\ g.client = begun[d].client /\ g.user = u
  BY <1>2 DEF Genuine, DeviceCodeInfo
<1>4. grants' = grants \union {g} /\ redeemed' = [redeemed EXCEPT ![d] = @ + 1]
  BY <1>2 DEF IssueDeviceTokens
<1> HIDE DEF g
<1>5. /\ handler' \in [Handler -> InProgress] /\ handler'[h] = Idle /\ Only(h) /\ shared' = shared
      /\ HandlerInv(h)'
  BY Ends DEF IssueDeviceTokens
<1>6. Alone(h, d) /\ Solo'
  BY <1>1, <1>2, <1>5, Busy
<1>7. Grows /\ Apart(d)
  BY <1>4, <1>5 DEF Grows, Apart, Untouched, IssueDeviceTokens, TypeOK
<1>8. redeemed'[d] = redeemed[d] + 1 /\ redeemed' \in [Device -> Nat]
  BY <1>4 DEF TypeOK
<1>9. CodeInv(d)'
  BY <1>2, <1>5, <1>8 DEF CodeInv, DeviceInv, IssueDeviceTokens
<1>10. \A f \in grants' : Granted(f)'
  BY <1>2, <1>3, <1>4 DEF Granted, DeviceInv, IssueDeviceTokens
<1>11. UserCodeInv' /\ Approvals' /\ \A l \in Login : LoginInv(l)'
  BY <1>7, Rest DEF IssueDeviceTokens
<1>12. DeviceInv'
  BY <1>5, <1>6, <1>7, <1>9, <1>10, <1>11, OneDevice
<1>13. QED
  BY <1>3, <1>4, <1>5, <1>8, <1>12 DEF TypeOK, IssueDeviceTokens

-----------------------------------------------------------------------------
LEMMA SignInKeeps ==
  ASSUME TypeOK, DeviceInv, NEW l \in Login, NEW u \in User, SignIn(l, u)
  PROVE  TypeOK' /\ DeviceInv'
<1>0. PICK end \in Nat : end = now + LoginTTL
  BY DEF TypeOK
<1> DEFINE new == [logins[l] EXCEPT !.user = u, !.expires = end]
<1>1. logins[l] # None /\ logins[l] \in LoginInfo /\ Home[u] = logins[l].vs
  BY DEF SignIn, Live, TypeOK
<1>2. /\ new \in LoginInfo /\ new.vs = logins[l].vs /\ new.device = logins[l].device
      /\ new.user = u
  BY <1>1 DEF LoginInfo
<1>3. logins' = [logins EXCEPT ![l] = new]
  BY <1>0 DEF SignIn
<1> HIDE DEF new
<1>4. Grows /\ \A d \in Device : Untouched(d)
  BY DEF Grows, Untouched, SignIn
<1>5. ASSUME NEW m \in Login PROVE LoginInv(m)'
  <2>1. CASE m = l
    BY <1>1, <1>2, <1>3, <2>1 DEF LoginInv, SignIn, TypeOK, DeviceInv
  <2>2. CASE m # l
    BY <1>3, <1>4, <2>2, LoginKept DEF DeviceInv, TypeOK
  <2>3. QED
    BY <2>1, <2>2
<1>6. (\A h \in Handler : HandlerInv(h)') /\ Solo'
  <2>1. ASSUME NEW h \in Handler PROVE HandlerInv(h)'
    <3>1. HandlerInv(h) /\ (handler[h].pc # "idle" => handler[h].device \in Device)
      BY DEF DeviceInv, HandlerInv
    <3>2. handler'[h] = handler[h]
      BY DEF SignIn
    <3>3. QED
      BY <1>4, <3>1, <3>2, HandlerKept
  <2>2. Solo'
    BY DEF SignIn, DeviceInv, Solo, At
  <2>3. QED
    BY <2>1, <2>2
<1>7. \A d \in Device : CodeInv(d)'
  BY <1>4, CodeKept DEF DeviceInv
<1>8. UserCodeInv' /\ Approvals' /\ \A g \in grants' : Granted(g)'
  BY <1>4, Rest DEF SignIn
<1>9. logins' \in [Login -> LoginInfo \union {None}]
  BY <1>2, <1>3 DEF TypeOK
<1>10. QED
  BY <1>5, <1>6, <1>7, <1>8, <1>9 DEF DeviceInv, TypeOK, SignIn

\* The clock, and steps that change nothing.
LEMMA StillKeeps ==
  ASSUME TypeOK, DeviceInv, now' \in Nat,
         UNCHANGED <<deviceCodes, userCodes, logins, handler, shared, begun, opened, approved,
                     grants, redeemed>>
  PROVE  TypeOK' /\ DeviceInv'
<1>1. Grows /\ \A d \in Device : Untouched(d)
  BY DEF Grows, Untouched
<1>2. (\A h \in Handler : HandlerInv(h)') /\ Solo'
  <2>1. ASSUME NEW h \in Handler PROVE HandlerInv(h)'
    <3>1. HandlerInv(h) /\ (handler[h].pc # "idle" => handler[h].device \in Device)
      BY DEF DeviceInv, HandlerInv
    <3>2. handler'[h] = handler[h]
      OBVIOUS
    <3>3. QED
      BY <1>1, <3>1, <3>2, HandlerKept
  <2>2. Solo'
    BY DEF DeviceInv, Solo, At
  <2>3. QED
    BY <2>1, <2>2
<1>3. \A d \in Device : CodeInv(d)'
  BY <1>1, CodeKept DEF DeviceInv
<1>4. /\ UserCodeInv' /\ Approvals' /\ \A l \in Login : LoginInv(l)'
      /\ \A g \in grants' : Granted(g)'
  BY <1>1, Rest
<1>5. QED
  BY <1>2, <1>3, <1>4 DEF DeviceInv, TypeOK

LEMMA InvInit == Init => TypeOK /\ DeviceInv
<1> SUFFICES ASSUME Init PROVE TypeOK /\ DeviceInv
  OBVIOUS
<1>1. TypeOK
  BY IdleType DEF Init, TypeOK
<1>2. Solo /\ UserCodeInv /\ Approvals
  BY IdleType DEF Init, Solo, At, UserCodeInv, Approvals
<1>3. (\A d \in Device : CodeInv(d)) /\ \A l \in Login : LoginInv(l)
  BY DEF Init, CodeInv, LoginInv
<1>4. (\A h \in Handler : HandlerInv(h)) /\ \A g \in grants : Granted(g)
  BY IdleType DEF Init, HandlerInv
<1>5. QED
  BY <1>1, <1>2, <1>3, <1>4 DEF DeviceInv

LEMMA InvNext == TypeOK /\ DeviceInv /\ [Next]_vars => (TypeOK /\ DeviceInv)'
<1> SUFFICES ASSUME TypeOK, DeviceInv, [Next]_vars PROVE TypeOK' /\ DeviceInv'
  OBVIOUS
<1>1. CASE Tick \/ UNCHANGED vars
  <2>1. now' \in Nat
    BY <1>1 DEF Tick, vars, TypeOK
  <2>2. QED
    BY <1>1, <2>1, StillKeeps DEF Tick, vars
<1>2. ASSUME NEW l \in Login, NEW u \in User, SignIn(l, u) PROVE TypeOK' /\ DeviceInv'
  BY <1>2, SignInKeeps
<1>3. ASSUME NEW h \in Handler, HandlerStep(h) PROVE TypeOK' /\ DeviceInv'
  <2>1. ASSUME NEW v \in VirtualServer, CheckPending(h, v) PROVE TypeOK' /\ DeviceInv'
    BY <2>1, CheckPendingKeeps
  <2>2. ASSUME NEW v \in VirtualServer, NEW c \in ClientName, NEW code \in UserCode,
               BeginDeviceFlow(h, v, c, code)
        PROVE  TypeOK' /\ DeviceInv'
    BY <2>2, BeginDeviceFlowKeeps
  <2>3. CASE StoreUserCode(h)
    BY <2>3, StoreUserCodeKeeps
  <2>4. ASSUME NEW code \in UserCode, EnterUserCode(h, code) PROVE TypeOK' /\ DeviceInv'
    BY <2>4, EnterUserCodeKeeps
  <2>5. ASSUME NEW l \in Login, ReadLogin(h, l) PROVE TypeOK' /\ DeviceInv'
    BY <2>5, ReadLoginKeeps
  <2>6. CASE OpenLogin(h)
    BY <2>6, OpenLoginKeeps
  <2>7. CASE DeleteLogin(h)
    BY <2>7, DeleteLoginKeeps
  <2>8. CASE ReadDevice(h)
    BY <2>8, ReadDeviceKeeps
  <2>9. CASE AuthorizeDevice(h)
    BY <2>9, AuthorizeDeviceKeeps
  <2>10. CASE DropUserCode(h)
    BY <2>10, DropUserCodeKeeps
  <2>11. ASSUME NEW d \in Device, NEW c \in ClientName, Poll(h, d, c) PROVE TypeOK' /\ DeviceInv'
    BY <2>11, PollKeeps
  <2>12. CASE DeleteDeviceCode(h)
    BY <2>12, DeleteDeviceCodeKeeps
  <2>13. CASE IssueDeviceTokens(h)
    BY <2>13, IssueDeviceTokensKeeps
  <2>14. CASE Abandon(h)
    BY <2>14, AbandonKeeps
  <2>15. QED
    BY <1>3, <2>1, <2>2, <2>3, <2>4, <2>5, <2>6, <2>7, <2>8, <2>9, <2>10, <2>11, <2>12, <2>13,
       <2>14 DEF HandlerStep
<1>4. QED
  BY <1>1, <1>2, <1>3 DEF Next

LEMMA Invariance == Spec => [](TypeOK /\ DeviceInv)
<1>1. Init => TypeOK /\ DeviceInv
  BY InvInit
<1>2. TypeOK /\ DeviceInv /\ [Next]_vars => (TypeOK /\ DeviceInv)'
  BY InvNext
<1>3. QED
  BY <1>1, <1>2, PTL DEF Spec

\* The state is always of the form the actions assume.
THEOREM Typing == Spec => []TypeOK
  BY Invariance, PTL

\* Tokens go to the client, in the virtual server, that began the flow, for a user who
\* finished a login for that very device code, however user codes collide and handlers
\* overlap (BeginDeviceFlow, PostActivatePage, FinishLogin and handleDeviceCodeGrant).
THEOREM Authorized == Spec => []GrantAuthorized
<1>1. TypeOK /\ DeviceInv => GrantAuthorized
  BY DEF DeviceInv, Granted, GrantAuthorized
<1>2. QED
  BY <1>1, Invariance, PTL

\* A device code is exchanged for tokens twice only if two handlers overlapped on it
\* (handleDeviceCodeGrant and FinishLogin).
THEOREM Once == Spec => []RedeemedOnce
<1>1. TypeOK /\ DeviceInv => RedeemedOnce
  BY DEF DeviceInv, CodeInv, RedeemedOnce
<1>2. QED
  BY <1>1, Invariance, PTL

\* Tokens of a virtual server for a user of another one need an application of the same
\* name there, device flow enabled or not (PostActivatePage).
THEOREM Foreign == Spec => []ForeignUserByName
<1>1. TypeOK /\ DeviceInv => ForeignUserByName
  <2> SUFFICES ASSUME TypeOK, DeviceInv, NEW g \in grants
               PROVE  <<Home[g.user], g.client>> \in Applications
    BY DEF ForeignUserByName
  <2>1. g.device \in Device /\ g.user \in User
    BY DEF TypeOK
  <2>2. QED
    BY <2>1 DEF DeviceInv, Granted, Approvals, Named
<1>2. QED
  BY <1>1, Invariance, PTL

=============================================================================
