--------------------------- MODULE SessionsProofs ---------------------------
(***************************************************************************)
(* Theorems about Sessions, for any number of virtual servers, sessions    *)
(* and overlapping requests and any lifetime of the cache.                 *)
(***************************************************************************)
EXTENDS Sessions, TLAPS

USE SessionAssumption

-----------------------------------------------------------------------------
(* Types. *)

\* A request is replaced by one of the right type, and the known sessions only grow.
LEMMA RequestUpdate ==
  ASSUME TypeOK, NEW q \in Request, NEW r \in InProgress,
         r.pc # "idle" => r.vs \in VirtualServer /\ r.session \in known',
         known \subseteq known',
         request' = [request EXCEPT ![q] = r]
  PROVE  /\ request' \in [Request -> InProgress]
         /\ request'[q] = r /\ \A p \in Request : p # q => request'[p] = request[p]
         /\ \A p \in Request : request'[p].pc # "idle" =>
               request'[p].vs \in VirtualServer /\ request'[p].session \in known'
  BY DEF TypeOK

LEMMA RequestType ==
  ASSUME TypeOK, NEW q \in Request
  PROVE  /\ request[q] \in InProgress
         /\ request[q].pc \in States
         /\ request[q].pc # "idle" => /\ request[q].vs \in VirtualServer
                                      /\ request[q].session \in known
                                      /\ request[q].session \in Session
  BY DEF TypeOK, InProgress

\* Become and Leave keep the type, and what else they keep.
LEMMA BecomeType ==
  ASSUME TypeOK, NEW q \in Request, NEW pc \in States, request[q].pc # "idle",
         Become(q, pc), known' = known
  PROVE  /\ request' \in [Request -> InProgress]
         /\ request'[q].pc = pc /\ request'[q].vs = request[q].vs
         /\ request'[q].session = request[q].session
         /\ \A p \in Request : p # q => request'[p] = request[p]
         /\ \A p \in Request : request'[p].pc # "idle" =>
               request'[p].vs \in VirtualServer /\ request'[p].session \in known'
<1> DEFINE r == [request[q] EXCEPT !.pc = pc]
<1>1. r \in InProgress /\ r.pc = pc /\ r.vs = request[q].vs /\ r.session = request[q].session
  BY RequestType DEF InProgress
<1>2. request' = [request EXCEPT ![q] = r]
  BY DEF Become
<1>3. r.vs \in VirtualServer /\ r.session \in known'
  BY <1>1, RequestType
<1> HIDE DEF r
<1>4. QED
  BY <1>1, <1>2, <1>3, RequestUpdate

LEMMA LeaveType ==
  ASSUME TypeOK, NEW q \in Request, Leave(q), known' = known
  PROVE  /\ request' \in [Request -> InProgress]
         /\ request'[q] = Idle /\ request'[q].pc = "idle"
         /\ \A p \in Request : p # q => request'[p] = request[p]
         /\ \A p \in Request : request'[p].pc # "idle" =>
               request'[p].vs \in VirtualServer /\ request'[p].session \in known'
<1>1. Idle \in InProgress /\ Idle.pc = "idle"
  BY DEF Idle, InProgress, States
<1>2. QED
  BY <1>1, RequestUpdate DEF Leave

LEMMA QuietType ==
  ASSUME TypeOK, NoteQuiet
  PROVE  quiet' \in [Session -> Nat \union {None}]
  BY DEF TypeOK, NoteQuiet

LEMMA CacheType ==
  ASSUME TypeOK, NEW v \in VirtualServer, NEW s \in Session, NEW t \in Nat \union {None},
         cache' = [cache EXCEPT ![v][s] = t]
  PROVE  /\ cache' \in [VirtualServer -> [Session -> Nat \union {None}]]
         /\ cache'[v][s] = t
         /\ \A w \in VirtualServer, x \in Session : w # v \/ x # s => cache'[w][x] = cache[w][x]
  BY DEF TypeOK

LEMMA TypeInit == Init => TypeOK
  BY DEF Init, TypeOK, Idle, InProgress, States

LEMMA TypeNext == TypeOK /\ [Next]_vars => TypeOK'
<1> SUFFICES ASSUME TypeOK, [Next]_vars PROVE TypeOK'
  OBVIOUS
<1>1. ASSUME NEW q \in Request, NEW s \in Session, NewSession(q, s) PROVE TypeOK'
  <2> DEFINE r == [pc |-> "insert", vs |-> Home[s], session |-> s]
  <2>1. r \in InProgress /\ r.vs \in VirtualServer /\ r.session \in known'
    BY <1>1 DEF NewSession, InProgress, States
  <2>2. request' = [request EXCEPT ![q] = r] /\ known \subseteq known'
    BY <1>1 DEF NewSession
  <2> HIDE DEF r
  <2>3. QED
    BY <1>1, <2>1, <2>2, RequestUpdate DEF NewSession, TypeOK
<1>2. ASSUME NEW q \in Request, NEW s \in Session, NEW v \in VirtualServer, ReadCache(q, v, s)
      PROVE  TypeOK'
  <2> DEFINE r == [pc |-> IF Live(v, s) THEN "signedIn" ELSE "load", vs |-> v, session |-> s]
  <2>1. r \in InProgress /\ r.vs \in VirtualServer /\ r.session \in known'
    BY <1>2 DEF ReadCache, InProgress, States
  <2>2. request' = [request EXCEPT ![q] = r] /\ known' = known
    BY <1>2 DEF ReadCache
  <2> HIDE DEF r
  <2>3. QED
    BY <1>2, <2>1, <2>2, RequestUpdate DEF ReadCache, TypeOK
<1>3. ASSUME NEW q \in Request, SaveNew(q) PROVE TypeOK'
  <2>1. request[q].session \in known
    BY <1>3, RequestType DEF SaveNew, At
  <2>2. QED
    BY <1>3, <2>1, LeaveType DEF SaveNew, TypeOK
<1>4. ASSUME NEW q \in Request, LoadRow(q) PROVE TypeOK'
  BY <1>4, BecomeType DEF LoadRow, At, TypeOK, States
<1>5. ASSUME NEW q \in Request, FillCache(q) PROVE TypeOK'
  <2>1. now + CacheTTL \in Nat
    BY DEF TypeOK
  <2>2. request[q].vs \in VirtualServer /\ request[q].session \in Session
    BY <1>5, RequestType DEF FillCache, At
  <2>3. cache' \in [VirtualServer -> [Session -> Nat \union {None}]]
    BY <1>5, <2>1, <2>2, CacheType DEF FillCache
  <2>4. QED
    BY <1>5, <2>3, BecomeType, QuietType DEF FillCache, At, TypeOK, States
<1>6. ASSUME NEW q \in Request, FindRow(q) PROVE TypeOK'
  BY <1>6, BecomeType DEF FindRow, At, TypeOK, States
<1>7. ASSUME NEW q \in Request, DeleteEntry(q) PROVE TypeOK'
  <2>1. request[q].vs \in VirtualServer /\ request[q].session \in Session
    BY <1>7, RequestType DEF DeleteEntry, At
  <2>2. cache' \in [VirtualServer -> [Session -> Nat \union {None}]]
    BY <1>7, <2>1, CacheType DEF DeleteEntry
  <2>3. QED
    BY <1>7, <2>2, BecomeType DEF DeleteEntry, At, TypeOK, States
<1>8. ASSUME NEW q \in Request, SaveDeleted(q) PROVE TypeOK'
  BY <1>8, LeaveType, QuietType DEF SaveDeleted, TypeOK
<1>9. ASSUME NEW q \in Request, Leaves(q) PROVE TypeOK'
  BY <1>9, LeaveType, QuietType DEF Leaves, TypeOK
<1>10. CASE Tick
  BY <1>10 DEF Tick, TypeOK
<1>11. CASE UNCHANGED vars
  BY <1>11 DEF vars, TypeOK
<1>12. QED
  BY <1>1, <1>2, <1>3, <1>4, <1>5, <1>6, <1>7, <1>8, <1>9, <1>10, <1>11 DEF Next, RequestStep

\* The variables keep their types.
THEOREM Typing == Spec => []TypeOK
  BY TypeInit, TypeNext, PTL DEF Spec

-----------------------------------------------------------------------------
(* Where a session is accepted. *)

\* The requests that found their session's row are at its home.
FoundAtHome ==
    \A q \in Request : request[q].pc \in {"fill", "signedIn", "deleteEntry", "deleteRow"} =>
        request[q].session \in stored /\ Home[request[q].session] = request[q].vs

CachedAtHome ==
    \A v \in VirtualServer, s \in Session : cache[v][s] # None => s \in stored /\ Home[s] = v

AtHome == FoundAtHome /\ CachedAtHome

LEMMA AtHomeInit == Init => AtHome
  BY DEF Init, AtHome, FoundAtHome, CachedAtHome, Idle

LEMMA AtHomeNext == TypeOK /\ AtHome /\ [Next]_vars => AtHome'
<1> SUFFICES ASSUME TypeOK, AtHome, [Next]_vars PROVE AtHome'
  OBVIOUS
<1> USE DEF AtHome
\* A step of one request that leaves the cache alone.
<1>1. ASSUME NEW q \in Request, cache' = cache, stored \subseteq stored',
             \A p \in Request : p # q => request'[p] = request[p],
             request'[q].pc \in {"fill", "signedIn", "deleteEntry", "deleteRow"} =>
                request'[q].session \in stored' /\ Home[request'[q].session] = request'[q].vs
      PROVE  AtHome'
  <2>1. CachedAtHome'
    BY <1>1 DEF CachedAtHome
  <2>2. FoundAtHome'
    BY <1>1 DEF FoundAtHome
  <2>3. QED
    BY <2>1, <2>2
<1>2. ASSUME NEW q \in Request, NEW s \in Session, NewSession(q, s) PROVE AtHome'
  <2>1. request'[q].pc = "insert" /\ \A p \in Request : p # q => request'[p] = request[p]
    BY <1>2 DEF NewSession, TypeOK
  <2>2. QED
    BY <1>1, <1>2, <2>1 DEF NewSession
<1>3. ASSUME NEW q \in Request, NEW s \in Session, NEW v \in VirtualServer, ReadCache(q, v, s)
      PROVE  AtHome'
  <2> DEFINE pc == IF Live(v, s) THEN "signedIn" ELSE "load"
  <2>1. /\ request'[q] = [pc |-> pc, vs |-> v, session |-> s]
        /\ \A p \in Request : p # q => request'[p] = request[p]
    BY <1>3 DEF ReadCache, TypeOK
  <2>2. pc = "signedIn" => s \in stored /\ Home[s] = v
    BY DEF Live, CachedAtHome
  <2>3. pc \in {"signedIn", "load"}
    OBVIOUS
  <2>4. request'[q].pc = pc /\ request'[q].vs = v /\ request'[q].session = s
    BY <2>1
  <2> HIDE DEF pc
  <2>5. QED
    BY <1>1, <1>3, <2>1, <2>2, <2>3, <2>4 DEF ReadCache
<1>4. ASSUME NEW q \in Request, SaveNew(q) PROVE AtHome'
  <2>1. request'[q].pc = "idle" /\ \A p \in Request : p # q => request'[p] = request[p]
    BY <1>4, LeaveType DEF SaveNew
  <2>2. QED
    BY <1>1, <1>4, <2>1 DEF SaveNew
<1>5. ASSUME NEW q \in Request, LoadRow(q) PROVE AtHome'
  <2>1. /\ request'[q].vs = request[q].vs /\ request'[q].session = request[q].session
        /\ \A p \in Request : p # q => request'[p] = request[p]
    BY <1>5, BecomeType DEF LoadRow, At, States
  <2>2. request[q].session \in stored /\ Home[request[q].session] = request[q].vs
    BY <1>5 DEF LoadRow, TypeOK
  <2>3. QED
    BY <1>1, <1>5, <2>1, <2>2 DEF LoadRow
<1>6. ASSUME NEW q \in Request, FillCache(q) PROVE AtHome'
  <2>1. /\ request'[q].vs = request[q].vs /\ request'[q].session = request[q].session
        /\ \A p \in Request : p # q => request'[p] = request[p]
    BY <1>6, BecomeType DEF FillCache, At, States
  <2>2. request[q].session \in stored /\ Home[request[q].session] = request[q].vs
    BY <1>6 DEF FillCache, At, FoundAtHome
  <2>3. FoundAtHome'
    BY <1>6, <2>1, <2>2 DEF FillCache, FoundAtHome
  <2>4. request[q].vs \in VirtualServer /\ request[q].session \in Session
    BY <1>6, RequestType DEF FillCache, At
  <2>5. \A w \in VirtualServer, x \in Session :
           w # request[q].vs \/ x # request[q].session => cache'[w][x] = cache[w][x]
    BY <1>6, <2>4 DEF FillCache, TypeOK
  <2>6. CachedAtHome'
    BY <1>6, <2>2, <2>5 DEF FillCache, CachedAtHome
  <2>7. QED
    BY <2>3, <2>6
<1>7. ASSUME NEW q \in Request, FindRow(q) PROVE AtHome'
  <2>1. /\ request'[q].vs = request[q].vs /\ request'[q].session = request[q].session
        /\ \A p \in Request : p # q => request'[p] = request[p]
    BY <1>7, BecomeType DEF FindRow, At, States
  <2>2. request[q].session \in stored /\ Home[request[q].session] = request[q].vs
    BY <1>7 DEF FindRow, TypeOK
  <2>3. QED
    BY <1>1, <1>7, <2>1, <2>2 DEF FindRow
<1>8. ASSUME NEW q \in Request, DeleteEntry(q) PROVE AtHome'
  <2>1. /\ request'[q].vs = request[q].vs /\ request'[q].session = request[q].session
        /\ \A p \in Request : p # q => request'[p] = request[p]
    BY <1>8, BecomeType DEF DeleteEntry, At, States
  <2>2. FoundAtHome'
    BY <1>8, <2>1 DEF DeleteEntry, At, FoundAtHome
  <2>3. request[q].vs \in VirtualServer /\ request[q].session \in Session
    BY <1>8, RequestType DEF DeleteEntry, At
  <2>4. \A w \in VirtualServer, x \in Session : cache'[w][x] # None => cache'[w][x] = cache[w][x]
    BY <1>8, <2>3 DEF DeleteEntry, TypeOK
  <2>5. CachedAtHome'
    BY <1>8, <2>4 DEF DeleteEntry, CachedAtHome
  <2>6. QED
    BY <2>2, <2>5
<1>9. ASSUME NEW q \in Request, SaveDeleted(q) PROVE AtHome'
  <2>1. request'[q].pc = "idle" /\ \A p \in Request : p # q => request'[p] = request[p]
    BY <1>9, LeaveType DEF SaveDeleted
  <2>2. QED
    BY <1>1, <1>9, <2>1 DEF SaveDeleted
<1>10. ASSUME NEW q \in Request, Leaves(q) PROVE AtHome'
  <2>1. request'[q].pc = "idle" /\ \A p \in Request : p # q => request'[p] = request[p]
    BY <1>10, LeaveType DEF Leaves
  <2>2. QED
    BY <1>1, <1>10, <2>1 DEF Leaves
<1>11. CASE Tick
  BY <1>11 DEF Tick, FoundAtHome, CachedAtHome
<1>12. CASE UNCHANGED vars
  BY <1>12 DEF vars, FoundAtHome, CachedAtHome
<1>13. QED
  BY <1>2, <1>3, <1>4, <1>5, <1>6, <1>7, <1>8, <1>9, <1>10, <1>11, <1>12 DEF Next, RequestStep

\* A session is accepted, and cached, only at its own virtual server and only after
\* its row was saved, whatever overlaps.
THEOREM Accepted == Spec => []AcceptedAtHome
<1>1. AtHome => AcceptedAtHome
  BY DEF AtHome, FoundAtHome, CachedAtHome, AcceptedAtHome
<1>2. QED
  BY AtHomeInit, AtHomeNext, Typing, <1>1, PTL DEF Spec

-----------------------------------------------------------------------------
(* How long a session is accepted after its end. *)

\* A row is inserted once.
InsertedOnce ==
    \A q \in Request : request[q].pc = "insert" =>
        /\ request[q].session \notin stored
        /\ \A p \in Request : request[p].pc = "insert" /\ request[p].session = request[q].session => p = q

Bounded ==
    \A v \in VirtualServer, s \in Session : cache[v][s] # None => cache[v][s] <= now + CacheTTL

\* What holds of a session that has ended everywhere.
Ended ==
    \A s \in Session : quiet[s] # None =>
        /\ s \in stored /\ s \notin rows /\ Filling(s) = {}
        /\ \A v \in VirtualServer : cache[v][s] # None => cache[v][s] <= quiet[s] + CacheTTL

StaleInv == InsertedOnce /\ Bounded /\ Ended

\* A step that does not bring s back.
Kept(s) ==
    /\ s \notin rows' /\ Filling(s)' = {}
    /\ \A v \in VirtualServer : cache'[v][s] \in {None, cache[v][s]}

LEMMA StaleInit == Init => StaleInv
  BY DEF Init, StaleInv, InsertedOnce, Bounded, Ended, Idle

LEMMA InsertedOnceNext == TypeOK /\ InsertedOnce /\ [Next]_vars => InsertedOnce'
<1> SUFFICES ASSUME TypeOK, InsertedOnce, [Next]_vars PROVE InsertedOnce'
  OBVIOUS
\* A request that does not insert.
<1>1. ASSUME NEW q \in Request, stored' = stored, request'[q].pc # "insert",
             \A p \in Request : p # q => request'[p] = request[p]
      PROVE  InsertedOnce'
  BY <1>1 DEF InsertedOnce
<1>2. ASSUME NEW q \in Request, NEW s \in Session, NewSession(q, s) PROVE InsertedOnce'
  <2>1. /\ request'[q].pc = "insert" /\ request'[q].session = s
        /\ \A p \in Request : p # q => request'[p] = request[p]
    BY <1>2 DEF NewSession, TypeOK
  <2>2. s \notin stored /\ \A p \in Request : request[p].pc = "insert" => request[p].session # s
    BY <1>2 DEF NewSession, TypeOK
  <2>3. QED
    BY <1>2, <2>1, <2>2 DEF NewSession, InsertedOnce
<1>3. ASSUME NEW q \in Request, NEW s \in Session, NEW v \in VirtualServer, ReadCache(q, v, s)
      PROVE  InsertedOnce'
  <2>1. request'[q].pc # "insert" /\ \A p \in Request : p # q => request'[p] = request[p]
    BY <1>3 DEF ReadCache, TypeOK
  <2>2. QED
    BY <1>1, <1>3, <2>1 DEF ReadCache
<1>4. ASSUME NEW q \in Request, SaveNew(q) PROVE InsertedOnce'
  <2>1. request'[q].pc = "idle" /\ \A p \in Request : p # q => request'[p] = request[p]
    BY <1>4, LeaveType DEF SaveNew
  <2>2. stored' = stored \union {request[q].session} /\ request[q].pc = "insert"
    BY <1>4 DEF SaveNew, At
  <2>3. QED
    BY <2>1, <2>2 DEF InsertedOnce
<1>5. ASSUME NEW q \in Request, LoadRow(q) \/ FillCache(q) \/ FindRow(q) \/ DeleteEntry(q)
      PROVE  InsertedOnce'
  <2>1. PICK pc \in {"fill", "signedIn", "deleteEntry", "deleteRow"} : Become(q, pc)
    BY <1>5 DEF LoadRow, FillCache, FindRow, DeleteEntry
  <2>2. request[q].pc # "idle" /\ stored' = stored /\ known' = known
    BY <1>5 DEF LoadRow, FillCache, FindRow, DeleteEntry, At
  <2>3. request'[q].pc = pc /\ \A p \in Request : p # q => request'[p] = request[p]
    BY <2>1, <2>2, BecomeType DEF States
  <2>4. QED
    BY <1>1, <2>1, <2>2, <2>3
<1>6. ASSUME NEW q \in Request, SaveDeleted(q) \/ Leaves(q) PROVE InsertedOnce'
  <2>1. Leave(q) /\ stored' = stored /\ known' = known
    BY <1>6 DEF SaveDeleted, Leaves
  <2>2. request'[q].pc = "idle" /\ \A p \in Request : p # q => request'[p] = request[p]
    BY <2>1, LeaveType
  <2>3. QED
    BY <1>1, <2>1, <2>2
<1>7. CASE Tick \/ UNCHANGED vars
  BY <1>7 DEF Tick, vars, InsertedOnce
<1>8. QED
  BY <1>2, <1>3, <1>4, <1>5, <1>6, <1>7 DEF Next, RequestStep

LEMMA BoundedNext == TypeOK /\ Bounded /\ [Next]_vars => Bounded'
<1> SUFFICES ASSUME TypeOK, Bounded, [Next]_vars PROVE Bounded'
  OBVIOUS
<1>1. ASSUME NEW q \in Request, FillCache(q) \/ DeleteEntry(q) PROVE Bounded'
  <2>1. request[q].vs \in VirtualServer /\ request[q].session \in Session
    BY <1>1, RequestType DEF FillCache, DeleteEntry, At
  <2>2. PICK t \in {None, now + CacheTTL} :
           cache' = [cache EXCEPT ![request[q].vs][request[q].session] = t]
    BY <1>1 DEF FillCache, DeleteEntry
  <2>3. now + CacheTTL \in Nat /\ now' = now
    BY <1>1 DEF FillCache, DeleteEntry, TypeOK
  <2>4. \A w \in VirtualServer, x \in Session :
           cache'[w][x] = t \/ cache'[w][x] = cache[w][x]
    BY <2>1, <2>2, <2>3, CacheType
  <2>5. QED
    BY <2>3, <2>4 DEF Bounded, TypeOK
<1>2. ASSUME cache' = cache, now' = now PROVE Bounded'
  BY <1>2 DEF Bounded
<1>3. CASE Tick
  BY <1>3 DEF Tick, Bounded, TypeOK
<1>4. QED
  BY <1>1, <1>2, <1>3 DEF Next, RequestStep, NewSession, ReadCache, SaveNew, LoadRow, FindRow,
     SaveDeleted, Leaves, vars

\* No step brings an ended session back.
LEMMA KeptNext ==
  ASSUME TypeOK, InsertedOnce, Ended, [Next]_vars, NEW s \in Session, quiet[s] # None
  PROVE  Kept(s)
<1>1. s \in stored /\ s \notin rows /\ \A p \in Request : request[p].pc = "fill" => request[p].session # s
  BY DEF Ended, Filling
\* A step of one request: it does not read the row, and does not fill the cache.
<1> DEFINE Steps(q) ==
       /\ \A p \in Request : p # q => request'[p] = request[p]
       /\ request'[q].pc = "fill" => request'[q].session # s
<1>2. ASSUME NEW q \in Request, Steps(q) PROVE Filling(s)' = {}
  BY <1>1, <1>2 DEF Filling
<1> HIDE DEF Steps
<1>3. ASSUME NEW q \in Request, NEW x \in Session, NewSession(q, x) PROVE Kept(s)
  <2>1. Steps(q)
    BY <1>3 DEF NewSession, TypeOK, Steps
  <2>2. QED
    BY <1>1, <1>3, <1>2, <2>1 DEF NewSession, Kept
<1>4. ASSUME NEW q \in Request, NEW x \in Session, NEW v \in VirtualServer, ReadCache(q, v, x)
      PROVE  Kept(s)
  <2>1. Steps(q)
    BY <1>4 DEF ReadCache, TypeOK, Steps
  <2>2. QED
    BY <1>1, <1>4, <1>2, <2>1 DEF ReadCache, Kept
<1>5. ASSUME NEW q \in Request, SaveNew(q) PROVE Kept(s)
  <2>1. Steps(q)
    BY <1>5, LeaveType DEF SaveNew, Steps
  <2>2. request[q].session # s
    BY <1>1, <1>5 DEF SaveNew, At, InsertedOnce
  <2>3. QED
    BY <1>1, <1>5, <1>2, <2>1, <2>2 DEF SaveNew, Kept
<1>6. ASSUME NEW q \in Request, LoadRow(q) PROVE Kept(s)
  <2>1. request[q].session # s
    BY <1>1, <1>6 DEF LoadRow
  <2>2. Steps(q)
    BY <1>6, <2>1, BecomeType DEF LoadRow, At, States, Steps
  <2>3. QED
    BY <1>1, <1>6, <1>2, <2>2 DEF LoadRow, Kept
<1>7. ASSUME NEW q \in Request, FillCache(q) PROVE Kept(s)
  <2>1. request[q].session # s
    BY <1>1, <1>7 DEF FillCache, At
  <2>2. Steps(q)
    BY <1>7, BecomeType DEF FillCache, At, States, Steps
  <2>3. \A w \in VirtualServer : cache'[w][s] = cache[w][s]
    BY <1>7, <2>1 DEF FillCache, TypeOK
  <2>4. QED
    BY <1>1, <1>7, <1>2, <2>2, <2>3 DEF FillCache, Kept
<1>8. ASSUME NEW q \in Request, FindRow(q) PROVE Kept(s)
  <2>1. Steps(q)
    BY <1>8, BecomeType DEF FindRow, At, States, Steps
  <2>2. QED
    BY <1>1, <1>8, <1>2, <2>1 DEF FindRow, Kept
<1>9. ASSUME NEW q \in Request, DeleteEntry(q) PROVE Kept(s)
  <2>1. Steps(q)
    BY <1>9, BecomeType DEF DeleteEntry, At, States, Steps
  <2>2. \A w \in VirtualServer : cache'[w][s] \in {None, cache[w][s]}
    BY <1>9 DEF DeleteEntry, TypeOK
  <2>3. QED
    BY <1>1, <1>9, <1>2, <2>1, <2>2 DEF DeleteEntry, Kept
<1>10. ASSUME NEW q \in Request, SaveDeleted(q) \/ Leaves(q) PROVE Kept(s)
  <2>1. Leave(q) /\ known' = known /\ rows' \subseteq rows /\ cache' = cache
    BY <1>10 DEF SaveDeleted, Leaves
  <2>2. Steps(q)
    BY <2>1, LeaveType DEF Steps
  <2>3. QED
    BY <1>1, <1>2, <2>1, <2>2 DEF Kept
<1>11. CASE Tick \/ UNCHANGED vars
  BY <1>1, <1>11 DEF Tick, vars, Kept, Filling
<1>12. QED
  BY <1>3, <1>4, <1>5, <1>6, <1>7, <1>8, <1>9, <1>10, <1>11 DEF Next, RequestStep

\* When a session counts as ended, it does so from now on.
LEMMA QuietNext ==
  ASSUME TypeOK, [Next]_vars, NEW s \in Session
  PROVE  \/ quiet'[s] = quiet[s]
         \/ /\ quiet[s] = None /\ quiet'[s] = now /\ now' = now
            /\ s \in stored /\ s \notin rows' /\ Filling(s)' = {}
<1>1. CASE NoteQuiet /\ now' = now
  BY <1>1 DEF NoteQuiet
<1>2. CASE quiet' = quiet
  BY <1>2
<1>3. QED
  BY <1>1, <1>2 DEF Next, RequestStep, NewSession, ReadCache, SaveNew, LoadRow, FillCache, FindRow,
     DeleteEntry, SaveDeleted, Leaves, Tick, vars

LEMMA StaleNext == TypeOK /\ StaleInv /\ [Next]_vars => StaleInv'
<1> SUFFICES ASSUME TypeOK, StaleInv, [Next]_vars PROVE StaleInv'
  OBVIOUS
<1>1. InsertedOnce' /\ Bounded'
  BY InsertedOnceNext, BoundedNext DEF StaleInv
<1>2. stored \subseteq stored' /\ TypeOK'
  BY TypeNext DEF Next, RequestStep, NewSession, ReadCache, SaveNew, LoadRow, FillCache, FindRow,
     DeleteEntry, SaveDeleted, Leaves, Tick, vars
<1>3. ASSUME NEW s \in Session, quiet'[s] # None
      PROVE  /\ s \in stored' /\ s \notin rows' /\ Filling(s)' = {}
             /\ \A v \in VirtualServer : cache'[v][s] # None => cache'[v][s] <= quiet'[s] + CacheTTL
  <2>1. CASE quiet[s] # None /\ quiet'[s] = quiet[s]
    <3>1. Kept(s)
      BY <2>1, KeptNext DEF StaleInv
    <3>2. /\ s \in stored
          /\ \A v \in VirtualServer : cache[v][s] # None => cache[v][s] <= quiet[s] + CacheTTL
      BY <2>1 DEF StaleInv, Ended
    <3>3. QED
      BY <1>2, <2>1, <3>1, <3>2 DEF Kept
  <2>2. CASE /\ quiet'[s] = now /\ now' = now
             /\ s \in stored /\ s \notin rows' /\ Filling(s)' = {}
    BY <1>1, <1>2, <2>2 DEF Bounded
  <2>3. QED
    BY <1>3, <2>1, <2>2, QuietNext
<1>4. Ended'
  BY <1>3 DEF Ended
<1>5. QED
  BY <1>1, <1>4 DEF StaleInv

LEMMA StaleAlways == Spec => [](TypeOK /\ StaleInv)
  BY TypeInit, TypeNext, StaleInit, StaleNext, PTL DEF Spec

\* Once a session's row is deleted and nobody is left who read it before, no cache
\* entry of it lives longer than CacheTTL.
THEOREM Stale == Spec => []StaleForCacheTTL
<1>1. StaleInv => StaleForCacheTTL
  BY DEF StaleInv, Ended, StaleForCacheTTL
<1>2. QED
  BY StaleAlways, <1>1, PTL

\* And no interleaving of requests brings it back.
THEOREM EndedStaysEnded == Spec => EndedForGood
<1>1. ASSUME TypeOK, StaleInv, [Next]_vars, NEW s \in Session, quiet[s] # None
      PROVE  /\ s \notin rows' /\ quiet'[s] = quiet[s]
             /\ \A v \in VirtualServer : Live(v, s)' => Live(v, s)
  <2>1. Kept(s) /\ quiet'[s] = quiet[s]
    BY <1>1, KeptNext, QuietNext DEF StaleInv
  <2>2. now' = now \/ now' = now + 1
    BY <1>1 DEF Next, RequestStep, NewSession, ReadCache, SaveNew, LoadRow, FillCache, FindRow,
       DeleteEntry, SaveDeleted, Leaves, Tick, vars
  <2>3. now \in Nat /\ now' \in Nat /\ now <= now'
    BY <1>1, <2>2 DEF TypeOK
  <2>4. ASSUME NEW v \in VirtualServer, Live(v, s)' PROVE Live(v, s)
    <3>1. cache'[v][s] = cache[v][s] /\ cache[v][s] # None /\ now' <= cache[v][s]
      BY <2>1, <2>4 DEF Kept, Live
    <3>2. cache[v][s] \in Nat
      BY <1>1, <3>1 DEF TypeOK
    <3>3. QED
      BY <2>3, <3>1, <3>2 DEF Live
  <2>5. QED
    BY <2>1, <2>4 DEF Kept
<1>2. TypeOK /\ StaleInv /\ [Next]_vars =>
        [\A s \in Session : quiet[s] # None =>
          /\ s \notin rows' /\ quiet'[s] = quiet[s]
          /\ \A v \in VirtualServer : Live(v, s)' => Live(v, s)]_vars
  BY <1>1
<1>3. QED
  BY StaleAlways, <1>2, PTL DEF Spec, EndedForGood
=============================================================================
