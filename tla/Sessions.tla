------------------------------ MODULE Sessions ------------------------------
(***************************************************************************)
(* The sessions of signed-in users (internal/services/sessions.go behind   *)
(* internal/middlewares/SessionMiddleware.go): rows of the database, read  *)
(* through a cache in the key-value store.  A request looks its session up *)
(* in the cache, then in the database, and fills the cache; the end of a   *)
(* session deletes the cache entry, and the row when the request's scope   *)
(* is closed.  No transaction spans the two.                               *)
(***************************************************************************)
EXTENDS Naturals

CONSTANTS
    VirtualServer, Session, Request, None,
    Home,        \* the virtual server of each session
    CacheTTL,    \* fifteen minutes in the code
    MaxTime      \* bound on the clock

ASSUME SessionAssumption ==
    /\ CacheTTL \in Nat /\ MaxTime \in Nat /\ Home \in [Session -> VirtualServer]
    /\ None \notin Session \union VirtualServer \union Nat

VARIABLES
    now,
    rows,      \* the sessions in the database
    cache,     \* [VirtualServer -> [Session -> when the entry expires, or None]]
    known,     \* the sessions whose cookie was given to a browser
    request,   \* [Request -> the request in progress]
    stored,    \* history: the sessions that ever had a row
    quiet      \* history: [Session -> since when its row is deleted and no
               \*           request is left that read it before, or None]

vars == <<now, rows, cache, known, request, stored, quiet>>

Idle == [pc |-> "idle", vs |-> None, session |-> None]
At(q, pc) == request[q].pc = pc
Become(q, pc) == request' = [request EXCEPT ![q].pc = pc]
Leave(q) == request' = [request EXCEPT ![q] = Idle]

Live(v, s) == cache[v][s] # None /\ now <= cache[v][s]

\* The requests that read the row of s and have not yet filled the cache.
Filling(s) == {q \in Request : request[q].pc = "fill" /\ request[q].session = s}

\* The history variable quiet follows rows and request.
NoteQuiet ==
    quiet' = [s \in Session |->
        IF quiet[s] # None \/ s \notin stored \/ s \in rows' \/ Filling(s)' # {}
        THEN quiet[s] ELSE now]

Init ==
    /\ now = 0 /\ rows = {} /\ known = {} /\ stored = {}
    /\ cache = [v \in VirtualServer |-> [s \in Session |-> None]]
    /\ request = [q \in Request |-> Idle] /\ quiet = [s \in Session |-> None]

-----------------------------------------------------------------------------
\* Mutant: no cookie is given for the session.
NewSession_NoCookie(q, s) ==
    /\ At(q, "idle") /\ s \notin known
    /\ request' = [request EXCEPT ![q] = [pc |-> "insert", vs |-> Home[s], session |-> s]]
    /\ UNCHANGED <<now, rows, cache, known, stored, quiet>>

\* NewSession and CreateSession: the row is tracked and the cookie set, then the
\* row is saved; the browser may be faster.
NewSession(q, s) ==
    /\ At(q, "idle") /\ s \notin known
    /\ request' = [request EXCEPT ![q] = [pc |-> "insert", vs |-> Home[s], session |-> s]]
    /\ known' = known \union {s}
    /\ UNCHANGED <<now, rows, cache, stored, quiet>>

SaveNew(q) ==
    /\ At(q, "insert") /\ Leave(q)
    /\ rows' = rows \union {request[q].session} /\ stored' = stored \union {request[q].session}
    /\ UNCHANGED <<now, cache, known, quiet>>

-----------------------------------------------------------------------------
(* SessionMiddleware and GetSession, for the cookie of s presented to v. *)

\* Mutant: an entry that is used lives on.
ReadCache_Renews(q, v, s) ==
    /\ At(q, "idle") /\ s \in known
    /\ request' = [request EXCEPT ![q] =
          [pc |-> IF Live(v, s) THEN "signedIn" ELSE "load", vs |-> v, session |-> s]]
    /\ cache' = IF Live(v, s) THEN [cache EXCEPT ![v][s] = now + CacheTTL] ELSE cache
    /\ UNCHANGED <<now, rows, known, stored, quiet>>

ReadCache(q, v, s) ==
    /\ At(q, "idle") /\ s \in known
    /\ request' = [request EXCEPT ![q] =
          [pc |-> IF Live(v, s) THEN "signedIn" ELSE "load", vs |-> v, session |-> s]]
    /\ UNCHANGED <<now, rows, cache, known, stored, quiet>>

\* Mutant: the row is found whatever its virtual server.
LoadRow_AnyServer(q) ==
    /\ At(q, "load") /\ request[q].session \in rows
    /\ Become(q, "fill")
    /\ UNCHANGED <<now, rows, cache, known, stored, quiet>>

\* loadSessionFromDatabase: without a row the request goes on without a session.
LoadRow(q) ==
    /\ At(q, "load") /\ request[q].session \in rows /\ Home[request[q].session] = request[q].vs
    /\ Become(q, "fill")
    /\ UNCHANGED <<now, rows, cache, known, stored, quiet>>

FillCache(q) ==
    /\ At(q, "fill") /\ Become(q, "signedIn")
    /\ cache' = [cache EXCEPT ![request[q].vs][request[q].session] = now + CacheTTL]
    /\ UNCHANGED <<now, rows, known, stored>> /\ NoteQuiet

-----------------------------------------------------------------------------
(* OidcEndSession and DeleteSession, for the request's session.  If the row *)
(* is gone nothing else is done: an entry filled meanwhile stays.           *)
FindRow(q) ==
    /\ At(q, "signedIn") /\ request[q].session \in rows
    /\ Home[request[q].session] = request[q].vs
    /\ Become(q, "deleteEntry")
    /\ UNCHANGED <<now, rows, cache, known, stored, quiet>>

DeleteEntry(q) ==
    /\ At(q, "deleteEntry") /\ Become(q, "deleteRow")
    /\ cache' = [cache EXCEPT ![request[q].vs][request[q].session] = None]
    /\ UNCHANGED <<now, rows, known, stored, quiet>>

\* Mutant: what is deleted is the row of a session created anew from the cookie.
SaveDeleted_Requeues(q) ==
    /\ At(q, "deleteRow")
    /\ request' = [request EXCEPT ![q].pc = "insert"]
    /\ rows' = rows \ {request[q].session}
    /\ UNCHANGED <<now, cache, known, stored>> /\ NoteQuiet

SaveDeleted(q) ==
    /\ At(q, "deleteRow") /\ Leave(q)
    /\ rows' = rows \ {request[q].session}
    /\ UNCHANGED <<now, cache, known, stored>> /\ NoteQuiet

-----------------------------------------------------------------------------
\* The request is served, fails, or ends with its instance.
Leaves(q) ==
    /\ ~At(q, "idle") /\ Leave(q)
    /\ UNCHANGED <<now, rows, cache, known, stored>> /\ NoteQuiet

Tick ==
    /\ now < MaxTime /\ now' = now + 1
    /\ UNCHANGED <<rows, cache, known, request, stored, quiet>>

RequestStep(q) ==
    \/ \E s \in Session :
          NewSession(q, s) \/ \E v \in VirtualServer : ReadCache(q, v, s)
    \/ SaveNew(q) \/ LoadRow(q) \/ FillCache(q) \/ FindRow(q) \/ DeleteEntry(q)
    \/ SaveDeleted(q) \/ Leaves(q)

Next == Tick \/ \E q \in Request : RequestStep(q)

Spec == Init /\ [][Next]_vars

-----------------------------------------------------------------------------
States == {"idle", "insert", "load", "signedIn", "fill", "deleteEntry", "deleteRow"}
InProgress == [pc : States, vs : VirtualServer \union {None}, session : Session \union {None}]

TypeOK ==
    /\ now \in Nat /\ rows \subseteq stored /\ stored \subseteq known /\ known \subseteq Session
    /\ cache \in [VirtualServer -> [Session -> Nat \union {None}]]
    /\ quiet \in [Session -> Nat \union {None}]
    /\ request \in [Request -> InProgress]
    /\ \A q \in Request : request[q].pc # "idle" =>
          request[q].vs \in VirtualServer /\ request[q].session \in known

\* A session is cached and accepted only where it belongs, and only after its row
\* was saved: a cookie that is faster than the save is not accepted.
AcceptedAtHome ==
    /\ \A q \in Request : request[q].pc = "signedIn" =>
          request[q].session \in stored /\ Home[request[q].session] = request[q].vs
    /\ \A v \in VirtualServer, s \in Session : cache[v][s] # None => s \in stored /\ Home[s] = v

\* How stale the cache can be: once the row is deleted and no request is left that
\* read it before, the entry is gone within CacheTTL, however often it is used.
\* (The end of the session alone does not remove it: a request that read the row
\* earlier may fill the cache afterwards.)
StaleForCacheTTL ==
    \A v \in VirtualServer, s \in Session :
        quiet[s] # None /\ cache[v][s] # None => cache[v][s] <= quiet[s] + CacheTTL

\* A session that has ended everywhere stays so: no interleaving of requests
\* brings it back.
EndedForGood ==
    [][\A s \in Session : quiet[s] # None =>
          /\ s \notin rows' /\ quiet'[s] = quiet[s]
          /\ \A v \in VirtualServer : Live(v, s)' => Live(v, s)]_vars
=============================================================================
