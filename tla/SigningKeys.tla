---------------------------- MODULE SigningKeys ----------------------------
(***************************************************************************)
(* The keys the instances sign and verify with: keyService.GetKey in front *)
(* of the shared key store (internal/services/keys.go).  Every instance    *)
(* keeps one key per virtual server and algorithm in a cache of its own    *)
(* that nothing ever clears, and both the token endpoint and the checks of *)
(* presented tokens take the key from there.                               *)
(***************************************************************************)
EXTENDS KeyRotation

CONSTANT Instance  \* the processes of the deployment

VARIABLES
    cache,     \* [Instance -> [VirtualServer -> [Alg -> key or None]]]
    inflight   \* [Instance -> keys GetKey has read from the store but not cached yet]

allVars == <<vars, cache, inflight>>

EmptyCache == [v \in VirtualServer |-> [a \in Alg |-> None]]

SInit ==
    /\ Init
    /\ cache = [i \in Instance |-> EmptyCache]
    /\ inflight = [i \in Instance |-> {}]

\* A miss: GetAllForAlgorithm, of whose result the first key is taken.  The
\* order of the result is that of a map, a directory or a listing.
ReadKey(i, v, a) ==
    /\ cache[i][v][a] = None
    /\ \E k \in KeysOf(v, a) : inflight' = [inflight EXCEPT ![i] = @ \union {k}]
    /\ UNCHANGED <<vars, cache>>

\* cache.Put, which replaces the key a concurrent request may have put there.
PutKey(i, k) ==
    /\ k \in inflight[i]
    /\ cache' = [cache EXCEPT ![i][k.vs][k.alg] = k]
    /\ inflight' = [inflight EXCEPT ![i] = @ \ {k}]
    /\ UNCHANGED vars

\* The process restarts: the cache lives in its memory.
Restart(i) ==
    /\ cache' = [cache EXCEPT ![i] = EmptyCache]
    /\ inflight' = [inflight EXCEPT ![i] = {}]
    /\ UNCHANGED vars

SNext ==
    \/ Next /\ UNCHANGED <<cache, inflight>>
    \/ \E i \in Instance :
          \/ \E v \in VirtualServer, a \in Alg : ReadKey(i, v, a)
          \/ \E k \in inflight[i] : PutKey(i, k)
          \/ Restart(i)

SSpec == SInit /\ [][SNext]_allVars

-----------------------------------------------------------------------------
STypeOK ==
    /\ TypeOK
    /\ cache \in [Instance -> [VirtualServer -> [Alg -> Key \union {None}]]]
    /\ inflight \in [Instance -> SUBSET Key]

\* The keys an instance has in hand.
KeysInUse(i) ==
    inflight[i] \union
    ({cache[i][v][a] : v \in VirtualServer, a \in Alg} \ {None})

\* As long as no command changes the algorithms, a key that an instance signs
\* with stays published until its expiry, through rotations, concurrent runs of
\* the job and restarts (JWKS lists the store, GetKey reads the cache).
PublishedUntilExpiry ==
    \A i \in Instance : \A k \in KeysInUse(i) : k \notin store => ExpiresAt(k) < now
=============================================================================
