---------------------------- MODULE KeyRotation ----------------------------
(***************************************************************************)
(* The signing keys of the virtual servers: the shared key store, the      *)
(* background job that rotates its keys (internal/jobs/KeyRotateJob.go),   *)
(* and the commands that create a virtual server or change its signing     *)
(* algorithms (internal/commands/{Create,Patch}VirtualServer.go).          *)
(*                                                                         *)
(* The key store has no transactions and is not part of the database, so   *)
(* a run of the job and a command interleave at every store call.  A key   *)
(* is a record of its virtual server, its algorithm, its identity (kid)    *)
(* and its creation time; its two other times follow from the creation     *)
(* time.  Key material and the three store back ends are left out.         *)
(***************************************************************************)
EXTENDS Naturals, FiniteSets

CONSTANTS
    VirtualServer,  \* the names of the virtual servers
    Alg,            \* config.SupportedSigningAlgorithms
    Runner,         \* instances on which the rotation job may be active
    Admin,          \* commands that may be in progress at the same time
    None,
    RotateAfter,    \* 20 days in the code
    ExpireAfter,    \* 30 days in the code
    MaxRun,         \* environment: ticks of the clock one run of the job may span
    MaxTime,        \* bound on the clock
    MaxCommands,    \* bound on the number of commands
    MaxFaults       \* bound on the number of failures

ASSUME RotationAssumption ==
    /\ RotateAfter \in Nat \ {0} /\ ExpireAfter \in Nat
    /\ RotateAfter < ExpireAfter
    /\ {MaxRun, MaxTime, MaxCommands, MaxFaults} \subseteq Nat
    /\ None \notin VirtualServer \union Alg

VARIABLES
    now,         \* the clock service
    configured,  \* the committed rows: the algorithms of each virtual server,
                 \* {} for one that does not exist
    version,     \* xmin of those rows
    store,       \* the keys in the key store
    nextKid,     \* source of fresh key ids within one tick of the clock
    job,         \* [Runner -> the run in progress]
    command,     \* [Admin -> the command in progress]
    spent,       \* commands started and failures suffered so far
    planned,     \* history: clock of the last completed plan per algorithm
    purged       \* history: clock of the last completed purge

vars == <<now, configured, version, store, nextKid, job, command, spent,
          planned, purged>>

Key == [vs : VirtualServer, alg : Alg, kid : Nat, createdAt : Nat]
RotatesAt(k) == k.createdAt + RotateAfter
ExpiresAt(k) == k.createdAt + ExpireAfter

KeysOf(v, a) == {k \in store : k.vs = v /\ k.alg = a}

\* keyService.Generate: a fresh key, created now, is added to the store.
NewKey(v, a) == [vs |-> v, alg |-> a, kid |-> nextKid, createdAt |-> now]
Generate(v, a) ==
    /\ store' = store \union {NewKey(v, a)}
    /\ nextKid' = nextKid + 1

\* generateNewKeys: the algorithms of the snapshot none of whose keys is still
\* before its rotation, then the configured algorithms the snapshot lacks.
AlgsOf(keys) == {k.alg : k \in keys}
\* Mutant: one key due for rotation is enough to renew its algorithm.
Rotated_AnyKey(keys, t) == {k.alg : k \in {k \in keys : RotatesAt(k) <= t}}
Rotated(keys, t) ==
    {a \in AlgsOf(keys) : \A k \in keys : k.alg = a => RotatesAt(k) <= t}
\* Mutant: an algorithm without a key is not noticed.
Unseeded_Never(keys, algs) == {}
Unseeded(keys, algs) == algs \ AlgsOf(keys)

Never == [done |-> FALSE, at |-> 0]
At(t) == [done |-> TRUE, at |-> t]

NoRows == [v \in VirtualServer |-> {}]
IdleJob == [pc |-> "idle", started |-> 0, rows |-> NoRows, todo |-> {}, vs |-> None,
            snap |-> {}, doomed |-> {}, rotate |-> {}, seed |-> {}, at |-> 0]
IdleCommand == [pc |-> "idle", vs |-> None, algs |-> {}, base |-> 0,
                todo |-> {}, alg |-> None]

\* A deployment starts with an empty key store and any set of rows: none on the
\* first start, those of the database when a key store in memory was lost.
Init ==
    /\ now = 0
    /\ configured \in [VirtualServer -> SUBSET Alg]
    /\ version = [v \in VirtualServer |-> 0]
    /\ store = {} /\ nextKid = 0
    /\ job = [r \in Runner |-> IdleJob]
    /\ command = [p \in Admin |-> IdleCommand]
    /\ spent = [commands |-> 0, faults |-> 0]
    /\ planned = [v \in VirtualServer |-> [a \in Alg |-> Never]]
    /\ purged = [v \in VirtualServer |-> 0]

-----------------------------------------------------------------------------
(* The rotation job. *)

\* VirtualServers().List: the rows the whole run works from.
JobBegin(r) ==
    /\ job[r].pc = "idle"
    /\ job' = [job EXCEPT ![r] = [IdleJob EXCEPT
                 !.pc = "next", !.started = now, !.rows = configured,
                 !.todo = {v \in VirtualServer : configured[v] # {}}]]
    /\ UNCHANGED <<now, configured, version, store, nextKid, command, spent,
                   planned, purged>>

\* Mutants: the removal is due at the rotation time; only the orphans that have
\* expired are removed; no orphan is removed.
JobSnapshot_With(r, v, Doomed(_)) ==
    /\ job[r].pc = "next" /\ v \in job[r].todo
    /\ LET snap == {k \in store : k.vs = v}
       IN  job' = [job EXCEPT ![r] = [@ EXCEPT
                     !.pc = "delete", !.vs = v, !.snap = snap, !.at = now,
                     !.doomed = {k \in snap : Doomed(k)}]]
    /\ UNCHANGED <<now, configured, version, store, nextKid, command, spent,
                   planned, purged>>
JobSnapshot_Early(r, v) ==
    JobSnapshot_With(r, v, LAMBDA k : RotatesAt(k) < now \/ k.alg \notin job[r].rows[v])
JobSnapshot_Both(r, v) ==
    JobSnapshot_With(r, v, LAMBDA k : ExpiresAt(k) < now /\ k.alg \notin job[r].rows[v])
JobSnapshot_NoOrphans(r, v) ==
    JobSnapshot_With(r, v, LAMBDA k : ExpiresAt(k) < now)

\* keyStore.GetAll, and the clock deleteExpiredKeys is called with.  The keys to
\* remove are those of the snapshot that have expired or whose algorithm is not
\* in the row read at the beginning of the run.
JobSnapshot(r, v) ==
    /\ job[r].pc = "next" /\ v \in job[r].todo
    /\ LET snap == {k \in store : k.vs = v}
       IN  job' = [job EXCEPT ![r] = [@ EXCEPT
                     !.pc = "delete", !.vs = v, !.snap = snap, !.at = now,
                     !.doomed = {k \in snap :
                          ExpiresAt(k) < now \/ k.alg \notin job[r].rows[v]}]]
    /\ UNCHANGED <<now, configured, version, store, nextKid, command, spent,
                   planned, purged>>

\* keyStore.Remove, for the expired keys first, then for the orphans.
JobRemove(r, k) ==
    /\ job[r].pc = "delete" /\ k \in job[r].doomed
    /\ \/ ExpiresAt(k) < job[r].at
       \/ \A d \in job[r].doomed : ExpiresAt(d) >= job[r].at
    /\ store' = store \ {k}
    /\ job' = [job EXCEPT ![r] = [@ EXCEPT !.doomed = job[r].doomed \ {k}]]
    /\ UNCHANGED <<now, configured, version, nextKid, command, spent, planned, purged>>

\* The plan of generateNewKeys, made from the snapshot taken before the removals.
JobPlan(r) ==
    /\ job[r].pc = "delete" /\ job[r].doomed = {}
    /\ job' = [job EXCEPT ![r] = [@ EXCEPT
                 !.pc = "generate", !.at = now, !.snap = {},
                 !.rotate = Rotated(job[r].snap, now),
                 !.seed = Unseeded(job[r].snap, job[r].rows[job[r].vs])]]
    /\ purged' = [purged EXCEPT ![job[r].vs] = job[r].at]
    /\ UNCHANGED <<now, configured, version, store, nextKid, command, spent, planned>>

\* keyService.Generate, for the rotated algorithms first.
JobGenerate(r, a) ==
    /\ job[r].pc = "generate"
    /\ \/ a \in job[r].rotate
       \/ job[r].rotate = {} /\ a \in job[r].seed
    /\ Generate(job[r].vs, a)
    /\ job' = [job EXCEPT ![r] = [@ EXCEPT !.rotate = job[r].rotate \ {a},
                                           !.seed = job[r].seed \ {a}]]
    /\ UNCHANGED <<now, configured, version, command, spent, planned, purged>>

\* The virtual server is done: on to the next, or the end of the run.
JobAdvance(r) ==
    /\ job[r].pc = "generate" /\ job[r].rotate \union job[r].seed = {}
    /\ LET v == job[r].vs
           todo == job[r].todo \ {v}
       IN  /\ job' = [job EXCEPT ![r] = IF todo = {} THEN IdleJob
                        ELSE [IdleJob EXCEPT !.pc = "next", !.started = job[r].started,
                                !.rows = job[r].rows, !.todo = todo]]
           /\ planned' = [planned EXCEPT ![v] = [a \in Alg |->
                IF a \in job[r].rows[v] \intersect configured[v]
                THEN At(job[r].at) ELSE @[a]]]
    /\ UNCHANGED <<now, configured, version, store, nextKid, command, spent, purged>>

\* No virtual server exists: the loop of the job has nothing to do.
JobNothing(r) ==
    /\ job[r].pc = "next" /\ job[r].todo = {}
    /\ job' = [job EXCEPT ![r] = IdleJob]
    /\ UNCHANGED <<now, configured, version, store, nextKid, command, spent,
                   planned, purged>>

\* A store call fails, the job panics or its instance stops: the run ends and
\* the virtual servers it has not reached are left for the next run.
JobFail(r) ==
    /\ job[r].pc # "idle" /\ spent.faults < MaxFaults
    /\ job' = [job EXCEPT ![r] = IdleJob]
    /\ spent' = [spent EXCEPT !.faults = @ + 1]
    /\ UNCHANGED <<now, configured, version, store, nextKid, command, planned, purged>>

JobStep(r) ==
    \/ JobBegin(r) \/ JobPlan(r) \/ JobAdvance(r) \/ JobNothing(r)
    \/ \E v \in VirtualServer : JobSnapshot(r, v)
    \/ \E k \in job[r].doomed : JobRemove(r, k)
    \/ \E a \in job[r].rotate \union job[r].seed : JobGenerate(r, a)

-----------------------------------------------------------------------------
(* The commands. *)

\* HandleCreateVirtualServer: the row is tracked, then a key per algorithm.  The
\* name may be taken: nothing looks before the keys are in the store.
CreateBegin(p, v, algs) ==
    /\ command[p].pc = "idle"
    /\ spent.commands < MaxCommands
    /\ command' = [command EXCEPT ![p] = [pc |-> "create", vs |-> v, algs |-> algs,
                     base |-> version[v], todo |-> algs, alg |-> None]]
    /\ spent' = [spent EXCEPT !.commands = @ + 1]
    /\ UNCHANGED <<now, configured, version, store, nextKid, job, planned, purged>>

CreateGenerate(p, a) ==
    /\ command[p].pc = "create" /\ a \in command[p].todo
    /\ Generate(command[p].vs, a)
    /\ command' = [command EXCEPT ![p] = [@ EXCEPT !.todo = command[p].todo \ {a}]]
    /\ UNCHANGED <<now, configured, version, job, spent, planned, purged>>

\* HandlePatchVirtualServer: the row is read, changed and tracked; then each of
\* its algorithms without a key gets one.
PatchBegin(p, v, algs) ==
    /\ command[p].pc = "idle" /\ configured[v] # {}
    /\ spent.commands < MaxCommands
    /\ command' = [command EXCEPT ![p] = [pc |-> "check", vs |-> v, algs |-> algs,
                     base |-> version[v], todo |-> algs, alg |-> None]]
    /\ spent' = [spent EXCEPT !.commands = @ + 1]
    /\ UNCHANGED <<now, configured, version, store, nextKid, job, planned, purged>>

\* Mutant: the algorithm to generate for is not remembered.
PatchCheck_Forgets(p, a) ==
    /\ command[p].pc = "check" /\ a \in command[p].todo
    /\ command' = [command EXCEPT ![p] = [@ EXCEPT
                     !.todo = command[p].todo \ {a},
                     !.pc = IF KeysOf(command[p].vs, a) = {} THEN "generate" ELSE "check"]]
    /\ UNCHANGED <<now, configured, version, store, nextKid, job, spent, planned, purged>>

\* keyStore.GetAllForAlgorithm.
PatchCheck(p, a) ==
    /\ command[p].pc = "check" /\ a \in command[p].todo
    /\ command' = [command EXCEPT ![p] = [@ EXCEPT
                     !.todo = command[p].todo \ {a},
                     !.pc = IF KeysOf(command[p].vs, a) = {} THEN "generate" ELSE "check",
                     !.alg = a]]
    /\ UNCHANGED <<now, configured, version, store, nextKid, job, spent, planned, purged>>

PatchGenerate(p) ==
    /\ command[p].pc = "generate"
    /\ Generate(command[p].vs, command[p].alg)
    /\ command' = [command EXCEPT ![p] = [@ EXCEPT !.pc = "check"]]
    /\ UNCHANGED <<now, configured, version, job, spent, planned, purged>>

\* SaveChanges: a new row is written if its name is not taken, a changed one if
\* nobody wrote it since it was read; otherwise the command fails and the rows
\* stay as they are.
RowAccepted(c) ==
    IF c.pc = "create" THEN configured[c.vs] = {} ELSE version[c.vs] = c.base
SaveRow(p) ==
    LET c == command[p] IN
    IF RowAccepted(c)
    THEN /\ configured' = [configured EXCEPT ![c.vs] = c.algs]
         /\ version' = [version EXCEPT ![c.vs] = @ + 1]
         /\ planned' = [planned EXCEPT ![c.vs] =
                          [a \in Alg |-> IF a \in c.algs THEN @[a] ELSE Never]]
    ELSE UNCHANGED <<configured, version, planned>>

CommandSave(p) ==
    /\ command[p].pc \in {"create", "check"} /\ command[p].todo = {}
    /\ SaveRow(p)
    /\ command' = [command EXCEPT ![p] = IdleCommand]
    /\ UNCHANGED <<now, store, nextKid, job, spent, purged>>

\* The key store fails and the command returns an error.  The change of the row
\* is already tracked, and the scope's close handler saves what is tracked.
CommandFail(p) ==
    /\ \/ command[p].pc \in {"create", "check"} /\ command[p].todo # {}
       \/ command[p].pc = "generate"
    /\ spent.faults < MaxFaults
    /\ SaveRow(p)
    /\ spent' = [spent EXCEPT !.faults = @ + 1]
    /\ command' = [command EXCEPT ![p] = IdleCommand]
    /\ UNCHANGED <<now, store, nextKid, job, purged>>

\* The instance stops, or the database refuses the transaction.
CommandLost(p) ==
    /\ command[p].pc # "idle" /\ spent.faults < MaxFaults
    /\ spent' = [spent EXCEPT !.faults = @ + 1]
    /\ command' = [command EXCEPT ![p] = IdleCommand]
    /\ UNCHANGED <<now, configured, version, store, nextKid, job, planned, purged>>

CommandStep(p) ==
    \/ \E v \in VirtualServer, algs \in SUBSET Alg \ {{}} :
          CreateBegin(p, v, algs) \/ PatchBegin(p, v, algs)
    \/ \E a \in command[p].todo : CreateGenerate(p, a) \/ PatchCheck(p, a)
    \/ PatchGenerate(p) \/ CommandSave(p) \/ CommandFail(p) \/ CommandLost(p)

-----------------------------------------------------------------------------
Tick ==
    /\ now < MaxTime
    /\ \A r \in Runner : job[r].pc # "idle" => now < job[r].started + MaxRun
    /\ now' = now + 1 /\ nextKid' = 0
    /\ UNCHANGED <<configured, version, store, job, command, spent,
                   planned, purged>>

Next ==
    \/ Tick
    \/ \E r \in Runner : JobStep(r) \/ JobFail(r)
    \/ \E p \in Admin : CommandStep(p)

\* The scheduler keeps starting the job and a run keeps going; a command may
\* stop anywhere, and failures are finite, so runs succeed in the end.
Fairness == \A r \in Runner : WF_vars(JobStep(r))

Spec == Init /\ [][Next]_vars /\ Fairness

-----------------------------------------------------------------------------
Run ==
    [pc : {"idle", "next", "delete", "generate"}, started : Nat,
     rows : [VirtualServer -> SUBSET Alg], todo : SUBSET VirtualServer,
     vs : VirtualServer \union {None}, snap : SUBSET Key, doomed : SUBSET Key,
     rotate : SUBSET Alg, seed : SUBSET Alg, at : Nat]

Command ==
    [pc : {"idle", "create", "check", "generate"},
     vs : VirtualServer \union {None}, algs : SUBSET Alg, base : Nat,
     todo : SUBSET Alg, alg : Alg \union {None}]

RunsOK ==
    /\ job \in [Runner -> Run]
    /\ \A r \in Runner : job[r].pc \in {"delete", "generate"} => job[r].vs # None

CommandsOK ==
    /\ command \in [Admin -> Command]
    /\ \A p \in Admin :
          /\ command[p].pc # "idle" => command[p].vs # None
          /\ command[p].pc = "generate" => command[p].alg # None

TypeOK ==
    /\ now \in Nat /\ nextKid \in Nat
    /\ configured \in [VirtualServer -> SUBSET Alg]
    /\ version \in [VirtualServer -> Nat]
    /\ store \subseteq Key
    /\ RunsOK /\ CommandsOK
    /\ spent \in [commands : Nat, faults : Nat]
    /\ planned \in [VirtualServer -> [Alg -> [done : BOOLEAN, at : Nat]]]
    /\ purged \in [VirtualServer -> Nat]

-----------------------------------------------------------------------------
\* While the job keeps succeeding at least once per ExpireAfter - RotateAfter
\* (ten days in the code), every configured algorithm that a run has covered has
\* an unexpired key to sign with and to publish, whatever commands run meanwhile
\* (KeyRotateJob.go deleteOrphanKeys works from a row that may be stale).
KeyAvailable ==
    \A v \in VirtualServer : \A a \in configured[v] :
        /\ planned[v][a].done
        /\ now <= planned[v][a].at + (ExpireAfter - RotateAfter)
        => \E k \in KeysOf(v, a) : now <= ExpiresAt(k)

\* What a run promises about old keys: once its removals for a virtual server
\* are done, nothing in the store had expired when it began them, although keys
\* were added by other runs and commands meanwhile (deleteExpiredKeys).
ExpiredPurged == \A k \in store : purged[k.vs] <= ExpiresAt(k)

\* Rotation does not pile up keys: with one runner, an algorithm has at most one
\* unexpired key for each rotation period a key lives, the one in use, and one for
\* each command that generated keys meanwhile (generateNewKeys plans from a snapshot).
KeysDoNotPileUp ==
    \A v \in VirtualServer, a \in Alg :
        Cardinality({k \in KeysOf(v, a) : now <= ExpiresAt(k)})
            <= (ExpireAfter \div RotateAfter) + 1 + spent.commands

\* A configured algorithm that lost its key (an orphan removal from a stale row,
\* a failed command whose row was saved) gets one again, or is dropped.
KeylessRecovers ==
    \A v \in VirtualServer, a \in Alg :
        (a \in configured[v] /\ KeysOf(v, a) = {})
            ~> (a \notin configured[v] \/ KeysOf(v, a) # {})

\* The keys of an algorithm that an existing virtual server no longer has
\* disappear (those of one whose creation failed never do), although
\* generateNewKeys plans from the snapshot taken before the orphans were removed
\* and may renew the key of an orphan.
OrphansDisappear ==
    \A v \in VirtualServer, a \in Alg :
        (configured[v] # {} /\ a \notin configured[v])
            ~> (a \in configured[v] \/ KeysOf(v, a) = {})
=============================================================================
