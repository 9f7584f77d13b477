# Keyline in TLA+

Keyline is an identity provider: virtual servers (tenants) with users,
applications, roles and projects, an OpenID Connect interface with
authorization code, refresh token, device code and token exchange grants, an
interactive login, sessions, and background jobs that rotate the signing keys
and send mail. This directory holds TLA+ models of the parts where several
requests, jobs or instances meet over stores that offer no common transaction,
the TLC configurations that check them on small instances, and proofs, checked by
TLAPS, of the safety properties for every instance.

Paths below are relative to the repository. Definitions carry the names of the
code where TLA+ allows it; `PROJECT.json` lists the lines each one stands for.

- [Inventory](#inventory): the parts of the system
- [Modules](#modules): what models what, and how
- [Runs](#runs): what is checked, with which bounds
- [Fairness](#fairness)
- [What is proved](#what-is-proved)
- [Where code and text differ](#where-code-and-text-differ)
- [Observations](#observations)
- [Not modelled](#not-modelled)
- [Plan](#plan)

## Inventory

| Part | State | Operations | Meets | Hard because |
|---|---|---|---|---|
| Signing key rotation (`internal/jobs/KeyRotateJob.go`, `internal/services/keys.go`) | the key store (memory, directory or OpenBao): keys with creation, rotation and expiry time | one run: list the virtual servers, snapshot, delete expired and orphaned keys, generate; commands generate keys too | the commands on virtual servers; the key cache; the leader election | no transaction, lists that are stale when used, two leaders for a while |
| Key cache (`services/keys.go` GetKey) | one key per virtual server and algorithm, per instance | read through | key store; every signature and every check of a token | nothing ever clears it |
| Token endpoint (`internal/handlers/oidc.go`, `services/tokens.go`) | codes and refresh tokens in the key-value store | authorize, exchange, refresh | sessions, applications, signing keys | read, issue and delete are separate calls; a request may fail between any two |
| Device grant (`handlers/oidc.go`, `handlers/login.go`) | device codes, user codes | begin, activate, poll; finish of a login | interactive login | values read earlier are written back; two logins for one device |
| Interactive login (`handlers/login.go`) | login sessions in the key-value store, with step and count of wrong passwords | one handler per step | users, credentials, sessions | overlapping requests for one login token; rows saved after the response |
| Sessions (`services/sessions.go`, `middlewares/SessionMiddleware.go`) | rows, cache entries in the key-value store, cookies | create, look up, end | login, authorize, end of session | cache and row change at different times |
| Unit of work (`internal/database/postgres/context.go`, `internal/change`, `behaviours/SaveChangesBehaviour.go`, `setup/database.go`) | tracked changes of one request; the rows | track, save, save at the close of the scope | every command and handler | two saves, of which either may fail; a failure at the close ends the process |
| Users and mail verification (`commands/{RegisterUser,CreateUser,VerifyEmail,PatchUser}.go`, `events/usercreated.go`) | user rows, verification tokens | register, verify, change, send again | unit of work, key-value store, outbox | the change spans database, key-value store and mail |
| Outbox and jobs (`jobs/OutboxJob.go`, `jobs/JobRunner.go`, `services/outbox`) | mails waiting in the outbox | list, deliver, remove | leader election, mail server | delivery and removal are apart |
| Leader election (`internal/quorum`, `cmd/api/main.go`, `jobs/JobRunner.go`) | leadership as seen by each instance, its job managers and their goroutines | callbacks on every change; start, execute, stop | jobs | callbacks are goroutines that may overtake each other; a stop does not wait |
| Data model and repositories (`internal/repositories`, `internal/change`, `internal/database`) | per kind of entity: fields, changes tracked, tables | filter, list, insert, update, delete, on PostgreSQL or in memory | every command and query | each kind is written by hand, twice: a column, filter or field forgotten in one place |
| Administration (`internal/commands`, `internal/queries`) | virtual servers, applications, projects, roles, resource servers, scopes, password rules, service users, metadata | create, patch, delete, get, list | policies, unit of work, key store | tenants share the tables; one row is checked against another that may change before the save; a handler may fail half way |
| Policies and audit (`behaviours/PolicyMiddleware.go`, `internal/authentication`, `services/audit`) | roles of the caller; audit entries | allow or refuse a command, log it | every command | the entry is saved after what it tells of |
| Token exchange, user info, claims | none | verify and answer | signing keys, users | verify with a cached key |
| Password rules (`internal/password`) | rows of rules | check a password | registration, reset | arithmetic on strings |
| Key-value store (`services/keyValue`) | entries with an expiry | set, get, delete | everything that keeps tokens | expiry |
| Memory database (`internal/database/memory`, `internal/repositories/memory`) | objects shared by pointer | as the PostgreSQL context | tests, single instances | fewer guarantees than PostgreSQL |
| HTTP server, mediator, metrics, templates, configuration, client library | none that decides anything | | | |

What makes each part correct, in a line:

- *Rotation*: a configured algorithm always has an unexpired key while runs
  succeed; expired keys and keys of dropped algorithms go; keys do not pile up.
- *Key cache*: what an instance signs with is published.
- *Token endpoint*: a grant belongs to the client, server, user, redirect URI
  and verifier its token was issued for; a token is spent once; rotation
  invalidates.
- *Device grant*: tokens for the flow and the user that was approved, once.
- *Login*: no session without proof of identity and without every step called
  for; the cap on wrong passwords holds; a burned token stays burned.
- *Sessions*: accepted only at home and after the save; an ended session stops
  being accepted and never comes back.
- *Unit of work, registration, outbox*: verified means verified; a user is
  saved with its mail; no mail is lost; a failure hits one request.
- *Leader election*: the running manager is the one of the last change; a leader
  goes on working, a former leader comes to rest.
- *Administration*: rows refer to rows of their own tenant; a request changes
  and a query shows nothing of another tenant; administrators cannot reach what
  makes them administrators; what is stored is what was tracked; a refused
  request changes nothing; the audit log tells what happened.

## Modules

All modules are plain TLA+ with one action per step that another process can
observe: a call of a store, a read of a row, the save at the end. What happens
between two such calls is one action. Handlers are processes: records with a
program counter `pc` and the values the handler holds in local variables,
`idle` when there is none. A request that may fail or lose its instance at any
point has an action `Abandon`, `Leaves` or `CommandFails` that is enabled in
every state. History variables (marked in the modules) are read by properties
only, never by a guard of the code.

| Module | Models | State and its code |
|---|---|---|
| `KeyRotation` | key store, rotation job, the key-generating commands | `store` the key store; `configured`, `version` the committed rows and their `xmin`; `job[r]` a run (`rows`, `snap`, `doomed`, `rotate`, `seed` are the local variables of `KeyRotateJob`); `command[p]` a Create- or PatchVirtualServer; `now` the clock service. `JobBegin`, `JobSnapshot`, `JobRemove`, `JobPlan`, `JobGenerate`, `JobAdvance` follow the job call by call |
| `SigningKeys` | `keyService.GetKey`; EXTENDS `KeyRotation`, so the cache runs over the rotating store | `cache[i]` the cache of instance i; `inflight[i]` keys read but not yet cached |
| `OneTimeToken` | abstract: what the token endpoint promises of its tokens | `state` unissued, live or spent; `holders`; `granted` |
| `TokenGrants` | authorize with a session, `handleAuthorizationCode`, `handleRefreshToken`, token service; applications created, deleted and their names reused | `issued[t]` the value stored under t; `stored` which are; `request[q]` a request at the endpoint, `known` the tokens that a client received |
| `DeviceFlow` | `BeginDeviceFlow`, activation, poll, and the device part of `FinishLogin` | `deviceCodes`, `userCodes`, `logins`: three kinds of entry of the key-value store |
| `LoginFlow` | all handlers of the login, `DetermineNextLoginStep`, `updateLoginStep`, the cap on wrong passwords, `FinishLogin` with the deferred save | `logins` the entries; `handler[h]` a request with the copy (`info`) it read. A wrong password is compared (`WrongPassword`) and counted (`CountAttempt`, `CountFails`) in two steps, as the comparison and the store's call are |
| `Sessions` | `SessionService` behind `SessionMiddleware`, end of session | `rows`; `cache[v][s]` the expiry of the entry; `request[q]` |
| `Entities` | package `repositories`: per kind the fields of its constructor, their defaults, its setters (which track changes) and the conditions of its filter | constants, one definition per part of a kind's file |
| `PostgresRows`, `MemoryRows` | the two implementations of each repository: columns selected and the fields they are scanned into, conditions turned into `WHERE`, columns inserted and updated; conditions compared in memory | constants, one per repository and operation |
| `Schema` | the migrations: unique columns, references, a default | constants, one per table |
| `Repositories` | lookups, change tracking and `SaveChanges` over the four catalogues, for both back ends | `db` the rows, deleted ones kept as not live since a handler may still hold the object; `backend` |
| `Queries` | the queries of the administration interface as the sets of rows they may answer | operators over `db` |
| `Administration` | `PolicyBehaviour`, all commands of the administration interface, `SaveChangesBehaviour`, the audit entry and the close of the scope | `unit[u]` a request: `seen` the virtual server cached for the request, `work` its change tracker; `keys` the key store; `up` |
| `Leadership` | the watcher of the election, the callback of `main.go`, `JobRunner.go` | `raft[i]`, `prev[i]` the state of the Raft node and the one last seen; `callbacks[i]` goroutines of the callback; `managers[i]`, `current[i]` the managers made and the shared variable |
| `UnitOfWork` | tracking and the two saves, commands on users, verification mail, outbox job, crash, exit and restart of instances | `row`, `outbox` the database; `tokens` the key-value store; `request[q].tracked` the change tracker; `job[i]` the run of the outbox job; `up` the processes |

Composition: `SigningKeys` extends `KeyRotation`; `TokenGrants` instantiates
`OneTimeToken` under a refinement mapping; `UnitOfWork` composes the commands,
the database context, the event handler and the outbox job; `Administration`
extends `Queries`, which extends `Repositories`, which extends the catalogues,
so that a command and a query run over what the repositories, as they are
written, do with a row. `DeviceFlow` and
`LoginFlow` share the entry of a login: the steps of a login are one action
(`SignIn`) in `DeviceFlow`, and the device is absent from `LoginFlow`.

Abstractions that recur. Hashes, secrets, redirect URIs, PKCE verifiers and
cookies are compared for equality only, so they are model values, and a secret
is presented only by someone who was given it. Expiry is a clock that ticks
between any two steps; an entry is found while `now` is at most its expiry, as
in `IsExpired` of the memory store. Durations keep their order, not their
length: 20 and 30 days become 2 and 3. The signed tokens carry nothing that a
later decision in these modules reads.

The names ending in a suffix such as `_AnyClient` or `_KeepsCode` are variants
of the action they precede with a plausible mistake in it. They occur in no
specification; each breaks the property it is listed with in `PROJECT.json`,
which shows that the run would notice that mistake.

## Runs

`tlc -workers 2 -config X.cfg MCModule`. Deadlock is not checked where the
system may come to rest: every bounded model ends when the clock and the
identities are used up. `UnitOfWork_exit` needs no such line, it ends with its
counterexample.

| Run | Question | Bounds, and why they are enough |
|---|---|---|
| `keys` | Do the job and a command that changes algorithms, interleaved at every store call, keep a usable key (`KeyAvailable`) and not pile keys up (`KeysDoNotPileUp`)? Does a lost key come back (`KeylessRecovers`), do the keys of a dropped algorithm go (`OrphansDisappear`)? Partly temporal, so without symmetry | one server with two algorithms, one runner (overlapping runs are `signing_static`'s question), one command of any kind and one failure at any call; keys rotate after one tick and expire after two, so that in the three ticks keys are renewed, overlap and expire; a run is over before the next tick. Runs that span a tick are those of `signing_static` and of the proofs. 746,351 states |
| `signing_static` | With fixed algorithms, is a key in use published until it expires, over two overlapping runs (`PublishedUntilExpiry`)? Does a purge leave nothing expired (`ExpiredPurged`)? | two runners; one algorithm, as keys of different algorithms never meet without commands; four ticks |
| `grants` | Does every grant belong to what was issued (`GrantBinding`, `ClientContinuity`), does rotation invalidate (`RotationInvalidates`), does the endpoint implement `OneTimeToken` (`OneTime`)? | two virtual servers with a client of one name, three applications so that a name is reused, three tokens (a code, a refresh token, its successor), two requests that may hold the same token; tokens expire at the tick |
| `device_flow` | Tokens only for the flow and user approved (`GrantAuthorized`), once unless handlers overlap (`RedeemedOnce`); a user of another server is approved only where an application of the client's name exists there, device flow enabled or not (`ForeignUserByName`) | two devices that may draw the same user code, two logins, two users, two handlers at once |
| `login_flow` | Is every session for a user who presented a password or a passkey (`UserProved`), however requests overlap? Without overlap, is every step called for taken (`StepsTakenInTurn`), are no more wrong passwords checked than the cap and those the store did not count, and is a deleted token gone (`BurnedForGood`)? | one login token (logins share users' rows only, which `VerifyEmail` and `InitialUsers` change), two requests on it, a user with any combination of the three flags of its row beside a verified one with a passkey; a cap of two, one wrong password whose count fails, and that only while requests do not overlap (`FailsAlone`), since with overlap only `UserProved` is left, which does not read the count. 4,512,594 states |
| `login_steps` | Violation: overlapping requests skip a step | as in `login_flow` |
| `sessions` | `AcceptedAtHome`, `StaleForCacheTTL`, `EndedForGood` | two sessions, presented at either of two servers, three requests (one that ends the session, one that read its row, one that uses the cache), entries live two of six ticks so that they expire and are filled again |
| `unit_of_work` | What is saved when a command or a save fails, and is mail lost? | two users of one name (a save that must fail), two requests, one change, one failing call or crash anywhere, one instance |
| `exit_on_conflict` | Violation: a conflict ends the instance, without any fault | two instances |
| `administration` | Are tenants apart in what is stored, changed and answered (`TenantsApart`, `ChangesStayInTenant`, `AnswersStayInTenant`)? Is what is stored what was checked and tracked (`SavedAsTracked`, `AlgorithmOffered`, `RefusedChangesNothing`, `AuditTrail`), are administrators' rights out of reach (`SystemProjectKept`), is a new server complete and has every key its server (`NewServerComplete`, `KeysHaveServer`)? | two virtual servers that look alike; one request that makes every call (on its own rows, on rows of the other server, on the system project, at a server that does not exist, without the privilege, a new server with and without an administrator) and a rival with eight calls on the same rows; both back ends; one failure of the key store or of a transaction. A third request would meet no row the two do not. 59,570 states |
| `leadership` | Does the running manager follow the leadership (`ManagerFollowsLeadership`), does a leader work (`LeaderWorks`) and a former leader come to rest (`FollowerIdle`)? | two instances, so that leadership moves and comes back; one job, as jobs do not meet; three changes (gain, loss, gain again), one crash; with and without Raft |
| `leadership_overtaken` | Violation: callbacks that overtake each other leave the jobs to an instance that does not lead | one instance, two changes, no crash |

`TypeOK` is an invariant of `keys` and `sessions`, the first models. Where it is
not listed with a run it is proved.

Symmetry is used for identities the specification never distinguishes, in runs
of invariants and of properties of single steps; not in the runs of liveness.

## Fairness

- `KeyRotation`: weak fairness of `JobStep(r)`. `JobRunner.startJob` starts the
  job at every tick of its ticker and `executeJob` recovers from a panic, so a
  run that can go on does, and another follows. Commands have none: a request
  may stop anywhere. Failures are bounded by `MaxFaults`; with failures for
  ever nothing is promised.
- `UnitOfWork`: weak fairness of `StartRun`, of delivering a message, of
  `EndRun` and of `Restart`. The first three are the job runner's; the last is the
  supervisor (container orchestrator) of the deployments the repository
  describes. Requests have none. Failures and crashes are bounded; exits from
  conflicts are not faults but consequences and are bounded by the ids of users
  and `MaxPatches`.
- `Leadership` (`FairSpec`): weak fairness of the watcher, which polls every
  200 ms; of a pending callback, which waits for nothing but a short lock; of a
  job's execution (its ticker fires) and of its end (a job that panics is
  recovered; that it returns is assumed, the two jobs wait only for calls with
  an end); strong fairness of a cancelled job's goroutine leaving, because `select`
  picks one of several ready cases at random, so not the ticker for ever; of an
  election being decided and of a replaced leader stepping down, which is Raft's.
  Elections are not forced to happen and crashes have no fairness.
- The other specifications state safety and have no fairness.

## What is proved

TLAPS proves, for any sets of servers, algorithms, runners, users, tokens,
instances and requests and for any bounds, that every behaviour of the
specification has these properties. A component's theorems are in the module
named after it (those of `KeyRotation` in `SigningKeysProofs`); all eight modules
prove type correctness too (`Typing`, `CacheTyping`, `AdministrationTyping`). The
inductive invariants of `Administration`, and the predicates they are made of, are a
module of their own, `AdministrationInvariant`.

| Theorem | Says, for every instance of the model |
|---|---|
| `SigningKeysProofs!Purged` | `ExpiredPurged`: when a run has purged a server, nothing that had expired when it began is left; any number of runners |
| `SigningKeysProofs!Available` | `KeyAvailable`, with one runner |
| `SigningKeysProofs!NotPiledUp` | `KeysDoNotPileUp`, with one runner |
| `SigningKeysProofs!Published` | `PublishedUntilExpiry`, without commands; any number of runners and instances |
| `SessionsProofs!Accepted` | `AcceptedAtHome` |
| `SessionsProofs!Stale` | `StaleForCacheTTL` |
| `SessionsProofs!EndedStaysEnded` | the action property `EndedForGood` |
| `TokenGrantsProofs!Binding` | `GrantBinding` |
| `TokenGrantsProofs!Continuity` | `ClientContinuity` |
| `TokenGrantsProofs!Rotation` | `RotationInvalidates` |
| `TokenGrantsProofs!Implements` | the refinement `OneTime`: `TokenGrants` implements `OneTimeToken` |
| `TokenGrantsProofs!Spent` | what `OneTimeToken` concludes of it, `GrantedIsSpent`, under the refinement mapping |
| `LoginFlowProofs!Proved` | `UserProved` |
| `LoginFlowProofs!Steps` | `StepsTakenInTurn` |
| `LoginFlowProofs!Cap` | `BurnedForGood` |
| `DeviceFlowProofs!Authorized` | `GrantAuthorized` |
| `DeviceFlowProofs!Once` | `RedeemedOnce` |
| `DeviceFlowProofs!Foreign` | `ForeignUserByName` |
| `UnitOfWorkProofs!Verified`, `UserExists` | `VerifiedByMail`, `VerifiedUserExists` |
| `UnitOfWorkProofs!Registered` | `RegisteredWithMail` |
| `UnitOfWorkProofs!NoMailLost` | the action property `MailKept` |
| `LeadershipProofs!Following` | `ManagerFollowsLeadership` |
| `AdministrationProofs!TenantsStayApart` | `TenantsApart`: no row comes to refer to a row of another virtual server |
| `AdministrationProofs!ChangesStay` | the action property `ChangesStayInTenant` |
| `AdministrationProofs!AnswersStay` | `AnswersStayInTenant`, for every query of the administration interface; for `ListUsersInRole` when it is asked for a role of its server |
| `AdministrationProofs!SystemProjectStays` | the action property `SystemProjectKept`: the roles of a system project, who has them, and of its application that it stays, its script and its redirect addresses |
| `AdministrationProofs!SavedIsTracked` | the action property `SavedAsTracked` |
| `AdministrationProofs!RefusedChangeNothing` | `RefusedChangesNothing` |
| `AdministrationProofs!AlgorithmsOffered` | `AlgorithmOffered` |
| `AdministrationProofs!NewServersComplete` | `NewServerComplete`; an administrator is part of it where the command names one |
| `AdministrationProofs!KeysAreForServers` | `KeysHaveServer` |
| `AdministrationProofs!AuditTrailKept` | `AuditTrail`, for the operations that are policies |

### Assumptions

The constants' assumptions are `RotationAssumption` (rotation before expiry, the
one fact about durations the code needs), `SessionAssumption`,
`GrantAssumption`, `LoginAssumption`, `DeviceAssumption`, `UnitAssumption` and
`LeadershipAssumption`. They give constants their types and say that `None`,
which stands for an absent value, is none of the values present. TLC evaluates
each of them in its run.

`Administration` has five. `AdministrationAssumption` gives the constants their
types. `InitialRowsAssumption` is about the database at the start: rows have the
columns of their table, references find a row of the table they refer to, tenants
are apart, and on PostgreSQL no two rows share a unique column (`Distinct`), as the
constraints of the migrations say. `InitialKeysAssumption`, which only
*KeysAreForServers* uses, says that a key at the start is of a server that is there. `CallsAssumption` says what the HTTP handlers
make sure of: a command carries the values of its fields and no others, and the
caller is a user. `OffersAssumption`, which only *AlgorithmsOffered* uses, says that the
property it is about holds at the start. The rest of the proof holds for any rows, any number of virtual
servers, any calls and any failures.

Three theorems have a hypothesis, each because the property is false without it:

- `OneRunner` (`Available`, `NotPiledUp`): the job runs on one instance, which is
  what the leader election is for. With two, one run's stale list may remove
  what the other generated, and both may generate the key that is due.
- `NoCommands` (`Published`): no command creates a server or changes its
  algorithms. With a change of algorithms the job removes unexpired keys of the
  algorithm dropped while tokens signed with them are still about; the property
  says in its comment that it is about fixed algorithms.

### Arguments

None of the invariants is inductive as it stands. Each was strengthened, the
strengthening was checked by TLC on the constants of its run (those that are
new since the first proofs: up to 4.8 million states), and then proved.

*Purged.* `ExpiredPurged` says nothing of a removal in progress. `PurgeInv` adds
that no key is younger than the clock and `Purging(r)`: while a run removes
keys, every key of its virtual server that had expired when it began is still
among the `doomed`. A key added meanwhile is younger than the run and cannot
have been expired; so when `doomed` is empty the store holds none.

*Available.* `AvailInv` follows one virtual server through a run.
`PlannedConfigured`: an algorithm that counts as covered was in the rows the run
in progress read, which is where a stale row is ruled out. `Removing`: what is
doomed is expired or of an algorithm the run did not read, so never the fresh
key of a covered one. `Renewing`: between plan and generation, each algorithm
has a key beyond its rotation or is on the list to get one. `Covered`: a covered
algorithm has, for `ExpireAfter - RotateAfter` after its plan, an unexpired
key, because a key not due for rotation at the plan lives that much longer.

*NotPiledUp.* The property counts keys, which no single key tells anything of.
`PileInv` splits the keys of an algorithm: there is a set `J` of keys the job
added, which are `Spaced` a rotation period apart, and every other key was paid
for by a command, which counts once for each of its algorithms (`Budget`: keys
outside `J` and keys still owed are together no more than the commands spent).
`Aware` says why the job keeps `J` spaced: between snapshot and generation it
has seen all of `J`, and plans a key only when each of `J` is due. That
unexpired keys spaced so are few is `FewInRotation`, by mapping each to the
period it was created in. Two runners would each add the same key, which is
where `OneRunner` comes in.

*Published.* `RowsInv`: with fixed algorithms, each run works from the rows as
they are, so that every key is of an algorithm offered, and what a run has
doomed had expired, however old its snapshot and whatever other runs did.
`InUseInv`: a key in a cache or on its way into one is in the store or has
expired.

*Accepted.* `AtHome` adds to the invariant the requests between finding the row
and filling the cache.

*Stale, EndedStaysEnded.* `StaleInv` is `InsertedOnce` (a session's row is
inserted by one request, before it was ever stored), `Bounded` (no entry
lives beyond `now + CacheTTL`) and `Ended` (an ended session was stored, has no
row, nobody who read it is left, and its entries are bounded by the moment it
ended). `KeptNext`: no step gives such a session a row, a reader or a newer
entry. `EndedForGood` follows step by step from the same lemma.

*Binding, Continuity, Rotation.* `GrantInv` has two parts beside `OnePlace` (an
application has one name in one server) and `IssuedFirst`. `Grounded(t)`: the
application of a token is nowhere but where it was when the token was issued,
and a refresh token agrees with what it was granted for. `Established(q)`: what
a request in progress knows of the token it presented, check by check; above
all, that the application looked up again after the deletion (`load`) is the
one that was checked, or that one is `Gone` and its name was given to another.

*Implements.* A token is unissued, live while the endpoint would find it, and spent
after; its holders are the requests in progress that present it. `MapNext` takes
the actions one by one: reading a token is `Take`, its deletion and its expiry
`Spend`, the response `Grant`, a failed check or a lost instance `Drop`; the other
steps stutter. That a request that responds holds a spent token, which `Grant`
asks for, is where `GrantInv` is needed: `Established` says that the token it
presented is no longer stored, whatever other requests do. `Spent` follows from the
part of `GrantInv` that says so of every token granted.

*Proved, Steps, Cap.* Each copy of a login, in the store or read by a handler, is
`Sound`: it names only a user for whom a password or a passkey was passed.
While no two requests were made for the login (it is not `shared`), one handler
at most is busy with it (`Solo`), and its copy is `InTurn`: the steps before the one it
is at were taken, as the rows say, where a row only changes towards fewer steps
(`Better`). `HandlerInv` says this for every point of a handler. The wrong
passwords checked so far are at most the count stored, those whose count the
store did not take, and the one a handler is about to count; a burned login has
no handler left that could finish it.

*Authorized, Once, Foreign.* Each copy of a device code is `Genuine`: for the server
and the client the flow was begun with, and authorized only for a user who
approved. `Named`: a login can only be opened, and so a user only be approved,
where an application has the name of the flow's. While the code is not
`shared`, `Solo` holds, and a code in the store was not redeemed.

*Verified, UserExists, Registered, NoMailLost.* `UnitInv` follows the change
tracker of a request from operation to operation: `Registering` says that a
registration tracks its mail together with its user and that no other request
inserts or announces that user (`OneRegistration`), `Changing` that the other
commands act on a row that was there. `Sent`: a run of the job removes nothing
that it has not delivered. A save applies all of a tracker or nothing, which is
lemma `ApplySaves`. `MailKept` follows from `Sent`, since rows leave the
outbox only at the end of a run.

*Following.* `LeadInv` says of an instance whose callbacks never overlapped that
its managers are `Settled` (the current one runs just when the instance leads)
or `Changing` (one callback is on its way, and either the old manager has
still to be stopped or the new one to be started). Sequences of managers and
callbacks are handled by `Replaces`, `Extends` and `Shortens`, so that no step
of the proof looks into `Append` or `EXCEPT`.

*Administration.* Everything rests on `AdminInv` (in `AdministrationInvariant`), which says three things. The rows
are `Sound`: complete, whole and apart, and distinct on PostgreSQL. What a request
tracks fits them (`WorkFits`): an insertion has a new id and refers, within the home
of the request, to rows that are there or that an earlier entry of the same tracker
inserts; an update carries the fields of the row as it was read, changed where a
setter changed it, and a version that is at most the row's; a deletion is of a kind
that can be deleted. And what a request has seen of its virtual server is of that
server.

The hard part is that between a handler and its save other requests change the rows.
`Evolves` says how rows may change: none disappears, none changes its kind or a
field no setter sets, versions only grow, and only rows of the kinds that have a
delete operation stop being live. `EntryStays` carries what was tracked across
such changes; `SavedWork` follows `SaveChanges` entry by entry, where each entry is
executed in the rows its predecessors left; and one lemma for each handler shows that what it tracks fits (`Legit`). `StepReaches` concludes that every step
of the system evolves the rows, soundly.

From there each property is a question about one entry. *TenantsStayApart* is a part
of `Sound`. *ChangesStay*: the row an entry is about is at the request's home.
*SystemProjectStays*: no entry is about a role, an assignment or the application of
a system project (`MayChange`, `GrantsNothing`), unless it creates it with the
project; that a handler's check still holds at the save is where a field that no
setter sets (`systemProject`) is needed. *SavedIsTracked*: a later entry of the
same tracker does not write the row again, and an update has the version that was read, so
that what it leaves alone is what the request saw. *AuditTrailKept* follows from
the ids of the entries, for the operations that are not `Unchecked`. *AnswersStay*: each query is either restricted to the server,
or to a row (a role, a user, an application) found in it, and then what refers to that row is
`Apart` with it. *RefusedChangeNothing*: a refused
request still has its one entry in the tracker, and the close of the scope saves
it again. `StuckStays` says that an entry that could not be executed never can be: a unique
value stays taken, a dead row stays dead, a version grows. Of an application's name it
is false, and that is an observation below. *NewServersComplete*: `CreationOK` says
that the request tracks (`Tracks`) or has stored (`Furnished`) all that the server
needs, key by key and row by row, with the administrator if there is one (`Admins`), and has generated the keys (`Keyed`). A transaction
turns what is tracked into what is stored (`TracksFurnishes`); one that is lost leaves it in the tracker,
and the close of the scope stores it then. What is stored stays, since no
request reaches the roles and assignments of a system project (`FurnishedStays`).
*KeysAreForServers*: as long as nothing has failed, a key is for a server that is stored
(`Borne`), or for one whose row is the first entry of a tracker (`Pending`). Each other
entry of that tracker refers only to rows that earlier ones insert, and what is unique in it
contains such a reference, or a null (`Linked`), so that nobody else's row can be in its way:
the transaction fails at its first statement or not at all (`WorkLasts`). If it fails, no entry counts as
executed, the close of the scope repeats it, and a second failure ends the process. With
an entry that was executed before, the close would panic, the process would go on, and the
keys would stay without a server.

### What stays with TLC

- Liveness (`KeylessRecovers`, `OrphansDisappear`, `MailDelivered`, `LeaderWorks`,
  `FollowerIdle`): the prover has no ENABLED and so no fairness.
- `EveryStepTaken`, `InstancesStayUp` and `OnlyLeaderWorks`, which the three runs that
  expect a violation refute.

## Where code and text differ

Each is a run that TLC must find violated.

1. `login_steps`: `login.go:87` "DetermineNextLoginStep decides what the next
   login step should be". `updateLoginStep` reads the token again and advances
   whatever step it finds: two overlapping requests skip one.
2. `exit_on_conflict`: `utils/errors_test.go:60` expects a panic;
   `PanicOnError` ends the process once the logger is set up, and a save that
   fails at the close of a scope (a name that is taken, a version mismatch) gets
   there.
3. `leadership_overtaken`: README.md:218 "only the elected leader executes background
   jobs" and :714 "Background jobs execute on exactly one instance".
   `raft.go:87` starts each callback in a goroutine of its own; the one of a gain
   may come after that of the loss that followed, and starts the jobs on an instance
   that does not lead, until the next change.

## Observations

What the models show and no text of the repository contradicts:

- Two requests that overlap can both be granted something for one code or
  refresh token. `OneTimeToken` says exactly this much: `Take` while live, by
  several holders, `Grant` only after the token is spent.
- Of two logins for one device code, the last to finish decides.
- A session's row has an expiry time that nothing reads; a session ends when it
  is ended, and then is accepted at most one cache lifetime longer, counted from
  when the last request that had read the row has filled the cache.
- A second end of a session whose row is gone returns before it deletes the
  cache entry.
- What a failed command tracked is saved when its scope is closed; the user of
  a registration whose event failed exists, without a mail. (`RegisteredWithMail`
  is about those whose event was handled.)
- A failed save does not roll back, and clears the changes of the updates it
  passed: the second save skips them.
- The keys of a virtual server whose creation failed stay for ever, since the
  job visits only servers with a row; `OrphansDisappear` excludes them.
- A key is due for rotation at `RotatesAt` and expired after `ExpiresAt`: the
  boundaries differ by one comparison, which `KeyAvailable` depends on.

- The metadata of a user (README.md:39) cannot be changed on PostgreSQL:
  `ExecuteUpdate` of the user repository (`postgres/users.go:290`) refuses the field, so
  that the request fails when it is saved, and the save at the close of its
  scope fails again, which is case 2. `RefusedChangesNothing` meets it as a
  request that fails.
- Administration. The check of an application's algorithm holds only while no other
  request runs. `CreateApplication.go:97` compares with the server's algorithms and
  `PatchVirtualServer.go:84` with those of the applications, each as it is stored,
  and neither row has a part in the save of the other: two that overlap can leave an
  application with an algorithm its server no longer offers, although the
  second refuses that ("cannot remove algorithm", `PatchVirtualServer.go:90`).
  `AlgorithmOffered` is about requests one after the other. Creating a virtual server that fails
  at the generation of its keys leaves its row alone, saved by the close of the
  scope. An application that is refused at the save because its name is taken is
  created by the close of the scope, without an audit entry, if the other application
  is deleted in between. Deleting a role or an application that other rows refer to fails at the
  save and again at the close, which ends the instance.
- `UpdatePasswordRule` and `CreateResourceServerScope` have no `GetRequestName` and so
  are no `Policy` (`PolicyMiddleware.go:137`), although the second names a permission
  and says that it is to be logged (`CreateResourceServerScope.go:26`, `:34`):
  neither the policy nor the save behaviour applies to them: whoever reaches them may
  run them, there is no audit entry, what they change is saved by the close of the
  scope, and a save that fails there is case 2 above. `RegisterUser` and
  `VerifyEmail` are none either, which is meant (they are for everybody); for them
  too the close of the scope has the only save.
- A wrong password whose count cannot be written is not counted: `VerifyPassword`
  compares first, and after a failure of `UpdateToken` or `DeleteToken`
  (`login.go:302`, `312`) the login token is as usable as before. `BurnedForGood`
  counts these apart.
- The activation page does not ask whether the application it finds has the
  device flow enabled, and a user code that is drawn twice approves the device
  that drew it last, whichever device the user looks at.
- On PostgreSQL password rules and scopes of resource servers cannot be read
  back: `passwordrules.go:43` and `resourceserverscopes.go:52` scan one column
  less than is selected. `require_email_verification` is not inserted with a
  virtual server: the column's default is true, the entity's false. The filter of
  resource servers by slug is ignored.
- The memory back end checks no versions, unique columns or references; an update
  brings a deleted row back; a request that is refused after a setter has changed
  the shared object (`PatchVirtualServer`, `PatchApplication`). Searches look at
  other columns than on PostgreSQL.
- `ListUsersInRole` asks for the role by id alone (a TODO at
  `ListUsersInRoleQuery.go:68`): for a role of another server it shows that server's
  users. `AnswersStayInTenant` leaves this question out; with a role of the server
  asked, and with `GetUserMetadata`, which asks for applications by id alone,
  the answers stay in the tenant because of what the commands wrote.
- Requests that are denied are not audited, although `NewDeniedAuditLog` exists.
- Leadership. Callbacks that overtake each other leave a leader without jobs or a
  follower with jobs until the next change (`leadership_overtaken` shows the second); the
  properties of the run `leadership` exclude instances on which callbacks overlapped.
  Without that, too, a stopped manager's job may still run,
  and a former leader notices late; the modules of the jobs (`KeyRotation`,
  `UnitOfWork`) allow for both.
- The key an instance signs with may have left the store and the JWKS, since
  `GetKey` never looks at the store again; `PublishedUntilExpiry` says what holds.
- The activation page looks a client up in the server of its own URL, the poll
  issues tokens in the server of the device code; `ForeignUserByName` says what
  of this remains.

## Not modelled

- *Of the administration*: of the projects and service users a new virtual server may
  be given, all but one each, and the further roles of its administrator, the role
  of a system administrator among them; what an answer shows of a row, order, pages and search;
  group roles, which nothing writes; `AnyVirtualServerExists`, asked at the start
  only; the script of a claims mapping; that a token's roles are those of its
  issuer, which `Administration` takes from the middleware.
- *Token exchange, user info, claims mapping.* They change nothing: they verify a
  token, read a row and answer.
- *Check of a password against a rule.* A pure function on the characters of a
  string; a model would repeat it.
- *Insides of the stores*: files, OpenBao, Redis, encodings. Their calls are
  atomic steps. The memory key store is a Go map without a lock; a concurrent
  write and read of it is a data race the models do not show.
- *HTTP, templates, SMTP, logging, metrics, configuration, migrations,
  the client library.* Nothing in them decides about the state modelled.

## Plan

Done, in this order: `KeyRotation`, `SigningKeys`, `OneTimeToken` and
`TokenGrants`, `DeviceFlow`, `LoginFlow`, `Sessions`, `UnitOfWork`, the catalogues
with `Repositories`, `Queries` and `Administration`, `Leadership`; the proofs of
every safety property and action property of these.

Next: the request data of the audit log, and the roles of groups once a command writes
them.
