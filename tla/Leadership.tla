------------------------------ MODULE Leadership ------------------------------
(***************************************************************************)
(* Which instance runs the background jobs: the leader election, the       *)
(* callback of the main program that creates, starts and stops job         *)
(* managers, and the goroutines of their jobs.                             *)
(*                                                                         *)
(* A watcher polls the state of the Raft library.  On every change of the  *)
(* state it starts the callback in a goroutine of its own, so callbacks    *)
(* may overlap and overtake each other.  A callback that tells of          *)
(* leadership makes a new job manager and starts it; any other stops the   *)
(* manager that is current, without waiting for its jobs.                  *)
(*                                                                         *)
(* The Raft library is external: one instance at a time wins an election,  *)
(* one that led before keeps believing so until it steps down.             *)
(*                                                                         *)
(* A callback makes a manager and queues its jobs in one step: a second    *)
(* callback between them would make a difference only if both overlap,     *)
(* which all properties exclude but OnlyLeaderWorks; and that one is       *)
(* broken by callbacks that overlap in whole steps.                        *)
(***************************************************************************)
EXTENDS Naturals, Sequences, FiniteSets

CONSTANTS
    Instance,
    Job,        \* the jobs a manager runs: outbox_sender, signing_key_rotation
    Mode,       \* the modes of leader election to consider
    MaxChanges, \* bound on the changes of a state of Raft
    MaxCrashes  \* bound on the crashes of instances

ASSUME LeadershipAssumption ==
    Mode \subseteq {"none", "raft"} /\ MaxChanges \in Nat /\ MaxCrashes \in Nat

VARIABLES
    mode,      \* of the configuration
    raft,      \* [Instance -> the state of its Raft node]
    elected,   \* the instances that won the last election: none or one
    prev,      \* [Instance -> the state the watcher saw last]
    callbacks, \* [Instance -> the callbacks that are not done, in the order they started]
    managers,  \* [Instance -> the job managers made so far]
    current,   \* [Instance -> the index of the manager in the shared variable, or 0]
    changes, crashes,
    overtaken  \* history: the instances on which callbacks overlapped

vars == <<mode, raft, elected, prev, callbacks, managers, current, changes, crashes, overtaken>>

State == {"follower", "candidate", "leader"}
Callback(isLeader) == [isLeader |-> isLeader, made |-> FALSE]

CallbackState == [isLeader : BOOLEAN, made : BOOLEAN]
ManagerState ==
    [isRunning : BOOLEAN, cancelled : BOOLEAN,
     jobs : [Job -> {"queued", "started", "executing", "waiting", "gone"}]]

\* Without election the instance is told at once that it leads.
Init ==
    /\ mode \in Mode
    /\ raft = [i \in Instance |-> IF mode = "none" THEN "leader" ELSE "follower"]
    /\ elected = {} /\ prev = raft
    /\ callbacks = [i \in Instance |-> IF mode = "none" THEN <<Callback(TRUE)>> ELSE <<>>]
    /\ managers = [i \in Instance |-> <<>>] /\ current = [i \in Instance |-> 0]
    /\ changes = 0 /\ crashes = 0 /\ overtaken = {}

-----------------------------------------------------------------------------
(* The Raft library.                                                       *)

Becomes(i, state) ==
    /\ mode = "raft" /\ raft' = [raft EXCEPT ![i] = state]
    /\ UNCHANGED <<mode, prev, callbacks, managers, current, crashes, overtaken>>

Campaign(i) ==
    /\ raft[i] = "follower" /\ changes < MaxChanges /\ changes' = changes + 1
    /\ Becomes(i, "candidate") /\ UNCHANGED elected

Win(i) ==
    /\ raft[i] = "candidate" /\ Becomes(i, "leader")
    /\ elected' = {i} /\ UNCHANGED changes

Lose(i) ==
    /\ raft[i] = "candidate" /\ Becomes(i, "follower") /\ UNCHANGED <<elected, changes>>

\* A leader that lost its majority, or that another has replaced.
StepDown(i) ==
    /\ raft[i] = "leader" /\ Becomes(i, "follower")
    /\ \/ i \in elected /\ changes < MaxChanges /\ changes' = changes + 1 /\ elected' = {}
       \/ i \notin elected /\ UNCHANGED <<changes, elected>>

-----------------------------------------------------------------------------
(* The watcher and the callback.                                           *)

\* Mutant: only gained leadership is told.
Watch_OnlyGained(i) ==
    /\ raft[i] # prev[i] /\ prev' = [prev EXCEPT ![i] = raft[i]]
    /\ callbacks' = IF raft[i] = "leader" THEN [callbacks EXCEPT ![i] = Append(@, Callback(TRUE))]
                    ELSE callbacks
    /\ overtaken' = IF callbacks[i] = <<>> THEN overtaken ELSE overtaken \union {i}
    /\ UNCHANGED <<mode, raft, elected, managers, current, changes, crashes>>

\* A poll sees another state than before; short-lived states may be missed.
Watch(i) ==
    /\ raft[i] # prev[i] /\ prev' = [prev EXCEPT ![i] = raft[i]]
    /\ callbacks' = [callbacks EXCEPT ![i] = Append(@, Callback(raft[i] = "leader"))]
    /\ overtaken' = IF callbacks[i] = <<>> THEN overtaken ELSE overtaken \union {i}
    /\ UNCHANGED <<mode, raft, elected, managers, current, changes, crashes>>

Manager == [isRunning |-> FALSE, cancelled |-> FALSE, jobs |-> [j \in Job |-> "queued"]]
Pending(i, n) == n \in DOMAIN callbacks[i]
Done(i, n) == callbacks' = [callbacks EXCEPT ![i] = SubSeq(@, 1, n - 1) \o SubSeq(@, n + 1, Len(@))]

\* The callback of a leader makes a manager, with its jobs, and puts it into the variable
\* that all callbacks share.
MakeManager(i, n) ==
    /\ Pending(i, n) /\ callbacks[i][n].isLeader /\ ~callbacks[i][n].made
    /\ callbacks' = [callbacks EXCEPT ![i][n].made = TRUE]
    /\ managers' = [managers EXCEPT ![i] = Append(@, Manager)]
    /\ current' = [current EXCEPT ![i] = Len(managers[i]) + 1]
    /\ UNCHANGED <<mode, raft, elected, prev, changes, crashes, overtaken>>

\* It starts the manager that is in the variable then: every job gets a goroutine.
Start(i, n) ==
    /\ Pending(i, n) /\ callbacks[i][n].made /\ Done(i, n)
    /\ LET m == current[i] IN
       managers' = IF managers[i][m].isRunning THEN managers
                   ELSE [managers EXCEPT ![i][m] =
                           [isRunning |-> TRUE, cancelled |-> FALSE, jobs |-> [j \in Job |-> "started"]]]
    /\ UNCHANGED <<mode, raft, elected, prev, current, changes, crashes, overtaken>>

\* Mutant: the manager is stopped, but what its jobs wait for is not cancelled.
Stop_NoCancel(i, n) ==
    /\ Pending(i, n) /\ ~callbacks[i][n].isLeader /\ Done(i, n)
    /\ LET m == current[i] IN
       managers' = IF m = 0 THEN managers ELSE [managers EXCEPT ![i][m].isRunning = FALSE]
    /\ UNCHANGED <<mode, raft, elected, prev, current, changes, crashes, overtaken>>

\* Any other callback cancels the jobs of the manager in the variable, if it runs.
Stop(i, n) ==
    /\ Pending(i, n) /\ ~callbacks[i][n].isLeader /\ Done(i, n)
    /\ LET m == current[i] IN
       managers' = IF m = 0 \/ (m # 0 /\ ~managers[i][m].isRunning) THEN managers
                    ELSE [managers EXCEPT ![i][m].isRunning = FALSE, ![i][m].cancelled = TRUE]
    /\ UNCHANGED <<mode, raft, elected, prev, current, changes, crashes, overtaken>>

-----------------------------------------------------------------------------
(* The goroutine of a job.                                                 *)

JobGoes(i, m, j, from, to) ==
    /\ m \in DOMAIN managers[i] /\ managers[i][m].jobs[j] \in from
    /\ managers' = [managers EXCEPT ![i][m].jobs[j] = to]
    /\ UNCHANGED <<mode, raft, elected, prev, callbacks, current, changes, crashes, overtaken>>

\* At once, then whenever its ticker fires; once more after it was cancelled if select
\* finds both the ticker and the cancellation (the context it is given is cancelled then).
Execute(i, m, j) == JobGoes(i, m, j, {"started", "waiting"}, "executing")

\* Mutant: a job that panics takes its goroutine with it.
Finish_Panics(i, m, j) ==
    JobGoes(i, m, j, {"executing"}, "waiting") \/ JobGoes(i, m, j, {"executing"}, "gone")

\* It returns, fails or panics: all are survived.
Finish(i, m, j) == JobGoes(i, m, j, {"executing"}, "waiting")

Leave(i, m, j) ==
    /\ m \in DOMAIN managers[i] /\ managers[i][m].cancelled
    /\ JobGoes(i, m, j, {"waiting"}, "gone")

\* A process ends, and is started again.
Crash(i) ==
    /\ crashes < MaxCrashes /\ crashes' = crashes + 1
    /\ raft' = [raft EXCEPT ![i] = IF mode = "none" THEN "leader" ELSE "follower"]
    /\ prev' = [prev EXCEPT ![i] = raft'[i]] /\ elected' = elected \ {i}
    /\ callbacks' = [callbacks EXCEPT ![i] = IF mode = "none" THEN <<Callback(TRUE)>> ELSE <<>>]
    /\ managers' = [managers EXCEPT ![i] = <<>>] /\ current' = [current EXCEPT ![i] = 0]
    /\ overtaken' = overtaken \ {i}
    /\ UNCHANGED <<mode, changes>>

Next ==
    \E i \in Instance :
        \/ Campaign(i) \/ Win(i) \/ Lose(i) \/ StepDown(i) \/ Crash(i) \/ Watch(i)
        \/ \E n \in DOMAIN callbacks[i] : MakeManager(i, n) \/ Start(i, n) \/ Stop(i, n)
        \/ \E m \in DOMAIN managers[i] : \E j \in Job :
              Execute(i, m, j) \/ Finish(i, m, j) \/ Leave(i, m, j)

Spec == Init /\ [][Next]_vars

\* The watcher polls for ever, a callback and a job come to an end, a ticker fires, and
\* select, which picks one of the ready cases at random, picks the cancellation once.
\* Raft decides elections, and a leader without a majority steps down.
Fairness ==
    \A i \in Instance :
        /\ WF_vars(Watch(i))
        /\ WF_vars(\E n \in DOMAIN callbacks[i] : MakeManager(i, n) \/ Start(i, n) \/ Stop(i, n))
        /\ \A j \in Job :
              /\ WF_vars(\E m \in DOMAIN managers[i] : Execute(i, m, j))
              /\ WF_vars(\E m \in DOMAIN managers[i] : Finish(i, m, j))
              /\ SF_vars(\E m \in DOMAIN managers[i] : Leave(i, m, j))
        /\ WF_vars(Win(i) \/ Lose(i)) /\ WF_vars(i \notin elected /\ StepDown(i))

FairSpec == Spec /\ Fairness

-----------------------------------------------------------------------------
(* Properties.                                                             *)

TypeOK ==
    /\ mode \in Mode /\ elected \subseteq Instance /\ overtaken \subseteq Instance
    /\ raft \in [Instance -> State] /\ prev \in [Instance -> State]
    /\ changes \in 0 .. MaxChanges /\ crashes \in 0 .. MaxCrashes
    /\ callbacks \in [Instance -> Seq(CallbackState)]
    /\ managers \in [Instance -> Seq(ManagerState)]
    /\ current \in [Instance -> Nat] /\ \A i \in Instance : current[i] <= Len(managers[i])

\* When its callbacks are done, and never overlapped, an instance has a running manager if
\* and only if it was last seen to lead; that manager is the one the next callback will
\* stop, and the jobs of every other have been cancelled: none is left running behind.
ManagerFollowsLeadership ==
    \A i \in Instance : i \notin overtaken /\ callbacks[i] = <<>> =>
        /\ prev[i] = "leader" => current[i] # 0
        /\ \A m \in DOMAIN managers[i] :
              /\ managers[i][m].isRunning <=> m = current[i] /\ prev[i] = "leader"
              /\ managers[i][m].isRunning <=> ~managers[i][m].cancelled

\* The jobs of an instance that goes on leading are executed again and again, whatever
\* they return and however often the leadership changed before.
LeaderWorks ==
    \A i \in Instance, j \in Job :
        <>[](raft[i] = "leader" /\ i \notin overtaken) =>
            []<>(current[i] # 0 /\ managers[i][current[i]].jobs[j] = "executing")

\* "only the elected leader executes background jobs" (README.md:218): an instance whose
\* watcher is up to date and whose callbacks are done, and that does not lead, has no
\* running manager, also if its callbacks overlapped.
OnlyLeaderWorks ==
    \A i \in Instance : callbacks[i] = <<>> /\ prev[i] = raft[i] /\ raft[i] # "leader" =>
        \A m \in DOMAIN managers[i] : ~managers[i][m].isRunning

\* An instance that leads no more comes to rest: all its jobs end.
FollowerIdle ==
    \A i \in Instance :
        <>[](raft[i] # "leader" /\ i \notin overtaken) =>
            <>[](\A m \in DOMAIN managers[i], j \in Job : managers[i][m].jobs[j] = "gone")

=============================================================================
