------------------------- MODULE SigningKeysProofs -------------------------
(***************************************************************************)
(* Theorems about the signing keys.  First KeyRotation: for every set of   *)
(* virtual servers, every set of algorithms, any number of concurrent      *)
(* commands and failures, and any pair of rotation and expiry times with   *)
(* RotateAfter < ExpireAfter.  Then SigningKeys: for any number of         *)
(* instances, runners and failures, when no command creates a virtual      *)
(* server or changes its algorithms.                                       *)
(***************************************************************************)
EXTENDS SigningKeys, FiniteSetTheorems, TLAPS

-----------------------------------------------------------------------------
(* Types. *)

LEMMA IdleTypes == IdleJob \in Run /\ IdleCommand \in Command
  BY DEF IdleJob, IdleCommand, Run, Command, NoRows

\* A run is replaced by a well-typed one.
LEMMA RunUpdate ==
  ASSUME RunsOK, NEW r \in Runner, NEW j \in Run,
         j.pc \in {"delete", "generate"} => j.vs # None,
         job' = [job EXCEPT ![r] = j]
  PROVE  RunsOK' /\ job'[r] = j /\ \A s \in Runner : s # r => job'[s] = job[s]
  BY DEF RunsOK

\* A command is replaced by a well-typed one.
LEMMA CommandUpdate ==
  ASSUME CommandsOK, NEW p \in Admin, NEW c \in Command,
         c.pc # "idle" => c.vs # None, c.pc = "generate" => c.alg # None,
         command' = [command EXCEPT ![p] = c]
  PROVE  CommandsOK'
  BY DEF CommandsOK

LEMMA RunType ==
  ASSUME RunsOK, NEW r \in Runner
  PROVE  /\ job[r] \in Run
         /\ job[r].pc \in {"delete", "generate"} => job[r].vs \in VirtualServer
  BY DEF RunsOK, Run

LEMMA CommandType ==
  ASSUME CommandsOK, NEW p \in Admin
  PROVE  /\ command[p] \in Command
         /\ command[p].pc # "idle" => command[p].vs \in VirtualServer
         /\ command[p].pc = "generate" => command[p].alg \in Alg
  BY DEF CommandsOK, Command

LEMMA GenerateType ==
  ASSUME TypeOK, NEW v \in VirtualServer, NEW a \in Alg, Generate(v, a)
  PROVE  store' \subseteq Key /\ nextKid' \in Nat
  BY DEF TypeOK, Generate, NewKey, Key

LEMMA SpentType ==
  ASSUME TypeOK,
         \/ spent' = spent
         \/ spent' = [spent EXCEPT !.commands = spent.commands + 1]
         \/ spent' = [spent EXCEPT !.faults = spent.faults + 1]
  PROVE  spent' \in [commands : Nat, faults : Nat]
  BY DEF TypeOK

LEMMA TypeInit == Init => TypeOK
<1> SUFFICES ASSUME Init PROVE TypeOK
  OBVIOUS
<1>1. RunsOK
  BY IdleTypes DEF Init, RunsOK, IdleJob
<1>2. CommandsOK
  BY IdleTypes DEF Init, CommandsOK, IdleCommand
<1>3. planned \in [VirtualServer -> [Alg -> [done : BOOLEAN, at : Nat]]]
  BY DEF Init, Never
<1>4. QED
  BY <1>1, <1>2, <1>3 DEF Init, TypeOK

LEMMA TypeNext == TypeOK /\ [Next]_vars => TypeOK'
<1> SUFFICES ASSUME TypeOK, [Next]_vars PROVE TypeOK'
  OBVIOUS
<1>0. RunsOK /\ CommandsOK
  BY DEF TypeOK
<1>1. ASSUME NEW r \in Runner, JobBegin(r) PROVE TypeOK'
  <2> DEFINE j == [IdleJob EXCEPT !.pc = "next", !.started = now, !.rows = configured,
                     !.todo = {v \in VirtualServer : configured[v] # {}}]
  <2>1. j \in Run /\ j.pc = "next"
    BY IdleTypes DEF TypeOK, Run, IdleJob
  <2>2. RunsOK'
    BY <1>0, <1>1, <2>1, RunUpdate DEF JobBegin
  <2>3. CommandsOK'
    BY <1>0, <1>1 DEF JobBegin, CommandsOK
  <2>4. QED
    BY <1>1, <2>2, <2>3 DEF JobBegin, TypeOK
<1>2. ASSUME NEW r \in Runner, NEW v \in VirtualServer, JobSnapshot(r, v) PROVE TypeOK'
  <2> DEFINE snap == {k \in store : k.vs = v}
             doomed == {k \in snap : ExpiresAt(k) < now \/ k.alg \notin job[r].rows[v]}
             j == [job[r] EXCEPT !.pc = "delete", !.vs = v, !.snap = snap, !.at = now,
                                 !.doomed = doomed]
  <2>1. snap \in SUBSET Key /\ doomed \in SUBSET Key
    BY DEF TypeOK
  <2>2. j \in Run /\ j.vs = v /\ v # None
    <3> HIDE DEF snap, doomed
    <3> QED BY <1>0, <2>1, RunType, RotationAssumption DEF TypeOK, Run
  <2>3. job' = [job EXCEPT ![r] = j]
    BY <1>2 DEF JobSnapshot
  <2>4. RunsOK'
    <3> HIDE DEF j
    <3> QED BY <1>0, <2>2, <2>3, RunUpdate
  <2>5. CommandsOK'
    BY <1>0, <1>2 DEF JobSnapshot, CommandsOK
  <2>6. QED
    BY <1>2, <2>4, <2>5 DEF JobSnapshot, TypeOK
<1>3. ASSUME NEW r \in Runner, NEW k \in job[r].doomed, JobRemove(r, k) PROVE TypeOK'
  <2> DEFINE j == [job[r] EXCEPT !.doomed = job[r].doomed \ {k}]
  <2>1. j \in Run /\ j.vs = job[r].vs /\ job[r].vs # None
    BY <1>0, <1>3, RunType, RotationAssumption DEF JobRemove, Run
  <2>2. RunsOK'
    <3>1. job' = [job EXCEPT ![r] = j]
      BY <1>3 DEF JobRemove
    <3> HIDE DEF j
    <3> QED BY <1>0, <2>1, <3>1, RunUpdate
  <2>3. CommandsOK'
    BY <1>0, <1>3 DEF JobRemove, CommandsOK
  <2>4. QED
    BY <1>3, <2>2, <2>3 DEF JobRemove, TypeOK
<1>4. ASSUME NEW r \in Runner, JobPlan(r) PROVE TypeOK'
  <2> DEFINE rotate == Rotated(job[r].snap, now)
             seed == Unseeded(job[r].snap, job[r].rows[job[r].vs])
             j == [job[r] EXCEPT !.pc = "generate", !.at = now, !.snap = {},
                                 !.rotate = rotate, !.seed = seed]
  <2>1. job[r] \in Run /\ job[r].vs \in VirtualServer
    BY <1>0, <1>4, RunType DEF JobPlan
  <2>2. rotate \in SUBSET Alg /\ seed \in SUBSET Alg
    BY <2>1 DEF Rotated, Unseeded, AlgsOf, Run, Key
  <2>3. j \in Run /\ j.vs = job[r].vs /\ job[r].vs # None
    <3> HIDE DEF rotate, seed
    <3> QED BY <2>1, <2>2, RotationAssumption DEF TypeOK, Run
  <2>4. job' = [job EXCEPT ![r] = j]
    BY <1>4 DEF JobPlan
  <2>5. RunsOK'
    <3> HIDE DEF j
    <3> QED BY <1>0, <2>3, <2>4, RunUpdate
  <2>6. CommandsOK'
    BY <1>0, <1>4 DEF JobPlan, CommandsOK
  <2>7. purged' \in [VirtualServer -> Nat]
    BY <1>4, <2>1 DEF JobPlan, TypeOK, Run
  <2>8. QED
    BY <1>4, <2>5, <2>6, <2>7 DEF JobPlan, TypeOK
<1>5. ASSUME NEW r \in Runner, NEW a \in job[r].rotate \union job[r].seed, JobGenerate(r, a)
      PROVE  TypeOK'
  <2> DEFINE j == [job[r] EXCEPT !.rotate = job[r].rotate \ {a}, !.seed = job[r].seed \ {a}]
  <2>1. job[r] \in Run /\ job[r].vs \in VirtualServer
    BY <1>0, <1>5, RunType DEF JobGenerate
  <2>2. j \in Run /\ j.vs = job[r].vs /\ job[r].vs # None /\ a \in Alg
    BY <2>1, RotationAssumption DEF Run
  <2>3. RunsOK'
    <3>1. job' = [job EXCEPT ![r] = j]
      BY <1>5 DEF JobGenerate
    <3> HIDE DEF j
    <3> QED BY <1>0, <2>2, <3>1, RunUpdate
  <2>4. CommandsOK'
    BY <1>0, <1>5 DEF JobGenerate, CommandsOK
  <2>5. store' \subseteq Key /\ nextKid' \in Nat
    BY <1>5, <2>1, <2>2, GenerateType DEF JobGenerate
  <2>6. QED
    BY <1>5, <2>3, <2>4, <2>5 DEF JobGenerate, TypeOK
<1>6. ASSUME NEW r \in Runner, JobAdvance(r) PROVE TypeOK'
  <2> DEFINE v == job[r].vs
             todo == job[r].todo \ {v}
             j == IF todo = {} THEN IdleJob
                  ELSE [IdleJob EXCEPT !.pc = "next", !.started = job[r].started,
                          !.rows = job[r].rows, !.todo = todo]
  <2>1. job[r] \in Run /\ v \in VirtualServer
    BY <1>0, <1>6, RunType DEF JobAdvance
  <2>2. j \in Run /\ j.pc \in {"idle", "next"}
    BY <2>1, IdleTypes DEF Run, IdleJob
  <2>3. RunsOK'
    <3>1. job' = [job EXCEPT ![r] = j]
      BY <1>6 DEF JobAdvance
    <3> HIDE DEF j
    <3> QED BY <1>0, <2>2, <3>1, RunUpdate
  <2>4. CommandsOK'
    BY <1>0, <1>6 DEF JobAdvance, CommandsOK
  <2>5. planned' \in [VirtualServer -> [Alg -> [done : BOOLEAN, at : Nat]]]
    <3>1. job[r].at \in Nat
      BY <2>1 DEF Run
    <3> QED BY <1>6, <2>1, <3>1 DEF JobAdvance, TypeOK, At
  <2>6. QED
    BY <1>6, <2>3, <2>4, <2>5 DEF JobAdvance, TypeOK
<1>7. ASSUME NEW r \in Runner, JobNothing(r) \/ JobFail(r) PROVE TypeOK'
  <2>1. RunsOK'
    BY <1>0, <1>7, IdleTypes, RunUpdate DEF JobNothing, JobFail, IdleJob
  <2>2. CommandsOK'
    BY <1>0, <1>7 DEF JobNothing, JobFail, CommandsOK
  <2>3. spent' \in [commands : Nat, faults : Nat]
    BY <1>7 DEF JobNothing, JobFail, TypeOK
  <2>4. QED
    BY <1>7, <2>1, <2>2, <2>3 DEF JobNothing, JobFail, TypeOK
<1>8. ASSUME NEW p \in Admin, NEW v \in VirtualServer, NEW algs \in SUBSET Alg \ {{}},
             CreateBegin(p, v, algs) \/ PatchBegin(p, v, algs)
      PROVE  TypeOK'
  <2> DEFINE c(pc) == [pc |-> pc, vs |-> v, algs |-> algs, base |-> version[v],
                       todo |-> algs, alg |-> None]
  <2>1. \A pc \in {"create", "check"} : c(pc) \in Command
    BY DEF TypeOK, Command
  <2>2. PICK pc \in {"create", "check"} : command' = [command EXCEPT ![p] = c(pc)]
    BY <1>8 DEF CreateBegin, PatchBegin
  <2>3. c(pc) \in Command /\ c(pc).pc = pc /\ c(pc).vs # None
    BY <2>1, RotationAssumption
  <2>4. CommandsOK'
    <3> HIDE DEF c
    <3> QED BY <1>0, <2>2, <2>3, CommandUpdate
  <2>5. RunsOK'
    BY <1>0, <1>8 DEF CreateBegin, PatchBegin, RunsOK
  <2>6. spent' \in [commands : Nat, faults : Nat]
    BY <1>8, SpentType DEF CreateBegin, PatchBegin
  <2>7. UNCHANGED <<now, configured, version, store, nextKid, planned, purged>>
    BY <1>8 DEF CreateBegin, PatchBegin
  <2>8. QED
    BY <2>4, <2>5, <2>6, <2>7 DEF TypeOK
<1>9. ASSUME NEW p \in Admin, NEW a \in command[p].todo, CreateGenerate(p, a) PROVE TypeOK'
  <2> DEFINE c == [command[p] EXCEPT !.todo = command[p].todo \ {a}]
  <2>1. command[p] \in Command /\ command[p].vs \in VirtualServer
    BY <1>0, <1>9, CommandType DEF CreateGenerate
  <2>2. c \in Command /\ c.pc = "create" /\ c.vs # None /\ a \in Alg
    BY <1>9, <2>1, RotationAssumption DEF CreateGenerate, Command
  <2>3. CommandsOK'
    <3>1. command' = [command EXCEPT ![p] = c]
      BY <1>9 DEF CreateGenerate
    <3> HIDE DEF c
    <3> QED BY <1>0, <2>2, <3>1, CommandUpdate
  <2>4. RunsOK'
    BY <1>0, <1>9 DEF CreateGenerate, RunsOK
  <2>5. store' \subseteq Key /\ nextKid' \in Nat
    BY <1>9, <2>1, <2>2, GenerateType DEF CreateGenerate
  <2>6. QED
    BY <1>9, <2>3, <2>4, <2>5 DEF CreateGenerate, TypeOK
<1>10. ASSUME NEW p \in Admin, NEW a \in command[p].todo, PatchCheck(p, a) PROVE TypeOK'
  <2> DEFINE pc == IF KeysOf(command[p].vs, a) = {} THEN "generate" ELSE "check"
             c == [command[p] EXCEPT !.todo = command[p].todo \ {a}, !.pc = pc, !.alg = a]
  <2>1. command[p] \in Command /\ command[p].vs \in VirtualServer
    BY <1>0, <1>10, CommandType DEF PatchCheck
  <2>2. pc \in {"generate", "check"}
    OBVIOUS
  <2>3. c \in Command /\ c.vs # None /\ c.alg # None
    <3> HIDE DEF pc
    <3> QED BY <2>1, <2>2, RotationAssumption DEF Command
  <2>4. CommandsOK'
    <3>1. command' = [command EXCEPT ![p] = c]
      BY <1>10 DEF PatchCheck
    <3> HIDE DEF c
    <3> QED BY <1>0, <2>3, <3>1, CommandUpdate
  <2>5. RunsOK'
    BY <1>0, <1>10 DEF PatchCheck, RunsOK
  <2>6. QED
    BY <1>10, <2>4, <2>5 DEF PatchCheck, TypeOK
<1>11. ASSUME NEW p \in Admin, PatchGenerate(p) PROVE TypeOK'
  <2> DEFINE c == [command[p] EXCEPT !.pc = "check"]
  <2>1. command[p] \in Command /\ command[p].vs \in VirtualServer /\ command[p].alg \in Alg
    BY <1>0, <1>11, CommandType DEF PatchGenerate
  <2>2. c \in Command /\ c.pc = "check" /\ c.vs # None
    BY <2>1, RotationAssumption DEF Command
  <2>3. CommandsOK'
    <3>1. command' = [command EXCEPT ![p] = c]
      BY <1>11 DEF PatchGenerate
    <3> HIDE DEF c
    <3> QED BY <1>0, <2>2, <3>1, CommandUpdate
  <2>4. RunsOK'
    BY <1>0, <1>11 DEF PatchGenerate, RunsOK
  <2>5. store' \subseteq Key /\ nextKid' \in Nat
    BY <1>11, <2>1, GenerateType DEF PatchGenerate
  <2>6. QED
    BY <1>11, <2>3, <2>4, <2>5 DEF PatchGenerate, TypeOK
<1>12. ASSUME NEW p \in Admin, CommandSave(p) \/ CommandFail(p) \/ CommandLost(p)
       PROVE  TypeOK'
  <2>1. CommandsOK'
    BY <1>0, <1>12, IdleTypes, CommandUpdate
       DEF CommandSave, CommandFail, CommandLost, IdleCommand
  <2>2. RunsOK'
    BY <1>0, <1>12 DEF CommandSave, CommandFail, CommandLost, RunsOK
  <2>3. /\ configured' \in [VirtualServer -> SUBSET Alg]
        /\ version' \in [VirtualServer -> Nat]
        /\ planned' \in [VirtualServer -> [Alg -> [done : BOOLEAN, at : Nat]]]
    <3>1. CASE UNCHANGED <<configured, version, planned>>
      BY <3>1 DEF TypeOK
    <3>2. CASE SaveRow(p) /\ command[p].pc # "idle"
      <4>1. command[p].vs \in VirtualServer /\ command[p].algs \in SUBSET Alg
        BY <1>0, <3>2, CommandType DEF Command
      <4>2. configured' \in [VirtualServer -> SUBSET Alg] /\ version' \in [VirtualServer -> Nat]
        <5>1. \/ UNCHANGED <<configured, version>>
              \/ /\ configured' = [configured EXCEPT ![command[p].vs] = command[p].algs]
                 /\ version' = [version EXCEPT ![command[p].vs] = version[command[p].vs] + 1]
          BY <3>2 DEF SaveRow
        <5> QED BY <4>1, <5>1 DEF TypeOK
      <4>3. planned' \in [VirtualServer -> [Alg -> [done : BOOLEAN, at : Nat]]]
        <5> DEFINE new == [a \in Alg |-> IF a \in command[p].algs
                                         THEN planned[command[p].vs][a] ELSE Never]
        <5>1. new \in [Alg -> [done : BOOLEAN, at : Nat]]
          BY <4>1 DEF TypeOK, Never
        <5>2. planned' = planned \/ planned' = [planned EXCEPT ![command[p].vs] = new]
          BY <3>2, <4>1 DEF SaveRow, TypeOK
        <5> HIDE DEF new
        <5> QED BY <4>1, <5>1, <5>2 DEF TypeOK
      <4> QED BY <4>2, <4>3
    <3> QED BY <1>12, <3>1, <3>2 DEF CommandSave, CommandFail, CommandLost
  <2>4. spent' \in [commands : Nat, faults : Nat]
    BY <1>12, SpentType DEF CommandSave, CommandFail, CommandLost
  <2>5. UNCHANGED <<now, store, nextKid, purged>>
    BY <1>12 DEF CommandSave, CommandFail, CommandLost
  <2>6. QED
    BY <2>1, <2>2, <2>3, <2>4, <2>5 DEF TypeOK
<1>13. ASSUME Tick PROVE TypeOK'
  BY <1>0, <1>13 DEF Tick, TypeOK, RunsOK, CommandsOK
<1>14. CASE UNCHANGED vars
  BY <1>0, <1>14 DEF vars, TypeOK, RunsOK, CommandsOK
<1>15. QED
  BY <1>1, <1>2, <1>3, <1>4, <1>5, <1>6, <1>7, <1>8, <1>9, <1>10, <1>11, <1>12, <1>13,
     <1>14 DEF Next, JobStep, CommandStep

\* Every step of the job and of the commands keeps the state well-typed; in
\* particular a run or a command past its first step has a virtual server.
THEOREM Typing == Spec => []TypeOK
  BY TypeInit, TypeNext, PTL DEF Spec

-----------------------------------------------------------------------------
(* Removals: ExpiredPurged, for any number of runners.                     *)
(*                                                                         *)
(* ExpiredPurged alone says nothing of a purge in progress.  What carries  *)
(* it is that no key of the virtual server escapes a purge: a key in the   *)
(* store that had expired when the snapshot was taken is still doomed, and *)
(* a key added since then, by whomever, was created no earlier.            *)

Purging(r) ==
    job[r].pc = "delete" =>
        /\ job[r].at <= now
        /\ \A k \in store : k.vs = job[r].vs /\ ExpiresAt(k) < job[r].at => k \in job[r].doomed

PurgeInv ==
    /\ \A k \in store : k.createdAt <= now
    /\ \A v \in VirtualServer : purged[v] <= now
    /\ \A r \in Runner : Purging(r)
    /\ ExpiredPurged

LEMMA PurgeInit == Init => PurgeInv
  BY DEF Init, PurgeInv, Purging, ExpiredPurged, IdleJob

\* Steps that only add new keys, let time pass, or end a purge without recording it.
LEMMA PurgeQuiet ==
  ASSUME TypeOK, PurgeInv, purged' = purged, now' \in Nat, now <= now',
         \A k \in store' : k \in store \/ (k \in Key /\ k.createdAt = now),
         \A r \in Runner : job'[r].pc = "delete" => job'[r] = job[r]
  PROVE  PurgeInv'
<1>1. /\ now \in Nat /\ store \subseteq Key /\ RotateAfter \in Nat /\ ExpireAfter \in Nat
      /\ \A v \in VirtualServer : purged[v] \in Nat
      /\ \A r \in Runner : job[r].at \in Nat
  BY RotationAssumption DEF TypeOK, RunsOK, Run
<1>2. \A k \in store' : k.createdAt <= now'
  BY <1>1 DEF PurgeInv, Key
<1>3. \A v \in VirtualServer : purged'[v] <= now'
  BY <1>1 DEF PurgeInv
<1>4. ASSUME NEW r \in Runner PROVE Purging(r)'
  BY <1>1, <1>4 DEF PurgeInv, Purging, Key, ExpiresAt
<1>5. ExpiredPurged'
  BY <1>1 DEF PurgeInv, ExpiredPurged, Key, ExpiresAt
<1>6. QED
  BY <1>2, <1>3, <1>4, <1>5 DEF PurgeInv

LEMMA GenerateKeys ==
  ASSUME TypeOK, NEW v \in VirtualServer, NEW a \in Alg, Generate(v, a)
  PROVE  \A k \in store' : k \in store \/ (k \in Key /\ k.createdAt = now)
  BY DEF TypeOK, Generate, NewKey, Key

LEMMA PurgeNext == TypeOK /\ PurgeInv /\ [Next]_vars => PurgeInv'
<1> SUFFICES ASSUME TypeOK, PurgeInv, [Next]_vars PROVE PurgeInv'
  OBVIOUS
<1>0. RunsOK /\ CommandsOK /\ now \in Nat
  BY DEF TypeOK
<1>1. ASSUME NEW r \in Runner, JobBegin(r) \/ JobAdvance(r) \/ JobNothing(r) \/ JobFail(r)
      PROVE  PurgeInv'
  <2>1. job'[r].pc # "delete" /\ \A s \in Runner : s # r => job'[s] = job[s]
    <3> DEFINE v == job[r].vs
               todo == job[r].todo \ {v}
               next == [IdleJob EXCEPT !.pc = "next", !.started = job[r].started,
                                      !.rows = job[r].rows, !.todo = todo]
               first == [IdleJob EXCEPT !.pc = "next", !.started = now, !.rows = configured,
                           !.todo = {w \in VirtualServer : configured[w] # {}}]
    <3>1. IdleJob.pc = "idle" /\ next.pc = "next" /\ first.pc = "next"
      BY DEF IdleJob
    <3>2. PICK j \in {IdleJob, next, first} : job' = [job EXCEPT ![r] = j]
      BY <1>1 DEF JobBegin, JobAdvance, JobNothing, JobFail
    <3> HIDE DEF next, first
    <3> QED BY <1>0, <3>1, <3>2 DEF RunsOK
  <2>2. UNCHANGED <<now, store, purged>>
    BY <1>1 DEF JobBegin, JobAdvance, JobNothing, JobFail
  <2>3. QED
    BY <1>0, <2>1, <2>2, PurgeQuiet
<1>2. ASSUME NEW r \in Runner, NEW v \in VirtualServer, JobSnapshot(r, v) PROVE PurgeInv'
  <2>1. UNCHANGED <<now, store, purged>>
    BY <1>2 DEF JobSnapshot
  <2>2. Purging(r)'
    <3>1. /\ job'[r].at = now /\ job'[r].vs = v
          /\ \A k \in store : k.vs = v /\ ExpiresAt(k) < now => k \in job'[r].doomed
      BY <1>0, <1>2 DEF JobSnapshot, RunsOK, Run
    <3> QED BY <1>0, <2>1, <3>1 DEF Purging, ExpiresAt
  <2>3. \A s \in Runner : s # r => job'[s] = job[s]
    BY <1>0, <1>2 DEF JobSnapshot, RunsOK
  <2>4. \A s \in Runner : Purging(s)'
    BY <2>1, <2>2, <2>3 DEF PurgeInv, Purging, ExpiresAt
  <2>5. QED
    BY <2>1, <2>4 DEF PurgeInv, ExpiredPurged, ExpiresAt
<1>3. ASSUME NEW r \in Runner, NEW k \in job[r].doomed, JobRemove(r, k) PROVE PurgeInv'
  <2>1. UNCHANGED <<now, purged>> /\ store' = store \ {k}
    BY <1>3 DEF JobRemove
  <2>2. job' = [job EXCEPT ![r] = [job[r] EXCEPT !.doomed = job[r].doomed \ {k}]]
    BY <1>3 DEF JobRemove
  <2>3. ASSUME NEW s \in Runner PROVE Purging(s)'
    <3>1. /\ job'[s].at = job[s].at /\ job'[s].vs = job[s].vs /\ job'[s].pc = job[s].pc
          /\ job[s].doomed \ {k} \subseteq job'[s].doomed
      BY <1>0, <2>2 DEF RunsOK, Run
    <3> QED BY <2>1, <3>1 DEF PurgeInv, Purging, ExpiresAt
  <2>4. QED
    BY <2>1, <2>3 DEF PurgeInv, ExpiredPurged, ExpiresAt
<1>4. ASSUME NEW r \in Runner, JobPlan(r) PROVE PurgeInv'
  <2>1. job[r] \in Run /\ job[r].vs \in VirtualServer
    BY <1>0, <1>4, RunType DEF JobPlan
  <2>2. /\ UNCHANGED <<now, store>> /\ purged' = [purged EXCEPT ![job[r].vs] = job[r].at]
        /\ job[r].pc = "delete" /\ job[r].doomed = {}
    BY <1>4 DEF JobPlan
  <2>3. job'[r].pc # "delete" /\ \A s \in Runner : s # r => job'[s] = job[s]
    BY <1>0, <1>4, <2>1 DEF JobPlan, RunsOK, Run
  <2>4. job[r].at <= now /\ \A k \in store : k.vs = job[r].vs => ~(ExpiresAt(k) < job[r].at)
    BY <2>2 DEF PurgeInv, Purging
  <2>5. \A v \in VirtualServer : purged'[v] <= now'
    BY <2>2, <2>4 DEF PurgeInv, TypeOK
  <2>6. ExpiredPurged'
    <3>1. ASSUME NEW k \in store PROVE purged'[k.vs] <= ExpiresAt(k)
      <4>1. k.vs \in VirtualServer /\ ExpiresAt(k) \in Nat /\ job[r].at \in Nat
        BY <2>1, RotationAssumption DEF TypeOK, Key, ExpiresAt, Run
      <4>2. CASE k.vs = job[r].vs
        BY <2>2, <2>4, <4>1, <4>2 DEF TypeOK
      <4>3. CASE k.vs # job[r].vs
        BY <2>2, <4>1, <4>3 DEF PurgeInv, ExpiredPurged, TypeOK
      <4> QED BY <4>2, <4>3
    <3> QED BY <2>2, <3>1 DEF ExpiredPurged, ExpiresAt
  <2>7. \A s \in Runner : Purging(s)'
    BY <2>2, <2>3 DEF PurgeInv, Purging, ExpiresAt
  <2>8. QED
    BY <2>2, <2>5, <2>6, <2>7 DEF PurgeInv
<1>5. ASSUME NEW r \in Runner, NEW a \in job[r].rotate \union job[r].seed, JobGenerate(r, a)
      PROVE  PurgeInv'
  <2>1. job[r].vs \in VirtualServer /\ a \in Alg
    BY <1>0, <1>5, RunType DEF JobGenerate, Run
  <2>2. job'[r].pc # "delete" /\ \A s \in Runner : s # r => job'[s] = job[s]
    BY <1>0, <1>5 DEF JobGenerate, RunsOK, Run
  <2>3. UNCHANGED <<now, purged>> /\ Generate(job[r].vs, a)
    BY <1>5 DEF JobGenerate
  <2>4. QED
    BY <1>0, <2>1, <2>2, <2>3, GenerateKeys, PurgeQuiet
<1>6. ASSUME NEW p \in Admin, NEW a \in command[p].todo, CreateGenerate(p, a) PROVE PurgeInv'
  <2>1. command[p].vs \in VirtualServer /\ a \in Alg
    BY <1>0, <1>6, CommandType DEF CreateGenerate, Command
  <2>2. UNCHANGED <<now, purged, job>> /\ Generate(command[p].vs, a)
    BY <1>6 DEF CreateGenerate
  <2>3. QED
    BY <1>0, <2>1, <2>2, GenerateKeys, PurgeQuiet
<1>7. ASSUME NEW p \in Admin, PatchGenerate(p) PROVE PurgeInv'
  <2>1. command[p].vs \in VirtualServer /\ command[p].alg \in Alg
    BY <1>0, <1>7, CommandType DEF PatchGenerate
  <2>2. UNCHANGED <<now, purged, job>> /\ Generate(command[p].vs, command[p].alg)
    BY <1>7 DEF PatchGenerate
  <2>3. QED
    BY <1>0, <2>1, <2>2, GenerateKeys, PurgeQuiet
<1>8. CASE \/ UNCHANGED vars
           \/ \E p \in Admin :
                \/ \E v \in VirtualServer, algs \in SUBSET Alg \ {{}} :
                      CreateBegin(p, v, algs) \/ PatchBegin(p, v, algs)
                \/ \E a \in command[p].todo : PatchCheck(p, a)
                \/ CommandSave(p) \/ CommandFail(p) \/ CommandLost(p)
  <2>1. UNCHANGED <<now, store, purged, job>>
    BY <1>8 DEF vars, CreateBegin, PatchBegin, PatchCheck, CommandSave, CommandFail, CommandLost
  <2>2. QED
    BY <1>0, <2>1, PurgeQuiet
<1>9. CASE Tick
  BY <1>0, <1>9, PurgeQuiet DEF Tick
<1>10. QED
  BY <1>1, <1>2, <1>3, <1>4, <1>5, <1>6, <1>7, <1>8, <1>9 DEF Next, JobStep, CommandStep

\* Once the removals of a run for a virtual server are done, no key of it is
\* left that had expired when they began, whatever the other instances' runs
\* and the commands add to the store meanwhile (deleteExpiredKeys).
THEOREM Purged == Spec => []ExpiredPurged
<1>1. PurgeInv => ExpiredPurged
  BY DEF PurgeInv
<1> QED BY <1>1, TypeInit, TypeNext, PurgeInit, PurgeNext, PTL DEF Spec

-----------------------------------------------------------------------------
(* Availability: KeyAvailable, when the job runs on one instance.          *)
(*                                                                         *)
(* The invariant follows a run through its phases.  A key the run will     *)
(* remove has expired or is an orphan of the row the run works from        *)
(* (Removing); an algorithm of that row is about to get a key or has one   *)
(* that is still before its rotation (Renewing); and a planned algorithm   *)
(* keeps such a key (Covered).  No orphan removal can take that key: the   *)
(* row of the only run lists every planned algorithm (PlannedConfigured).  *)
(* A second runner with an older row breaks exactly this.                  *)

OneRunner == \A r, s \in Runner : r = s

PlannedConfigured ==
    \A v \in VirtualServer, a \in Alg : planned[v][a].done =>
        /\ a \in configured[v] /\ planned[v][a].at <= now
        /\ \A r \in Runner : job[r].pc # "idle" => a \in job[r].rows[v]

Gone(k, r) == ExpiresAt(k) < job[r].at \/ k.alg \notin job[r].rows[job[r].vs]
Removing(r) ==
    job[r].pc = "delete" =>
        /\ job[r].at <= now
        /\ \A k \in job[r].doomed : k.vs = job[r].vs /\ Gone(k, r)
        /\ \A k \in job[r].snap : k.vs = job[r].vs /\ (k \in store \/ Gone(k, r))

Fresh(v, a, t) == \E k \in KeysOf(v, a) : t < RotatesAt(k)
Renewing(r) ==
    job[r].pc = "generate" =>
        /\ job[r].at <= now
        /\ \A a \in job[r].rows[job[r].vs] :
              a \in job[r].rotate \union job[r].seed \/ Fresh(job[r].vs, a, job[r].at)

Covered ==
    \A v \in VirtualServer, a \in Alg :
        /\ planned[v][a].done
        /\ now <= planned[v][a].at + (ExpireAfter - RotateAfter)
        => Fresh(v, a, planned[v][a].at)

AvailInv ==
    /\ PlannedConfigured
    /\ \A r \in Runner : Removing(r) /\ Renewing(r)
    /\ Covered

LEMMA AvailInit == Init => AvailInv
  BY DEF Init, AvailInv, PlannedConfigured, Removing, Renewing, Covered, IdleJob, Never

LEMMA KeyTimes ==
  ASSUME NEW k \in Key
  PROVE  /\ RotatesAt(k) \in Nat /\ ExpiresAt(k) \in Nat /\ RotatesAt(k) < ExpiresAt(k)
         /\ k.createdAt < RotatesAt(k)
         /\ ExpiresAt(k) = RotatesAt(k) + (ExpireAfter - RotateAfter)
         /\ ExpireAfter - RotateAfter \in Nat
  BY RotationAssumption DEF Key, RotatesAt, ExpiresAt

LEMMA PlannedType ==
  ASSUME TypeOK, NEW v \in VirtualServer, NEW a \in Alg
  PROVE  planned[v][a].at \in Nat /\ planned[v][a].done \in BOOLEAN
  BY DEF TypeOK

\* More keys do not make an algorithm less fresh.
LEMMA FreshGrows ==
  ASSUME NEW v, NEW a, NEW t, store \subseteq store', Fresh(v, a, t)
  PROVE  Fresh(v, a, t)'
  BY DEF Fresh, KeysOf, RotatesAt

\* A new key is before its rotation.
LEMMA GenerateFresh ==
  ASSUME TypeOK, NEW v \in VirtualServer, NEW a \in Alg, Generate(v, a), NEW t \in Nat, t <= now
  PROVE  Fresh(v, a, t)'
<1> DEFINE k == NewKey(v, a)
<1>1. k \in store' /\ k.vs = v /\ k.alg = a /\ k.createdAt = now
  BY DEF Generate, NewKey
<1>2. t < k.createdAt + RotateAfter
  <2>1. now \in Nat /\ RotateAfter \in Nat /\ RotateAfter > 0
    BY RotationAssumption DEF TypeOK
  <2> HIDE DEF k
  <2> QED BY <1>1, <2>1
<1>3. \E f \in store' : f.vs = v /\ f.alg = a /\ t < f.createdAt + RotateAfter
  <2> HIDE DEF k
  <2> QED BY <1>1, <1>2
<1> QED BY <1>3 DEF Fresh, KeysOf, RotatesAt

\* Time passes and keys are added; the runs and the rows stay as they are.
LEMMA AvailQuiet ==
  ASSUME TypeOK, AvailInv, UNCHANGED <<job, configured, planned>>,
         store \subseteq store', now' \in Nat, now <= now'
  PROVE  AvailInv'
<1>1. /\ now \in Nat /\ \A r \in Runner : job[r].at \in Nat
      /\ \A v \in VirtualServer, a \in Alg : planned[v][a].at \in Nat
  BY PlannedType DEF TypeOK, RunsOK, Run
<1>2. PlannedConfigured'
  BY <1>1 DEF AvailInv, PlannedConfigured
<1>3. ASSUME NEW r \in Runner PROVE Removing(r)'
  BY <1>1 DEF AvailInv, Removing, Gone, ExpiresAt
<1>4. ASSUME NEW r \in Runner PROVE Renewing(r)'
  BY <1>1, FreshGrows DEF AvailInv, Renewing
<1>5. Covered'
  BY <1>1, FreshGrows, RotationAssumption DEF AvailInv, Covered
<1>6. QED
  BY <1>2, <1>3, <1>4, <1>5 DEF AvailInv

LEMMA AvailNext == ASSUME OneRunner PROVE TypeOK /\ AvailInv /\ [Next]_vars => AvailInv'
<1> SUFFICES ASSUME TypeOK, AvailInv, [Next]_vars PROVE AvailInv'
  OBVIOUS
<1>0. RunsOK /\ CommandsOK /\ now \in Nat
  BY DEF TypeOK
<1>1. ASSUME NEW r \in Runner, JobBegin(r) PROVE AvailInv'
  <2>1. job'[r].pc = "next" /\ job'[r].rows = configured
    BY <1>0, <1>1 DEF JobBegin, RunsOK, IdleJob
  <2>2. UNCHANGED <<now, store, planned, configured>>
    BY <1>1 DEF JobBegin
  <2>3. \A s \in Runner : s = r
    BY DEF OneRunner
  <2>4. PlannedConfigured'
    BY <2>1, <2>2, <2>3 DEF AvailInv, PlannedConfigured
  <2>5. Covered'
    BY <2>2 DEF AvailInv, Covered, Fresh, KeysOf, RotatesAt
  <2>6. QED
    BY <2>1, <2>3, <2>4, <2>5 DEF AvailInv, Removing, Renewing
<1>2. ASSUME NEW r \in Runner, NEW v \in VirtualServer, JobSnapshot(r, v) PROVE AvailInv'
  <2>1. /\ job'[r].pc = "delete" /\ job'[r].rows = job[r].rows /\ job'[r].vs = v
        /\ job'[r].at = now /\ job'[r].snap = {k \in store : k.vs = v}
        /\ job'[r].doomed = {k \in store : k.vs = v
                               /\ (ExpiresAt(k) < now \/ k.alg \notin job[r].rows[v])}
        /\ job[r].pc # "idle"
    BY <1>0, <1>2 DEF JobSnapshot, RunsOK, Run
  <2>2. UNCHANGED <<now, store, planned, configured>>
    BY <1>2 DEF JobSnapshot
  <2>3. \A s \in Runner : s = r
    BY DEF OneRunner
  <2>4. PlannedConfigured'
    BY <2>1, <2>2, <2>3 DEF AvailInv, PlannedConfigured
  <2>5. Removing(r)'
    BY <1>0, <2>1, <2>2 DEF Removing, Gone, ExpiresAt
  <2>6. QED
    BY <2>1, <2>2, <2>3, <2>4, <2>5 DEF AvailInv, Renewing, Covered, Fresh, KeysOf, RotatesAt
<1>3. ASSUME NEW r \in Runner, NEW k \in job[r].doomed, JobRemove(r, k) PROVE AvailInv'
  <2>1. /\ job'[r].pc = "delete" /\ job[r].pc = "delete" /\ job'[r].rows = job[r].rows
        /\ job'[r].vs = job[r].vs /\ job'[r].at = job[r].at /\ job'[r].snap = job[r].snap
        /\ job'[r].doomed = job[r].doomed \ {k}
    BY <1>0, <1>3 DEF JobRemove, RunsOK, Run
  <2>2. UNCHANGED <<now, planned, configured>> /\ store' = store \ {k}
    BY <1>3 DEF JobRemove
  <2>3. \A s \in Runner : s = r
    BY DEF OneRunner
  <2>4. /\ k.vs = job[r].vs /\ Gone(k, r) /\ k \in Key /\ job[r].at \in Nat /\ job[r].at <= now
    BY <1>0, <2>1, RunType DEF AvailInv, Removing, Run
  <2>5. PlannedConfigured'
    BY <2>1, <2>2, <2>3 DEF AvailInv, PlannedConfigured
  <2>6. Removing(r)'
    BY <2>1, <2>2, <2>4 DEF AvailInv, Removing, Gone, ExpiresAt
  <2>7. ASSUME NEW v \in VirtualServer, NEW a \in Alg, planned[v][a].done,
               now <= planned[v][a].at + (ExpireAfter - RotateAfter)
        PROVE  Fresh(v, a, planned[v][a].at)'
    <3>1. PICK f \in KeysOf(v, a) : planned[v][a].at < RotatesAt(f)
      BY <2>7 DEF AvailInv, Covered, Fresh
    <3>2. f \in Key /\ f.vs = v /\ f.alg = a
      BY <3>1 DEF KeysOf, TypeOK
    <3>3. now < ExpiresAt(f)
      BY <1>0, <2>7, <3>1, <3>2, KeyTimes, PlannedType
    <3>4. a \in job[r].rows[v]
      BY <2>1, <2>7 DEF AvailInv, PlannedConfigured
    <3>5. f # k
      BY <1>0, <2>4, <3>2, <3>3, <3>4, KeyTimes DEF Gone
    <3>6. QED
      BY <2>2, <3>1, <3>5 DEF Fresh, KeysOf, RotatesAt
  <2>8. Covered'
    BY <2>2, <2>7 DEF Covered
  <2>9. QED
    BY <2>1, <2>3, <2>5, <2>6, <2>8 DEF AvailInv, Renewing
<1>4. ASSUME NEW r \in Runner, JobPlan(r) PROVE AvailInv'
  <2>1. job[r] \in Run /\ job[r].vs \in VirtualServer /\ job[r].pc = "delete"
    BY <1>0, <1>4, RunType DEF JobPlan
  <2>2. /\ job'[r].pc = "generate" /\ job'[r].rows = job[r].rows
        /\ job'[r].vs = job[r].vs /\ job'[r].at = now
        /\ job'[r].rotate = Rotated(job[r].snap, now)
        /\ job'[r].seed = Unseeded(job[r].snap, job[r].rows[job[r].vs])
    BY <1>0, <1>4, <2>1 DEF JobPlan, RunsOK, Run
  <2>3. UNCHANGED <<now, store, planned, configured>>
    BY <1>4 DEF JobPlan
  <2>4. \A s \in Runner : s = r
    BY DEF OneRunner
  <2>5. PlannedConfigured'
    BY <2>1, <2>2, <2>3, <2>4 DEF AvailInv, PlannedConfigured
  <2>6. ASSUME NEW a \in job[r].rows[job[r].vs],
               a \notin job'[r].rotate, a \notin job'[r].seed
        PROVE  Fresh(job[r].vs, a, now)'
    <3>1. PICK k \in job[r].snap : k.alg = a /\ ~(RotatesAt(k) <= now)
      BY <2>2, <2>6 DEF Rotated, Unseeded, AlgsOf
    <3>2. k \in Key /\ job[r].at \in Nat
      BY <2>1 DEF Run
    <3>3. now < RotatesAt(k) /\ now < ExpiresAt(k)
      BY <1>0, <3>1, <3>2, KeyTimes
    <3>4. job[r].at <= now /\ k.vs = job[r].vs /\ (k \in store \/ Gone(k, r))
      BY <2>1 DEF AvailInv, Removing
    <3>5. ~Gone(k, r)
      BY <1>0, <3>1, <3>2, <3>3, <3>4, <2>6, KeyTimes DEF Gone
    <3>6. QED
      BY <2>2, <2>3, <3>1, <3>3, <3>4, <3>5 DEF Fresh, KeysOf, RotatesAt
  <2>7. Renewing(r)'
    BY <1>0, <2>2, <2>3, <2>6 DEF Renewing
  <2>8. Covered'
    BY <2>3 DEF AvailInv, Covered, Fresh, KeysOf, RotatesAt
  <2>9. QED
    BY <2>2, <2>4, <2>5, <2>7, <2>8 DEF AvailInv, Removing
<1>5. ASSUME NEW r \in Runner, NEW b \in job[r].rotate \union job[r].seed, JobGenerate(r, b)
      PROVE  AvailInv'
  <2>1. job[r] \in Run /\ job[r].vs \in VirtualServer /\ b \in Alg /\ job[r].pc = "generate"
    BY <1>0, <1>5, RunType DEF JobGenerate, Run
  <2>2. /\ job'[r].pc = "generate" /\ job'[r].rows = job[r].rows
        /\ job'[r].vs = job[r].vs /\ job'[r].at = job[r].at
        /\ job'[r].rotate = job[r].rotate \ {b} /\ job'[r].seed = job[r].seed \ {b}
    BY <1>0, <1>5, <2>1 DEF JobGenerate, RunsOK, Run
  <2>3. UNCHANGED <<now, planned, configured>> /\ Generate(job[r].vs, b) /\ store \subseteq store'
    BY <1>5 DEF JobGenerate, Generate
  <2>4. \A s \in Runner : s = r
    BY DEF OneRunner
  <2>5. PlannedConfigured'
    BY <2>1, <2>2, <2>3, <2>4 DEF AvailInv, PlannedConfigured
  <2>6. job[r].at \in Nat /\ job[r].at <= now
    BY <2>1 DEF AvailInv, Renewing, Run
  <2>7. PICK v \in VirtualServer, t \in Nat : v = job[r].vs /\ t = job[r].at
    BY <2>1, <2>6
  <2>8. Renewing(r)'
    <3>1. Fresh(v, b, t)'
      BY <2>1, <2>3, <2>6, <2>7, GenerateFresh
    <3>2. ASSUME NEW a \in job[r].rows[v], a \notin job'[r].rotate \union job'[r].seed, a # b
          PROVE  Fresh(v, a, t)'
      <4>1. Fresh(v, a, t)
        BY <2>1, <2>2, <2>7, <3>2 DEF AvailInv, Renewing
      <4> QED BY <2>3, <4>1, FreshGrows
    <3> QED BY <2>2, <2>3, <2>6, <2>7, <3>1, <3>2 DEF Renewing
  <2>9. Covered'
    BY <2>3, FreshGrows DEF AvailInv, Covered
  <2>10. QED
    BY <2>2, <2>4, <2>5, <2>8, <2>9 DEF AvailInv, Removing
<1>6. ASSUME NEW r \in Runner, JobAdvance(r) PROVE AvailInv'
  <2>1. /\ job[r] \in Run /\ job[r].vs \in VirtualServer /\ job[r].pc = "generate"
        /\ job[r].at \in Nat
    BY <1>0, <1>6, RunType DEF JobAdvance, Run
  <2>2. /\ job'[r].pc \in {"idle", "next"}
        /\ job'[r].pc # "idle" => job'[r].rows = job[r].rows
    <3> DEFINE todo == job[r].todo \ {job[r].vs}
               next == [IdleJob EXCEPT !.pc = "next", !.started = job[r].started,
                                      !.rows = job[r].rows, !.todo = todo]
    <3>1. IdleJob.pc = "idle" /\ next.pc = "next" /\ next.rows = job[r].rows
      BY DEF IdleJob
    <3>2. PICK j \in {IdleJob, next} : job' = [job EXCEPT ![r] = j]
      BY <1>6 DEF JobAdvance
    <3> HIDE DEF next
    <3> QED BY <1>0, <3>1, <3>2 DEF RunsOK
  <2>3. /\ UNCHANGED <<now, store, configured>> /\ job[r].rotate \union job[r].seed = {}
        /\ planned' = [planned EXCEPT ![job[r].vs] = [a \in Alg |->
              IF a \in job[r].rows[job[r].vs] \intersect configured[job[r].vs]
              THEN At(job[r].at) ELSE planned[job[r].vs][a]]]
    BY <1>6 DEF JobAdvance
  <2>4. \A s \in Runner : s = r
    BY DEF OneRunner
  <2>5. ASSUME NEW v \in VirtualServer, NEW a \in Alg
        PROVE  \/ planned'[v][a] = planned[v][a]
               \/ /\ v = job[r].vs /\ planned'[v][a] = At(job[r].at)
                  /\ a \in job[r].rows[v] /\ a \in configured[v]
    BY <2>1, <2>3 DEF TypeOK
  <2>6. job[r].at <= now
    BY <2>1 DEF AvailInv, Renewing
  <2>7. PlannedConfigured'
    BY <2>1, <2>2, <2>3, <2>4, <2>5, <2>6 DEF AvailInv, PlannedConfigured, At
  <2>8. ASSUME NEW v \in VirtualServer, NEW a \in Alg, planned'[v][a].done,
               now <= planned'[v][a].at + (ExpireAfter - RotateAfter)
        PROVE  Fresh(v, a, planned'[v][a].at)
    <3>1. CASE planned'[v][a] = planned[v][a]
      BY <2>8, <3>1 DEF AvailInv, Covered
    <3>2. CASE v = job[r].vs /\ planned'[v][a] = At(job[r].at) /\ a \in job[r].rows[v]
      BY <2>1, <2>3, <3>2 DEF AvailInv, Renewing, At
    <3> QED BY <2>5, <3>1, <3>2
  <2>9. Covered'
    BY <2>3, <2>8 DEF Covered, Fresh, KeysOf, RotatesAt
  <2>10. QED
    BY <2>2, <2>4, <2>7, <2>9 DEF AvailInv, Removing, Renewing
<1>7. ASSUME NEW r \in Runner, JobNothing(r) \/ JobFail(r) PROVE AvailInv'
  <2>1. job'[r].pc = "idle"
    BY <1>0, <1>7 DEF JobNothing, JobFail, RunsOK, IdleJob
  <2>2. UNCHANGED <<now, store, planned, configured>>
    BY <1>7 DEF JobNothing, JobFail
  <2>3. \A s \in Runner : s = r
    BY DEF OneRunner
  <2>4. PlannedConfigured'
    BY <2>1, <2>2, <2>3 DEF AvailInv, PlannedConfigured
  <2>5. Covered'
    BY <2>2 DEF AvailInv, Covered, Fresh, KeysOf, RotatesAt
  <2>6. QED
    BY <2>1, <2>3, <2>4, <2>5 DEF AvailInv, Removing, Renewing
<1>8. ASSUME NEW p \in Admin, CommandSave(p) \/ CommandFail(p) PROVE AvailInv'
  <2>1. UNCHANGED <<now, store, job>> /\ SaveRow(p) /\ command[p].pc # "idle"
    BY <1>8 DEF CommandSave, CommandFail
  <2>2. command[p].vs \in VirtualServer /\ command[p].algs \in SUBSET Alg
    BY <1>0, <2>1, CommandType DEF Command
  <2>3. CASE UNCHANGED <<configured, planned>>
    BY <1>0, <2>1, <2>3, AvailQuiet
  <2>4. CASE /\ configured' = [configured EXCEPT ![command[p].vs] = command[p].algs]
             /\ planned' = [planned EXCEPT ![command[p].vs] =
                  [a \in Alg |-> IF a \in command[p].algs THEN planned[command[p].vs][a]
                                                           ELSE Never]]
    <3>1. ASSUME NEW v \in VirtualServer, NEW a \in Alg, planned'[v][a].done
          PROVE  /\ planned'[v][a] = planned[v][a]
                 /\ v = command[p].vs => a \in command[p].algs
                 /\ configured'[v] = IF v = command[p].vs THEN command[p].algs ELSE configured[v]
      BY <2>2, <2>4, <3>1 DEF TypeOK, Never
    <3>2. PlannedConfigured'
      BY <2>1, <3>1 DEF AvailInv, PlannedConfigured
    <3>3. Covered'
      BY <2>1, <3>1 DEF AvailInv, Covered, Fresh, KeysOf, RotatesAt
    <3>4. \A r \in Runner : Removing(r)' /\ Renewing(r)'
      BY <2>1 DEF AvailInv, Removing, Renewing, Gone, Fresh, KeysOf, RotatesAt, ExpiresAt
    <3>5. QED
      BY <3>2, <3>3, <3>4 DEF AvailInv
  <2>5. QED
    BY <2>1, <2>3, <2>4 DEF SaveRow
<1>9. CASE \/ UNCHANGED vars \/ Tick
           \/ \E p \in Admin :
                \/ \E v \in VirtualServer, algs \in SUBSET Alg \ {{}} :
                      CreateBegin(p, v, algs) \/ PatchBegin(p, v, algs)
                \/ \E a \in command[p].todo : CreateGenerate(p, a) \/ PatchCheck(p, a)
                \/ PatchGenerate(p) \/ CommandLost(p)
  <2>1. /\ UNCHANGED <<job, configured, planned>> /\ store \subseteq store'
        /\ now' \in Nat /\ now <= now'
    <3>1. CASE UNCHANGED vars
      BY <1>0, <3>1 DEF vars
    <3>2. CASE Tick
      BY <1>0, <3>2 DEF Tick
    <3>3. CASE UNCHANGED <<now, job, configured, planned>> /\ store \subseteq store'
      BY <1>0, <3>3
    <3> QED BY <1>9, <3>1, <3>2, <3>3 DEF CreateBegin, PatchBegin, CreateGenerate, PatchCheck,
                                          PatchGenerate, CommandLost, Generate
  <2>2. QED
    BY <2>1, AvailQuiet
<1>10. QED
  BY <1>1, <1>2, <1>3, <1>4, <1>5, <1>6, <1>7, <1>8, <1>9 DEF Next, JobStep, CommandStep

LEMMA AvailImplies == TypeOK /\ AvailInv => KeyAvailable
<1> SUFFICES ASSUME TypeOK, AvailInv, NEW v \in VirtualServer, NEW a \in configured[v],
                    planned[v][a].done,
                    now <= planned[v][a].at + (ExpireAfter - RotateAfter)
             PROVE  \E k \in KeysOf(v, a) : now <= ExpiresAt(k)
  BY DEF KeyAvailable
<1>1. a \in Alg
  BY DEF TypeOK
<1>2. PICK k \in KeysOf(v, a) : planned[v][a].at < RotatesAt(k)
  BY <1>1 DEF AvailInv, Covered, Fresh
<1>3. k \in Key
  BY DEF KeysOf, TypeOK
<1>4. now <= ExpiresAt(k)
  BY <1>1, <1>2, <1>3, KeyTimes, PlannedType DEF TypeOK
<1> QED BY <1>2, <1>4

\* With the job on one instance, an algorithm that a run has covered has an
\* unexpired key for as long as runs succeed in time, whatever commands run
\* meanwhile and wherever runs and commands fail (KeyRotateJob.go).
THEOREM Available == ASSUME OneRunner PROVE Spec => []KeyAvailable
BY TypeInit, TypeNext, AvailInit, AvailNext, AvailImplies, PTL DEF Spec

-----------------------------------------------------------------------------
(* No pile of keys: KeysDoNotPileUp, when the job runs on one instance.    *)
(*                                                                         *)
(* The keys of an algorithm fall into two parts.  Those of J were added by *)
(* the job, and are spaced by at least a rotation period: its plan, made   *)
(* from a snapshot that holds all of J, adds one only when each of them is *)
(* due.  Every other key was paid for: a command counts once for each of   *)
(* its algorithms from its beginning, and still owes the key or has added  *)
(* it (Budget).  Nothing in the store tells the parts apart, so the        *)
(* invariant only says that there is such a J.                             *)

\* Keys whose creation times are a rotation period apart.
Spaced(J) ==
    \A k, l \in J : \/ k = l
                    \/ k.createdAt + RotateAfter <= l.createdAt
                    \/ l.createdAt + RotateAfter <= k.createdAt

\* A command that may still generate a key.
Owes(c, v, a) == c.vs = v /\ (a \in c.todo \/ (c.pc = "generate" /\ c.alg = a))
Owing(v, a) == {p \in Admin : Owes(command[p], v, a)}

\* The keys outside the rotation and those still owed are no more than the commands.
Budget(extra, owing, n) ==
    /\ IsFiniteSet(extra) /\ IsFiniteSet(owing)
    /\ Cardinality(extra) + Cardinality(owing) <= n

\* The plan of a run takes account of the keys J.
Aware(j, J, v, a) ==
    j.vs = v =>
        /\ j.pc = "delete" => J \subseteq j.snap
        /\ j.pc = "generate" /\ a \in j.rotate \union j.seed => \A k \in J : RotatesAt(k) <= j.at

\* The keys J of an algorithm are those the job has added.
Rotation(J, v, a) ==
    /\ J \subseteq KeysOf(v, a) /\ Spaced(J)
    /\ Budget(KeysOf(v, a) \ J, Owing(v, a), spent.commands)
    /\ \A r \in Runner : Aware(job[r], J, v, a)

PileInv ==
    /\ \A p \in Admin : command[p].pc = "generate" => command[p].alg \notin command[p].todo
    /\ \A r \in Runner : job[r].pc = "generate" => job[r].at <= now
    /\ \A v \in VirtualServer, a \in Alg : \E J \in SUBSET KeysOf(v, a) : Rotation(J, v, a)

LEMMA BudgetShrinks ==
  ASSUME NEW e, NEW o, NEW n \in Nat, Budget(e, o, n),
         NEW e2 \in SUBSET e, NEW o2 \in SUBSET o, NEW m \in Nat, n <= m
  PROVE  Budget(e2, o2, m)
<1>1. /\ IsFiniteSet(e2) /\ Cardinality(e2) <= Cardinality(e)
      /\ IsFiniteSet(o2) /\ Cardinality(o2) <= Cardinality(o)
  BY FS_Subset DEF Budget
<1>2. Cardinality(e) \in Nat /\ Cardinality(e2) \in Nat /\ Cardinality(o) \in Nat /\ Cardinality(o2) \in Nat
  BY <1>1, FS_CardinalityType DEF Budget
<1>3. QED
  BY <1>1, <1>2 DEF Budget

LEMMA OneMore ==
  ASSUME NEW S, IsFiniteSet(S), NEW x
  PROVE  /\ IsFiniteSet(S \union {x}) /\ Cardinality(S \union {x}) \in Nat
         /\ Cardinality(S \union {x}) <= Cardinality(S) + 1
<1>1. Cardinality(S) \in Nat
  BY FS_CardinalityType
<1>2. /\ IsFiniteSet(S \union {x})
      /\ Cardinality(S \union {x}) = IF x \in S THEN Cardinality(S) ELSE Cardinality(S) + 1
  BY FS_AddElement
<1>3. QED
  BY <1>1, <1>2

LEMMA BudgetGrows ==
  ASSUME NEW e, NEW o, NEW n \in Nat, Budget(e, o, n), NEW p, NEW o2 \in SUBSET (o \union {p})
  PROVE  Budget(e, o2, n + 1)
<1>1. IsFiniteSet(e) /\ IsFiniteSet(o) /\ Cardinality(e) \in Nat /\ Cardinality(o) \in Nat
  BY FS_CardinalityType DEF Budget
<1>2. /\ IsFiniteSet(o \union {p}) /\ Cardinality(o \union {p}) \in Nat
      /\ Cardinality(o \union {p}) <= Cardinality(o) + 1
  BY <1>1, OneMore
<1>3. Budget(e, o \union {p}, n + 1)
  BY <1>1, <1>2 DEF Budget
<1>4. QED
  BY <1>3, BudgetShrinks

LEMMA BudgetSpent ==
  ASSUME NEW e, NEW o, NEW n \in Nat, Budget(e, o, n), NEW p \in o, NEW k,
         NEW e2 \in SUBSET (e \union {k}), NEW o2 \in SUBSET (o \ {p})
  PROVE  Budget(e2, o2, n)
<1>1. IsFiniteSet(e) /\ IsFiniteSet(o) /\ Cardinality(e) \in Nat /\ Cardinality(o) \in Nat
  BY FS_CardinalityType DEF Budget
<1>2. /\ IsFiniteSet(e \union {k}) /\ Cardinality(e \union {k}) \in Nat
      /\ Cardinality(e \union {k}) <= Cardinality(e) + 1
  BY <1>1, OneMore
<1>3. IsFiniteSet(o \ {p}) /\ Cardinality(o \ {p}) = Cardinality(o) - 1
  BY <1>1, FS_RemoveElement
<1>4. Budget(e \union {k}, o \ {p}, n)
  BY <1>1, <1>2, <1>3 DEF Budget
<1>5. QED
  BY <1>4, BudgetShrinks

LEMMA PileInit == Init => PileInv
<1> SUFFICES ASSUME Init PROVE PileInv
  OBVIOUS
<1>1. ASSUME NEW v \in VirtualServer, NEW a \in Alg PROVE Rotation({}, v, a)
  <2>1. KeysOf(v, a) = {} /\ Spaced({})
    BY DEF Init, KeysOf, Spaced
  <2>2. \A p \in Admin : command[p] = IdleCommand
    BY DEF Init
  <2>3. Owing(v, a) = {}
    BY <2>2, RotationAssumption DEF Owing, Owes, IdleCommand
  <2>4. Budget({}, {}, spent.commands)
    BY FS_EmptySet DEF Init, Budget
  <2>5. \A r \in Runner : Aware(job[r], {}, v, a)
    BY DEF Init, Aware, IdleJob
  <2>6. QED
    BY <2>1, <2>3, <2>4, <2>5 DEF Rotation
<1>2. (\A p \in Admin : command[p].pc = "idle") /\ (\A r \in Runner : job[r].pc = "idle")
  BY DEF Init, IdleJob, IdleCommand
<1>3. QED
  BY <1>1, <1>2 DEF PileInv

\* No key is added and no command is under way that was not before.
LEMMA PileQuiet ==
  ASSUME TypeOK, PileInv, store' \subseteq store, spent'.commands = spent.commands,
         \A v \in VirtualServer, a \in Alg : Owing(v, a)' \subseteq Owing(v, a),
         \A r \in Runner : \A v \in VirtualServer, a \in Alg : \A J \in SUBSET KeysOf(v, a) :
             Aware(job[r], J, v, a) => Aware(job'[r], J \intersect store', v, a),
         \A p \in Admin : command'[p].pc = "generate" => command'[p].alg \notin command'[p].todo,
         \A r \in Runner : job'[r].pc = "generate" => job'[r].at <= now'
  PROVE  PileInv'
<1>1. ASSUME NEW v \in VirtualServer, NEW a \in Alg PROVE (\E J \in SUBSET KeysOf(v, a) : Rotation(J, v, a))'
  <2>1. PICK J \in SUBSET KeysOf(v, a) : Rotation(J, v, a)
    BY DEF PileInv
  <2>2. PICK kept \in SUBSET J : kept = J \intersect store'
    OBVIOUS
  <2>3. J \subseteq KeysOf(v, a) /\ kept \subseteq KeysOf(v, a)' /\ KeysOf(v, a)' \ kept \subseteq KeysOf(v, a) \ J
    BY <2>1, <2>2 DEF Rotation, KeysOf
  <2>4. Spaced(kept)
    BY <2>1, <2>2 DEF Rotation, Spaced
  <2>5. spent.commands \in Nat
    BY DEF TypeOK
  <2>6. Budget(KeysOf(v, a)' \ kept, Owing(v, a)', spent.commands)
    BY <2>1, <2>3, <2>5, BudgetShrinks DEF Rotation
  <2>7. \A r \in Runner : Aware(job'[r], kept, v, a)
    BY <2>1, <2>2, <2>3 DEF Rotation
  <2>8. Rotation(kept, v, a)'
    BY <2>3, <2>4, <2>6, <2>7 DEF Rotation, Aware, Spaced, Budget, RotatesAt
  <2>9. QED
    BY <2>3, <2>8
<1>2. QED
  BY <1>1 DEF PileInv

\* A run goes on without adding a key.
LEMMA PileRun ==
  ASSUME TypeOK, PileInv, NEW r \in Runner, NEW j \in Run, job' = [job EXCEPT ![r] = j],
         UNCHANGED <<now, command>>, spent'.commands = spent.commands, store' \subseteq store,
         \A v \in VirtualServer, a \in Alg : \A J \in SUBSET KeysOf(v, a) :
             Aware(job[r], J, v, a) => Aware(j, J \intersect store', v, a),
         j.pc = "generate" => j.at <= now
  PROVE  PileInv'
<1>1. job'[r] = j /\ \A s \in Runner : s # r => job'[s] = job[s]
  BY DEF TypeOK, RunsOK
<1>2. \A v \in VirtualServer, a \in Alg : Owing(v, a)' \subseteq Owing(v, a)
  BY DEF Owing, Owes
<1>3. ASSUME NEW s \in Runner, NEW v \in VirtualServer, NEW a \in Alg, NEW J \in SUBSET KeysOf(v, a),
             Aware(job[s], J, v, a)
      PROVE  Aware(job'[s], J \intersect store', v, a)
  <2>1. CASE s = r
    BY <1>1, <1>3, <2>1
  <2>2. CASE s # r
    BY <1>1, <1>3, <2>2 DEF Aware
  <2>3. QED
    BY <2>1, <2>2
<1>4. \A p \in Admin : command'[p].pc = "generate" => command'[p].alg \notin command'[p].todo
  BY DEF PileInv
<1>5. \A s \in Runner : job'[s].pc = "generate" => job'[s].at <= now'
  BY <1>1 DEF PileInv
<1>6. QED
  BY <1>2, <1>3, <1>4, <1>5, PileQuiet

\* A command does not add a key.
LEMMA PileCommand ==
  ASSUME TypeOK, PileInv, NEW p \in Admin, NEW c, command' = [command EXCEPT ![p] = c],
         UNCHANGED <<now, store, job>>, spent'.commands = spent.commands,
         \A v \in VirtualServer, a \in Alg : Owes(c, v, a) => Owes(command[p], v, a),
         c.pc = "generate" => c.alg \notin c.todo
  PROVE  PileInv'
<1>1. command'[p] = c /\ \A q \in Admin : q # p => command'[q] = command[q]
  BY DEF TypeOK, CommandsOK
<1>2. ASSUME NEW v \in VirtualServer, NEW a \in Alg PROVE Owing(v, a)' \subseteq Owing(v, a)
  <2>1. ASSUME NEW q \in Admin, Owes(command'[q], v, a) PROVE Owes(command[q], v, a)
    BY <1>1, <2>1
  <2>2. QED
    BY <2>1 DEF Owing, Owes
<1>3. ASSUME NEW r \in Runner, NEW v \in VirtualServer, NEW a \in Alg, NEW J \in SUBSET KeysOf(v, a),
             Aware(job[r], J, v, a)
      PROVE  Aware(job'[r], J \intersect store', v, a)
  BY <1>3 DEF Aware, KeysOf
<1>4. \A q \in Admin : command'[q].pc = "generate" => command'[q].alg \notin command'[q].todo
  BY <1>1 DEF PileInv
<1>5. \A r \in Runner : job'[r].pc = "generate" => job'[r].at <= now'
  BY DEF PileInv
<1>6. QED
  BY <1>2, <1>3, <1>4, <1>5, PileQuiet

\* A command begins, which may add a key to each of its algorithms.
LEMMA PileBegins ==
  ASSUME TypeOK, PileInv, NEW p \in Admin, NEW c, command' = [command EXCEPT ![p] = c],
         UNCHANGED <<now, store, job>>, spent'.commands = spent.commands + 1, c.pc # "generate"
  PROVE  PileInv'
<1>1. command'[p] = c /\ \A q \in Admin : q # p => command'[q] = command[q]
  BY DEF TypeOK, CommandsOK
<1>2. ASSUME NEW v \in VirtualServer, NEW a \in Alg PROVE (\E J \in SUBSET KeysOf(v, a) : Rotation(J, v, a))'
  <2>1. PICK J \in SUBSET KeysOf(v, a) : Rotation(J, v, a)
    BY DEF PileInv
  <2>2. Owing(v, a)' \subseteq Owing(v, a) \union {p}
    BY <1>1 DEF Owing, Owes
  <2>3. spent.commands \in Nat
    BY DEF TypeOK
  <2>4. Budget(KeysOf(v, a) \ J, Owing(v, a)', spent.commands + 1)
    BY <2>1, <2>2, <2>3, BudgetGrows DEF Rotation
  <2>5. KeysOf(v, a)' = KeysOf(v, a)
    BY DEF KeysOf
  <2>6. Rotation(J, v, a)'
    BY <2>1, <2>4, <2>5 DEF Rotation, Aware, Spaced, Budget, RotatesAt
  <2>7. QED
    BY <2>5, <2>6
<1>3. \A q \in Admin : command'[q].pc = "generate" => command'[q].alg \notin command'[q].todo
  BY <1>1 DEF PileInv
<1>4. QED
  BY <1>2, <1>3 DEF PileInv

LEMMA NewKeyFields ==
  ASSUME NEW v, NEW a
  PROVE  NewKey(v, a).vs = v /\ NewKey(v, a).alg = a /\ NewKey(v, a).createdAt = now
  BY DEF NewKey

\* A command adds the key it still had to add.
LEMMA PileAdds ==
  ASSUME TypeOK, PileInv, NEW p \in Admin, NEW c, command' = [command EXCEPT ![p] = c],
         UNCHANGED <<now, spent, job>>, NEW v \in VirtualServer, NEW a \in Alg, Generate(v, a),
         Owes(command[p], v, a), ~Owes(c, v, a), c.pc # "generate",
         \A w \in VirtualServer, b \in Alg : Owes(c, w, b) => Owes(command[p], w, b)
  PROVE  PileInv'
<1>1. command'[p] = c /\ \A q \in Admin : q # p => command'[q] = command[q]
  BY DEF TypeOK, CommandsOK
<1>2. PICK k : k = NewKey(v, a) /\ k.vs = v /\ k.alg = a
  BY NewKeyFields
<1>3. store' = store \union {k}
  BY <1>2 DEF Generate
<1>4. ASSUME NEW w \in VirtualServer, NEW b \in Alg PROVE (\E J \in SUBSET KeysOf(w, b) : Rotation(J, w, b))'
  <2>1. PICK J \in SUBSET KeysOf(w, b) : Rotation(J, w, b)
    BY DEF PileInv
  <2>2. J \subseteq KeysOf(w, b)'
    BY <1>3, <2>1 DEF KeysOf
  <2>3. ASSUME NEW q \in Admin, Owes(command'[q], w, b) PROVE Owes(command[q], w, b)
    BY <1>1, <2>3
  <2>4. Owing(w, b)' \subseteq Owing(w, b)
    BY <2>3 DEF Owing, Owes
  <2>5. spent.commands \in Nat
    BY DEF TypeOK
  <2>6. Budget(KeysOf(w, b)' \ J, Owing(w, b)', spent.commands)
    <3>1. CASE w = v /\ b = a
      <4>1. p \in Owing(w, b) /\ p \notin Owing(w, b)'
        BY <1>1, <3>1 DEF Owing, Owes
      <4>2. KeysOf(w, b)' \ J \subseteq (KeysOf(w, b) \ J) \union {k}
        BY <1>3 DEF KeysOf
      <4>3. Owing(w, b)' \subseteq Owing(w, b) \ {p}
        BY <2>4, <4>1
      <4>4. PICK e, o, n : e = KeysOf(w, b) \ J /\ o = Owing(w, b) /\ n = spent.commands
        OBVIOUS
      <4>5. PICK e2, o2 : e2 = KeysOf(w, b)' \ J /\ o2 = Owing(w, b)'
        OBVIOUS
      <4>6. n \in Nat /\ Budget(e, o, n)
        BY <2>1, <2>5, <4>4 DEF Rotation
      <4>7. p \in o /\ e2 \in SUBSET (e \union {k}) /\ o2 \in SUBSET (o \ {p})
        BY <4>1, <4>2, <4>3, <4>4, <4>5
      <4>8. Budget(e2, o2, n)
        BY <4>6, <4>7, BudgetSpent
      <4>9. QED
        BY <4>4, <4>5, <4>8
    <3>2. CASE ~(w = v /\ b = a)
      <4>1. KeysOf(w, b)' \ J \subseteq KeysOf(w, b) \ J
        BY <1>2, <1>3, <3>2 DEF KeysOf
      <4>2. QED
        BY <2>1, <2>4, <2>5, <4>1, BudgetShrinks DEF Rotation
    <3>3. QED
      BY <3>1, <3>2
  <2>7. Rotation(J, w, b)'
    BY <2>1, <2>2, <2>6 DEF Rotation, Aware, Spaced, Budget, RotatesAt
  <2>8. QED
    BY <2>2, <2>7
<1>5. \A q \in Admin : command'[q].pc = "generate" => command'[q].alg \notin command'[q].todo
  BY <1>1 DEF PileInv
<1>6. \A r \in Runner : job'[r].pc = "generate" => job'[r].at <= now'
  BY DEF PileInv
<1>7. QED
  BY <1>4, <1>5, <1>6 DEF PileInv

\* The only run adds a key to the rotation.
LEMMA PileRotates ==
  ASSUME OneRunner, TypeOK, PurgeInv, PileInv, NEW r \in Runner, NEW a \in job[r].rotate \union job[r].seed,
         JobGenerate(r, a)
  PROVE  PileInv'
<1>1. PICK j : j = [job[r] EXCEPT !.rotate = job[r].rotate \ {a}, !.seed = job[r].seed \ {a}]
  OBVIOUS
<1>2. job' = [job EXCEPT ![r] = j] /\ UNCHANGED <<now, command, spent>> /\ job[r].pc = "generate"
  BY <1>1 DEF JobGenerate
<1>3. job[r] \in Run /\ job[r].vs \in VirtualServer /\ RunsOK
  BY <1>2, RunType DEF TypeOK
<1>4. PICK v \in VirtualServer : v = job[r].vs /\ Generate(v, a)
  BY <1>3 DEF JobGenerate
<1>5. /\ j.pc = job[r].pc /\ j.vs = v /\ j.at = job[r].at /\ a \notin j.rotate \union j.seed
      /\ j.rotate \subseteq job[r].rotate /\ j.seed \subseteq job[r].seed
  BY <1>1, <1>3, <1>4 DEF Run
<1>6. \A s \in Runner : job'[s] = j /\ job[s] = job[r]
  BY <1>2, <1>3 DEF OneRunner, RunsOK
<1>7. a \in Alg /\ job[r].at \in Nat /\ now \in Nat /\ job[r].at <= now
  BY <1>2, <1>3 DEF PileInv, Run, TypeOK
<1>8. PICK k : k = NewKey(v, a) /\ k.vs = v /\ k.alg = a /\ k.createdAt = now
  BY NewKeyFields
<1>9. store' = store \union {k}
  BY <1>4, <1>8 DEF Generate
<1>10. ASSUME NEW w \in VirtualServer, NEW b \in Alg PROVE (\E J \in SUBSET KeysOf(w, b) : Rotation(J, w, b))'
  <2>1. PICK J \in SUBSET KeysOf(w, b) : Rotation(J, w, b)
    BY DEF PileInv
  <2>2. Owing(w, b)' = Owing(w, b)
    BY <1>2 DEF Owing, Owes
  <2>3. spent.commands \in Nat
    BY DEF TypeOK
  <2>4. CASE w = v /\ b = a
    <3>1. PICK J2 : J2 = J \union {k}
      OBVIOUS
    <3>2. J2 \subseteq KeysOf(w, b)' /\ KeysOf(w, b)' \ J2 \subseteq KeysOf(w, b) \ J
      BY <1>8, <1>9, <2>1, <2>4, <3>1 DEF KeysOf
    <3>3. \A l \in J : RotatesAt(l) <= job[r].at
      BY <1>2, <1>4, <2>1, <2>4 DEF Rotation, Aware
    <3>4. \A l \in J : l.createdAt \in Nat
      BY <2>1 DEF KeysOf, TypeOK, Key
    <3>5. \A l \in J : l.createdAt + RotateAfter <= k.createdAt
      BY <1>7, <1>8, <3>3, <3>4, RotationAssumption DEF RotatesAt
    <3>6. Spaced(J2)
      BY <2>1, <3>1, <3>5 DEF Rotation, Spaced
    <3>7. Budget(KeysOf(w, b)' \ J2, Owing(w, b)', spent.commands)
      BY <2>1, <2>2, <2>3, <3>2, BudgetShrinks DEF Rotation
    <3>8. Aware(j, J2, w, b)
      BY <1>2, <1>5, <2>4 DEF Aware
    <3>9. Rotation(J2, w, b)'
      BY <1>2, <1>6, <3>2, <3>6, <3>7, <3>8 DEF Rotation, Aware, Spaced, Budget, RotatesAt
    <3>10. QED
      BY <3>2, <3>9
  <2>5. CASE ~(w = v /\ b = a)
    <3>1. KeysOf(w, b)' = KeysOf(w, b)
      BY <1>8, <1>9, <2>5 DEF KeysOf
    <3>2. Aware(job[r], J, w, b) => Aware(j, J, w, b)
      BY <1>2, <1>4, <1>5 DEF Aware
    <3>3. Rotation(J, w, b)'
      BY <1>2, <1>6, <2>1, <2>2, <3>1, <3>2 DEF Rotation, Aware, Spaced, Budget, RotatesAt
    <3>4. QED
      BY <3>1, <3>3
  <2>6. QED
    BY <2>4, <2>5
<1>11. \A p \in Admin : command'[p].pc = "generate" => command'[p].alg \notin command'[p].todo
  BY <1>2 DEF PileInv
<1>12. \A s \in Runner : job'[s].pc = "generate" => job'[s].at <= now'
  BY <1>2, <1>5, <1>6, <1>7
<1>13. QED
  BY <1>10, <1>11, <1>12 DEF PileInv

LEMMA PileNext == ASSUME OneRunner PROVE TypeOK /\ PurgeInv /\ PileInv /\ [Next]_vars => PileInv'
<1> SUFFICES ASSUME OneRunner, TypeOK, PurgeInv, PileInv, [Next]_vars PROVE PileInv'
  OBVIOUS
<1>1. RunsOK /\ CommandsOK /\ now \in Nat /\ store \subseteq Key /\ spent.commands \in Nat
  BY DEF TypeOK
<1>2. ASSUME NEW r \in Runner, JobBegin(r) \/ JobNothing(r) \/ JobFail(r) \/ JobAdvance(r) PROVE PileInv'
  <2>1. PICK begun : begun = [IdleJob EXCEPT !.pc = "next", !.started = now, !.rows = configured,
                                            !.todo = {v \in VirtualServer : configured[v] # {}}]
    OBVIOUS
  <2>2. PICK next : next = [IdleJob EXCEPT !.pc = "next", !.started = job[r].started,
                              !.rows = job[r].rows, !.todo = job[r].todo \ {job[r].vs}]
    OBVIOUS
  <2>3. begun \in Run /\ begun.pc = "next"
    BY <2>1, IdleTypes DEF Run, IdleJob, TypeOK
  <2>4. next \in Run /\ next.pc = "next"
    <3>1. job[r] \in Run
      BY <1>1, RunType
    <3>2. QED
      BY <2>2, <3>1, IdleTypes DEF Run, IdleJob
  <2>5. IdleJob \in Run /\ IdleJob.pc = "idle"
    BY IdleTypes DEF IdleJob
  <2>6. PICK j \in {begun, next, IdleJob} : job' = [job EXCEPT ![r] = j]
    BY <1>2, <2>1, <2>2 DEF JobBegin, JobNothing, JobFail, JobAdvance
  <2>7. UNCHANGED <<now, command, store>> /\ spent'.commands = spent.commands
    BY <1>2 DEF JobBegin, JobNothing, JobFail, JobAdvance, TypeOK
  <2>8. j \in Run /\ j.pc \in {"idle", "next"}
    BY <2>3, <2>4, <2>5, <2>6
  <2>9. ASSUME NEW w \in VirtualServer, NEW a \in Alg, NEW J \in SUBSET KeysOf(w, a)
        PROVE  Aware(j, J \intersect store', w, a)
    BY <2>8 DEF Aware
  <2>10. QED
    BY <2>6, <2>7, <2>8, <2>9, PileRun
<1>3. ASSUME NEW r \in Runner, NEW v \in VirtualServer, JobSnapshot(r, v) PROVE PileInv'
  <2>1. PICK snap : snap = {k \in store : k.vs = v}
    OBVIOUS
  <2>2. PICK doomed : doomed = {k \in snap : ExpiresAt(k) < now \/ k.alg \notin job[r].rows[v]}
    OBVIOUS
  <2>3. PICK j : j = [job[r] EXCEPT !.pc = "delete", !.vs = v, !.snap = snap, !.at = now, !.doomed = doomed]
    OBVIOUS
  <2>4. job' = [job EXCEPT ![r] = j] /\ UNCHANGED <<now, command, store, spent>>
    BY <1>3, <2>1, <2>2, <2>3 DEF JobSnapshot
  <2>5. job[r] \in Run
    BY <1>1, RunType
  <2>6. snap \subseteq Key /\ doomed \subseteq Key
    BY <1>1, <2>1, <2>2
  <2>7. j \in Run /\ j.pc = "delete" /\ j.vs = v /\ j.snap = snap
    BY <1>1, <2>3, <2>5, <2>6 DEF Run
  <2>8. ASSUME NEW w \in VirtualServer, NEW a \in Alg, NEW J \in SUBSET KeysOf(w, a)
        PROVE  Aware(j, J \intersect store', w, a)
    BY <2>1, <2>7 DEF Aware, KeysOf
  <2>9. QED
    BY <2>4, <2>7, <2>8, PileRun
<1>4. ASSUME NEW r \in Runner, NEW k \in job[r].doomed, JobRemove(r, k) PROVE PileInv'
  <2>1. PICK j : j = [job[r] EXCEPT !.doomed = job[r].doomed \ {k}]
    OBVIOUS
  <2>2. /\ job' = [job EXCEPT ![r] = j] /\ UNCHANGED <<now, command, spent>>
        /\ store' \subseteq store /\ job[r].pc = "delete"
    BY <1>4, <2>1 DEF JobRemove
  <2>3. job[r] \in Run
    BY <1>1, RunType
  <2>4. j \in Run /\ j.pc = "delete" /\ j.vs = job[r].vs /\ j.snap = job[r].snap
    BY <2>1, <2>2, <2>3 DEF Run
  <2>5. ASSUME NEW w \in VirtualServer, NEW a \in Alg, NEW J \in SUBSET KeysOf(w, a), Aware(job[r], J, w, a)
        PROVE  Aware(j, J \intersect store', w, a)
    BY <2>2, <2>4, <2>5 DEF Aware
  <2>6. QED
    BY <2>2, <2>4, <2>5, PileRun
<1>5. ASSUME NEW r \in Runner, JobPlan(r) PROVE PileInv'
  <2>1. PICK rotate, seed : /\ rotate = Rotated(job[r].snap, now)
                            /\ seed = Unseeded(job[r].snap, job[r].rows[job[r].vs])
    OBVIOUS
  <2>2. PICK j : j = [job[r] EXCEPT !.pc = "generate", !.at = now, !.snap = {},
                                    !.rotate = rotate, !.seed = seed]
    OBVIOUS
  <2>3. /\ job' = [job EXCEPT ![r] = j] /\ UNCHANGED <<now, command, spent, store>>
        /\ job[r].pc = "delete"
    BY <1>5, <2>1, <2>2 DEF JobPlan
  <2>4. job[r] \in Run /\ job[r].vs \in VirtualServer
    BY <1>1, <2>3, RunType
  <2>5. rotate \subseteq Alg /\ seed \subseteq Alg
    BY <2>1, <2>4 DEF Rotated, Unseeded, AlgsOf, Run, Key
  <2>6. /\ j \in Run /\ j.pc = "generate" /\ j.vs = job[r].vs /\ j.at = now
        /\ j.rotate = rotate /\ j.seed = seed
    BY <1>1, <2>2, <2>4, <2>5 DEF Run
  <2>7. ASSUME NEW w \in VirtualServer, NEW a \in Alg, NEW J \in SUBSET KeysOf(w, a), Aware(job[r], J, w, a)
        PROVE  Aware(j, J \intersect store', w, a)
    <3>1. SUFFICES ASSUME job[r].vs = w, a \in rotate \union seed, NEW k \in J PROVE RotatesAt(k) <= now
      BY <2>6 DEF Aware
    <3>2. k \in job[r].snap /\ k.alg = a
      BY <2>3, <2>7, <3>1 DEF Aware, KeysOf
    <3>3. a \in rotate
      BY <2>1, <3>1, <3>2 DEF Unseeded, AlgsOf
    <3>4. QED
      BY <2>1, <3>2, <3>3 DEF Rotated
  <2>8. j.at <= now /\ store' \subseteq store
    BY <1>1, <2>3, <2>6
  <2>9. QED
    BY <2>3, <2>6, <2>7, <2>8, PileRun
<1>6. ASSUME NEW p \in Admin, NEW v \in VirtualServer, NEW algs \in SUBSET Alg,
             CreateBegin(p, v, algs) \/ PatchBegin(p, v, algs)
      PROVE  PileInv'
  <2>1. PICK c \in {[pc |-> pc, vs |-> v, algs |-> algs, base |-> version[v], todo |-> algs, alg |-> None] :
                      pc \in {"create", "check"}} : command' = [command EXCEPT ![p] = c]
    BY <1>6 DEF CreateBegin, PatchBegin
  <2>2. UNCHANGED <<now, store, job>> /\ spent'.commands = spent.commands + 1
    BY <1>6 DEF CreateBegin, PatchBegin, TypeOK
  <2>3. c.pc # "generate"
    BY <2>1
  <2>4. QED
    BY <2>1, <2>2, <2>3, PileBegins
<1>7. ASSUME NEW p \in Admin, NEW a \in command[p].todo, CreateGenerate(p, a) PROVE PileInv'
  <2>1. PICK c : c = [command[p] EXCEPT !.todo = command[p].todo \ {a}]
    OBVIOUS
  <2>2. command[p] \in Command /\ command[p].vs \in VirtualServer /\ command[p].pc = "create"
    BY <1>1, <1>7, CommandType DEF CreateGenerate
  <2>3. /\ command' = [command EXCEPT ![p] = c] /\ Generate(command[p].vs, a)
        /\ UNCHANGED <<now, spent, job>>
    BY <1>7, <2>1 DEF CreateGenerate
  <2>4. c.pc = "create" /\ c.vs = command[p].vs /\ c.todo = command[p].todo \ {a} /\ a \in Alg
    BY <2>1, <2>2 DEF Command
  <2>5. /\ Owes(command[p], command[p].vs, a) /\ ~Owes(c, command[p].vs, a)
        /\ \A w \in VirtualServer, b \in Alg : Owes(c, w, b) => Owes(command[p], w, b)
    BY <2>4 DEF Owes
  <2>6. QED
    BY <2>2, <2>3, <2>4, <2>5, PileAdds
<1>8. ASSUME NEW p \in Admin, NEW a \in command[p].todo, PatchCheck(p, a) PROVE PileInv'
  <2>1. PICK pc \in {"generate", "check"} :
            pc = IF KeysOf(command[p].vs, a) = {} THEN "generate" ELSE "check"
    OBVIOUS
  <2>2. PICK c : c = [command[p] EXCEPT !.todo = command[p].todo \ {a}, !.pc = pc, !.alg = a]
    OBVIOUS
  <2>3. command[p] \in Command
    BY <1>1, CommandType
  <2>4. command' = [command EXCEPT ![p] = c] /\ UNCHANGED <<now, spent, job, store>>
    BY <1>8, <2>1, <2>2 DEF PatchCheck
  <2>5. c.pc = pc /\ c.vs = command[p].vs /\ c.todo = command[p].todo \ {a} /\ c.alg = a
    BY <2>2, <2>3 DEF Command
  <2>6. \A w \in VirtualServer, b \in Alg : Owes(c, w, b) => Owes(command[p], w, b)
    BY <2>5 DEF Owes
  <2>7. QED
    BY <2>4, <2>5, <2>6, PileCommand
<1>9. ASSUME NEW p \in Admin, PatchGenerate(p) PROVE PileInv'
  <2>1. PICK c : c = [command[p] EXCEPT !.pc = "check"]
    OBVIOUS
  <2>2. /\ command[p] \in Command /\ command[p].vs \in VirtualServer /\ command[p].alg \in Alg
        /\ command[p].pc = "generate"
    BY <1>1, <1>9, CommandType DEF PatchGenerate
  <2>3. /\ command' = [command EXCEPT ![p] = c] /\ Generate(command[p].vs, command[p].alg)
        /\ UNCHANGED <<now, spent, job>>
    BY <1>9, <2>1 DEF PatchGenerate
  <2>4. c.pc = "check" /\ c.vs = command[p].vs /\ c.todo = command[p].todo
    BY <2>1, <2>2 DEF Command
  <2>5. /\ Owes(command[p], command[p].vs, command[p].alg) /\ ~Owes(c, command[p].vs, command[p].alg)
        /\ \A w \in VirtualServer, b \in Alg : Owes(c, w, b) => Owes(command[p], w, b)
    BY <2>2, <2>4 DEF Owes, PileInv
  <2>6. QED
    BY <2>2, <2>3, <2>4, <2>5, PileAdds
<1>10. ASSUME NEW p \in Admin, CommandSave(p) \/ CommandFail(p) \/ CommandLost(p) PROVE PileInv'
  <2>1. command' = [command EXCEPT ![p] = IdleCommand] /\ UNCHANGED <<now, store, job>>
    BY <1>10 DEF CommandSave, CommandFail, CommandLost
  <2>2. spent'.commands = spent.commands
    BY <1>10 DEF CommandSave, CommandFail, CommandLost, TypeOK
  <2>3. IdleCommand.pc = "idle" /\ \A w \in VirtualServer, a \in Alg : ~Owes(IdleCommand, w, a)
    BY DEF IdleCommand, Owes
  <2>4. QED
    BY <2>1, <2>2, <2>3, PileCommand
<1>11. CASE Tick \/ UNCHANGED vars
  <2>1. UNCHANGED <<command, store, job, spent>> /\ now <= now' /\ now' \in Nat
    BY <1>1, <1>11 DEF Tick, vars
  <2>2. ASSUME NEW r \in Runner, job[r].pc = "generate" PROVE job[r].at <= now'
    <3>1. job[r].at \in Nat
      BY <1>1, RunType DEF Run
    <3>2. QED
      BY <1>1, <2>1, <2>2, <3>1 DEF PileInv
  <2>3. \A v \in VirtualServer, a \in Alg : Owing(v, a)' \subseteq Owing(v, a)
    BY <2>1 DEF Owing, Owes
  <2>4. ASSUME NEW r \in Runner, NEW v \in VirtualServer, NEW a \in Alg, NEW J \in SUBSET KeysOf(v, a),
               Aware(job[r], J, v, a)
        PROVE  Aware(job'[r], J \intersect store', v, a)
    BY <2>1, <2>4 DEF Aware, KeysOf
  <2>5. \A p \in Admin : command'[p].pc = "generate" => command'[p].alg \notin command'[p].todo
    BY <2>1 DEF PileInv
  <2>6. QED
    BY <2>1, <2>2, <2>3, <2>4, <2>5, PileQuiet
<1>12. QED
  BY <1>2, <1>3, <1>4, <1>5, <1>6, <1>7, <1>8, <1>9, <1>10, <1>11, PileRotates
     DEF Next, JobStep, CommandStep

LEMMA Division ==
  ASSUME NEW x \in Nat, NEW y \in Nat, NEW n \in Nat \ {0}
  PROVE  /\ x \div n \in Nat
         /\ x <= y => x \div n <= y \div n
         /\ x + n <= y => x \div n < y \div n
  OBVIOUS

\* Keys that are spaced by a rotation period and have not expired are few.
LEMMA FewInRotation ==
  ASSUME NEW t \in Nat, NEW J \in SUBSET Key, Spaced(J),
         \A k \in J : k.createdAt <= t /\ t <= ExpiresAt(k)
  PROVE  IsFiniteSet(J) /\ Cardinality(J) \in Nat /\ Cardinality(J) <= (ExpireAfter \div RotateAfter) + 1
<1>1. PICK periods \in Nat : periods = ExpireAfter \div RotateAfter
  BY RotationAssumption, Division
<1>2. ASSUME NEW k \in J
      PROVE  k.createdAt + ExpireAfter - t \in Nat /\ k.createdAt + ExpireAfter - t <= ExpireAfter
  BY RotationAssumption DEF Key, ExpiresAt
<1>3. PICK f : f = [k \in J |-> (k.createdAt + ExpireAfter - t) \div RotateAfter]
  OBVIOUS
<1>4. ASSUME NEW k \in J PROVE f[k] \in 0 .. periods
  BY <1>1, <1>2, <1>3, RotationAssumption, Division
<1>5. ASSUME NEW k \in J, NEW l \in J, f[k] = f[l] PROVE k = l
  <2>1. ASSUME NEW p \in J, NEW q \in J, p.createdAt + RotateAfter <= q.createdAt PROVE f[p] < f[q]
    <3>1. PICK x \in Nat, y \in Nat : x = p.createdAt + ExpireAfter - t /\ y = q.createdAt + ExpireAfter - t
      BY <1>2
    <3>2. x + RotateAfter <= y
      BY <2>1, <3>1, RotationAssumption DEF Key
    <3>3. x \div RotateAfter < y \div RotateAfter
      BY <3>2, RotationAssumption, Division
    <3>4. QED
      BY <1>3, <3>1, <3>3
  <2>2. f[k] \in Nat /\ f[l] \in Nat
    BY <1>4
  <2>3. QED
    BY <1>5, <2>1, <2>2 DEF Spaced
<1>6. f \in Injection(J, 0 .. periods)
  BY <1>3, <1>4, <1>5 DEF Injection, IsInjective
<1>7. IsFiniteSet(0 .. periods) /\ Cardinality(0 .. periods) = periods + 1
  BY FS_Interval
<1>8. IsFiniteSet(J) /\ Cardinality(J) <= Cardinality(0 .. periods)
  BY <1>6, <1>7, FS_Injection
<1>9. QED
  BY <1>1, <1>7, <1>8, FS_CardinalityType

LEMMA PileImplies == TypeOK /\ PurgeInv /\ PileInv => KeysDoNotPileUp
<1> SUFFICES ASSUME TypeOK, PurgeInv, PileInv, NEW v \in VirtualServer, NEW a \in Alg
             PROVE  Cardinality({k \in KeysOf(v, a) : now <= ExpiresAt(k)})
                       <= (ExpireAfter \div RotateAfter) + 1 + spent.commands
  BY DEF KeysDoNotPileUp
<1>1. PICK live : live = {k \in KeysOf(v, a) : now <= ExpiresAt(k)}
  OBVIOUS
<1>2. PICK J \in SUBSET KeysOf(v, a) : Rotation(J, v, a)
  BY DEF PileInv
<1>3. PICK inJ : inJ = J \intersect live
  OBVIOUS
<1>4. PICK extra : extra = KeysOf(v, a) \ J
  OBVIOUS
<1>5. PICK m \in Nat : m = (ExpireAfter \div RotateAfter) + 1
  BY RotationAssumption, Division
<1>6. IsFiniteSet(inJ) /\ Cardinality(inJ) \in Nat /\ Cardinality(inJ) <= m
  <2>1. inJ \in SUBSET Key
    BY <1>2, <1>3 DEF TypeOK, KeysOf
  <2>2. Spaced(inJ)
    BY <1>2, <1>3 DEF Rotation, Spaced
  <2>3. \A k \in inJ : k.createdAt <= now /\ now <= ExpiresAt(k)
    BY <1>1, <1>2, <1>3 DEF PurgeInv, KeysOf
  <2>4. now \in Nat
    BY DEF TypeOK
  <2>5. QED
    BY <1>5, <2>1, <2>2, <2>3, <2>4, FewInRotation
<1>7. /\ IsFiniteSet(extra) /\ Cardinality(extra) \in Nat /\ Cardinality(extra) <= spent.commands
      /\ spent.commands \in Nat
  <2>1. Budget(extra, Owing(v, a), spent.commands)
    BY <1>2, <1>4 DEF Rotation
  <2>2. Cardinality(extra) \in Nat /\ Cardinality(Owing(v, a)) \in Nat
    BY <2>1, FS_CardinalityType DEF Budget
  <2>3. spent.commands \in Nat
    BY DEF TypeOK
  <2>4. QED
    BY <2>1, <2>2, <2>3 DEF Budget
<1>8. live \in SUBSET (inJ \union extra)
  BY <1>1, <1>3, <1>4
<1>9. inJ \intersect extra = {}
  BY <1>3, <1>4
<1>10. IsFiniteSet(inJ \union extra) /\ Cardinality(inJ \union extra) = Cardinality(inJ) + Cardinality(extra)
  BY <1>6, <1>7, <1>9, FS_EmptySet, FS_Union
<1>11. IsFiniteSet(live) /\ Cardinality(live) <= Cardinality(inJ \union extra) /\ Cardinality(live) \in Nat
  BY <1>8, <1>10, FS_Subset, FS_CardinalityType
<1>12. Cardinality(live) <= m + spent.commands
  BY <1>6, <1>7, <1>10, <1>11
<1>13. QED
  BY <1>1, <1>5, <1>12

\* With the job on one instance, rotation does not pile up keys: an algorithm has no more
\* unexpired keys than the rotation periods a key lives, the one in use, and one for each
\* command, however runs fail, their snapshots are outdated and commands interleave
\* (KeyRotateJob.go generateNewKeys).
THEOREM NotPiledUp == ASSUME OneRunner PROVE Spec => []KeysDoNotPileUp
  BY TypeInit, TypeNext, PurgeInit, PurgeNext, PileInit, PileNext, PileImplies, PTL DEF Spec

-----------------------------------------------------------------------------
(* Without commands the rows stay as they are, every run works from them   *)
(* (Working), and neither it nor its plan can touch an algorithm that is   *)
(* not in them: what a run removes has expired, however old its snapshot   *)
(* is and whatever other runs did meanwhile.                               *)

NoCommands == MaxCommands = 0

\* The algorithm of a key is one its virtual server has.
Offered(k) == k.alg \in configured[k.vs]

Working(r) ==
    job[r].pc # "idle" =>
        /\ job[r].rows = configured
        /\ job[r].pc = "delete" =>
              /\ job[r].at <= now
              /\ \A k \in job[r].snap : k.vs = job[r].vs /\ Offered(k)
              /\ \A k \in job[r].doomed : ExpiresAt(k) < job[r].at
        /\ job[r].pc = "generate" =>
              job[r].rotate \union job[r].seed \subseteq configured[job[r].vs]

RowsInv ==
    /\ \A p \in Admin : command[p].pc = "idle"
    /\ \A k \in store : Offered(k)
    /\ \A r \in Runner : Working(r)

LEMMA RowsInit == Init => RowsInv
  BY DEF Init, RowsInv, Working, IdleJob, IdleCommand

\* A step of one run keeps the invariant if it leaves the run in order and adds no
\* key of an algorithm its virtual server has not.
LEMMA RunInOrder ==
  ASSUME TypeOK, RowsInv, NEW r \in Runner, NEW j \in Run, job' = [job EXCEPT ![r] = j],
         UNCHANGED <<now, configured, command>>, \A k \in store' : Offered(k),
         j.pc # "idle" => j.rows = configured,
         j.pc = "delete" =>
             /\ j.at <= now
             /\ \A k \in j.snap : k.vs = j.vs /\ Offered(k)
             /\ \A k \in j.doomed : ExpiresAt(k) < j.at,
         j.pc = "generate" => j.rotate \union j.seed \subseteq configured[j.vs]
  PROVE  RowsInv'
<1>1. job'[r] = j /\ \A s \in Runner : s # r => job'[s] = job[s]
  BY DEF TypeOK, RunsOK
<1>2. Working(r)'
  BY <1>1 DEF Working, Offered, ExpiresAt
<1>3. ASSUME NEW s \in Runner, s # r PROVE Working(s)'
  BY <1>1, <1>3 DEF RowsInv, Working, Offered, ExpiresAt
<1>4. \A s \in Runner : Working(s)'
  BY <1>2, <1>3
<1>5. (\A p \in Admin : command'[p].pc = "idle") /\ \A k \in store' : Offered(k)'
  BY DEF RowsInv, Offered
<1>6. QED
  BY <1>4, <1>5 DEF RowsInv

LEMMA RowsNext == ASSUME NoCommands PROVE TypeOK /\ RowsInv /\ [Next]_vars => RowsInv'
<1> SUFFICES ASSUME NoCommands, TypeOK, RowsInv, [Next]_vars PROVE RowsInv'
  OBVIOUS
<1>1. RunsOK /\ now \in Nat /\ store \subseteq Key /\ configured \in [VirtualServer -> SUBSET Alg]
  BY DEF TypeOK
<1>2. ASSUME NEW r \in Runner, JobBegin(r) \/ JobNothing(r) \/ JobFail(r) \/ JobAdvance(r)
      PROVE  RowsInv'
  <2>1. PICK begun : begun = [IdleJob EXCEPT !.pc = "next", !.started = now, !.rows = configured,
                                            !.todo = {v \in VirtualServer : configured[v] # {}}]
    OBVIOUS
  <2>2. PICK next : next = [IdleJob EXCEPT !.pc = "next", !.started = job[r].started,
                              !.rows = job[r].rows, !.todo = job[r].todo \ {job[r].vs}]
    OBVIOUS
  <2>3. begun \in Run /\ begun.pc = "next" /\ begun.rows = configured
    BY <1>1, <2>1, IdleTypes DEF Run, IdleJob
  <2>4. job[r] \in Run
    BY <1>1, RunType
  <2>5. next \in Run /\ next.pc = "next" /\ next.rows = job[r].rows
    BY <2>2, <2>4, IdleTypes DEF Run, IdleJob
  <2>6. IdleJob \in Run /\ IdleJob.pc = "idle"
    BY IdleTypes DEF IdleJob
  <2>7. /\ UNCHANGED <<now, configured, command, store>>
        /\ \/ job' = [job EXCEPT ![r] = begun]
           \/ job' = [job EXCEPT ![r] = IdleJob]
           \/ job' = [job EXCEPT ![r] = next] /\ job[r].pc = "generate"
    BY <1>2, <2>1, <2>2 DEF JobBegin, JobNothing, JobFail, JobAdvance
  <2>8. job[r].pc = "generate" => job[r].rows = configured
    BY DEF RowsInv, Working
  <2>9. \A k \in store' : Offered(k)
    BY <2>7 DEF RowsInv
  <2>10. QED
    BY <2>3, <2>5, <2>6, <2>7, <2>8, <2>9, RunInOrder
<1>3. ASSUME NEW r \in Runner, NEW v \in VirtualServer, JobSnapshot(r, v) PROVE RowsInv'
  <2>1. PICK snap : snap = {k \in store : k.vs = v}
    OBVIOUS
  <2>2. PICK doomed : doomed = {k \in snap : ExpiresAt(k) < now \/ k.alg \notin job[r].rows[v]}
    OBVIOUS
  <2>3. PICK j : j = [job[r] EXCEPT !.pc = "delete", !.vs = v, !.snap = snap, !.at = now, !.doomed = doomed]
    OBVIOUS
  <2>4. /\ job' = [job EXCEPT ![r] = j] /\ UNCHANGED <<now, configured, command, store>>
        /\ job[r].pc = "next"
    BY <1>3, <2>1, <2>2, <2>3 DEF JobSnapshot
  <2>5. job[r] \in Run /\ job[r].rows = configured
    BY <1>1, <2>4, RunType DEF RowsInv, Working
  <2>6. snap \subseteq Key /\ \A k \in snap : k.vs = v /\ Offered(k)
    BY <1>1, <2>1 DEF RowsInv
  <2>7. /\ j \in Run /\ j.pc = "delete" /\ j.vs = v /\ j.snap = snap /\ j.at = now
        /\ j.rows = job[r].rows /\ j.doomed = doomed
    <3>1. doomed \subseteq Key
      BY <2>2, <2>6
    <3>2. QED
      BY <1>1, <2>3, <2>5, <2>6, <3>1 DEF Run
  <2>8. \A k \in doomed : ExpiresAt(k) < now
    BY <2>2, <2>5, <2>6 DEF Offered
  <2>9. /\ j.at <= now
        /\ \A k \in j.snap : k.vs = j.vs /\ Offered(k)
        /\ \A k \in j.doomed : ExpiresAt(k) < j.at
    BY <1>1, <2>6, <2>7, <2>8
  <2>10. j.rows = configured /\ j.pc # "generate" /\ \A k \in store' : Offered(k)
    BY <2>4, <2>5, <2>7 DEF RowsInv
  <2>11. QED
    BY <2>4, <2>7, <2>9, <2>10, RunInOrder
<1>4. ASSUME NEW r \in Runner, NEW k \in job[r].doomed, JobRemove(r, k) PROVE RowsInv'
  <2>1. PICK j : j = [job[r] EXCEPT !.doomed = job[r].doomed \ {k}]
    OBVIOUS
  <2>2. /\ job' = [job EXCEPT ![r] = j] /\ UNCHANGED <<now, configured, command>>
        /\ store' = store \ {k} /\ job[r].pc = "delete"
    BY <1>4, <2>1 DEF JobRemove
  <2>3. job[r] \in Run
    BY <1>1, RunType
  <2>4. /\ j \in Run /\ j.pc = job[r].pc /\ j.rows = job[r].rows /\ j.at = job[r].at
        /\ j.snap = job[r].snap /\ j.vs = job[r].vs /\ j.doomed = job[r].doomed \ {k}
    BY <2>1, <2>3 DEF Run
  <2>5. QED
    BY <2>2, <2>4, RunInOrder DEF RowsInv, Working
<1>5. ASSUME NEW r \in Runner, JobPlan(r) PROVE RowsInv'
  <2>1. PICK rotate : rotate = Rotated(job[r].snap, now)
    OBVIOUS
  <2>2. PICK seed : seed = Unseeded(job[r].snap, job[r].rows[job[r].vs])
    OBVIOUS
  <2>3. PICK j : j = [job[r] EXCEPT !.pc = "generate", !.at = now, !.snap = {},
                                    !.rotate = rotate, !.seed = seed]
    OBVIOUS
  <2>4. /\ job' = [job EXCEPT ![r] = j] /\ UNCHANGED <<now, configured, command, store>>
        /\ job[r].pc = "delete"
    BY <1>5, <2>1, <2>2, <2>3 DEF JobPlan
  <2>5. job[r] \in Run /\ job[r].vs \in VirtualServer /\ job[r].rows = configured
    BY <1>1, <2>4, RunType DEF RowsInv, Working
  <2>6. \A k \in job[r].snap : k.vs = job[r].vs /\ Offered(k)
    BY <2>4 DEF RowsInv, Working
  <2>7. rotate \subseteq configured[job[r].vs] /\ seed \subseteq configured[job[r].vs]
    BY <2>1, <2>2, <2>5, <2>6 DEF Rotated, Unseeded, AlgsOf, Offered
  <2>8. rotate \subseteq Alg /\ seed \subseteq Alg
    BY <1>1, <2>5, <2>7
  <2>9. /\ j \in Run /\ j.pc = "generate" /\ j.rows = job[r].rows /\ j.vs = job[r].vs
        /\ j.rotate = rotate /\ j.seed = seed
    BY <1>1, <2>3, <2>5, <2>8 DEF Run
  <2>10. QED
    BY <2>4, <2>5, <2>7, <2>9, RunInOrder DEF RowsInv
<1>6. ASSUME NEW r \in Runner, NEW a \in job[r].rotate \union job[r].seed, JobGenerate(r, a)
      PROVE  RowsInv'
  <2>1. PICK j : j = [job[r] EXCEPT !.rotate = job[r].rotate \ {a}, !.seed = job[r].seed \ {a}]
    OBVIOUS
  <2>2. /\ job' = [job EXCEPT ![r] = j] /\ UNCHANGED <<now, configured, command>>
        /\ Generate(job[r].vs, a) /\ job[r].pc = "generate"
    BY <1>6, <2>1 DEF JobGenerate
  <2>3. job[r] \in Run
    BY <1>1, RunType
  <2>4. /\ j \in Run /\ j.pc = job[r].pc /\ j.rows = job[r].rows /\ j.vs = job[r].vs
        /\ j.rotate = job[r].rotate \ {a} /\ j.seed = job[r].seed \ {a}
    BY <2>1, <2>3 DEF Run
  <2>5. a \in configured[job[r].vs]
    BY <1>6, <2>2 DEF RowsInv, Working
  <2>6. \A k \in store' : Offered(k)
    BY <2>2, <2>5 DEF RowsInv, Generate, NewKey, Offered
  <2>7. QED
    BY <2>2, <2>4, <2>6, RunInOrder DEF RowsInv, Working
<1>7. ASSUME NEW p \in Admin, CommandStep(p) PROVE FALSE
  <2>1. command[p].pc = "idle"
    BY DEF RowsInv
  <2>2. ~(spent.commands < MaxCommands)
    BY DEF NoCommands, TypeOK
  <2>3. QED
    BY <1>7, <2>1, <2>2 DEF CommandStep, CreateBegin, PatchBegin, CreateGenerate, PatchCheck,
       PatchGenerate, CommandSave, CommandFail, CommandLost
<1>8. CASE Tick \/ UNCHANGED vars
  <2>1. UNCHANGED <<configured, command, store, job>> /\ now <= now' /\ now' \in Nat
    BY <1>1, <1>8 DEF Tick, vars
  <2>2. ASSUME NEW r \in Runner PROVE Working(r)'
    <3>1. job[r].at \in Nat
      BY <1>1, RunType DEF Run
    <3>2. QED
      BY <1>1, <2>1, <3>1 DEF RowsInv, Working, Offered, ExpiresAt
  <2>3. QED
    BY <2>1, <2>2 DEF RowsInv, Offered
<1>9. QED
  BY <1>2, <1>3, <1>4, <1>5, <1>6, <1>7, <1>8 DEF Next, JobStep

-----------------------------------------------------------------------------
(* The caches.                                                             *)


InUseInv ==
    \A i \in Instance :
        /\ \A k \in inflight[i] : k \notin store => ExpiresAt(k) < now
        /\ \A v \in VirtualServer, a \in Alg :
              cache[i][v][a] # None /\ cache[i][v][a] \notin store => ExpiresAt(cache[i][v][a]) < now

LEMMA CacheTypes ==
  ASSUME STypeOK, NEW i \in Instance
  PROVE  /\ inflight[i] \subseteq Key
         /\ \A v \in VirtualServer, a \in Alg : cache[i][v][a] \in Key \union {None}
  BY DEF STypeOK

LEMMA STypeInit == SInit => STypeOK
<1> SUFFICES ASSUME SInit PROVE STypeOK
  OBVIOUS
<1>1. TypeOK
  BY TypeInit DEF SInit
<1>2. EmptyCache \in [VirtualServer -> [Alg -> Key \union {None}]]
  BY DEF EmptyCache
<1>3. QED
  BY <1>1, <1>2 DEF SInit, STypeOK

LEMMA STypeNext == STypeOK /\ [SNext]_allVars => STypeOK'
<1> SUFFICES ASSUME STypeOK, [SNext]_allVars PROVE STypeOK'
  OBVIOUS
<1>1. TypeOK'
  BY TypeNext DEF STypeOK, SNext, allVars, ReadKey, PutKey, Restart
<1>2. ASSUME NEW i \in Instance, NEW v \in VirtualServer, NEW a \in Alg, ReadKey(i, v, a)
      PROVE  STypeOK'
  <2>1. KeysOf(v, a) \subseteq Key
    BY DEF STypeOK, TypeOK, KeysOf
  <2>2. QED
    BY <1>1, <1>2, <2>1 DEF ReadKey, STypeOK
<1>3. ASSUME NEW i \in Instance, NEW k \in inflight[i], PutKey(i, k) PROVE STypeOK'
  <2>1. k \in Key /\ k.vs \in VirtualServer /\ k.alg \in Alg
    BY CacheTypes DEF Key
  <2>2. cache' \in [Instance -> [VirtualServer -> [Alg -> Key \union {None}]]]
    BY <1>3, <2>1 DEF PutKey, STypeOK
  <2>3. inflight' \in [Instance -> SUBSET Key]
    BY <1>3 DEF PutKey, STypeOK
  <2>4. QED
    BY <1>1, <2>2, <2>3 DEF STypeOK
<1>4. ASSUME NEW i \in Instance, Restart(i) PROVE STypeOK'
  <2>1. EmptyCache \in [VirtualServer -> [Alg -> Key \union {None}]]
    BY DEF EmptyCache
  <2>2. QED
    BY <1>1, <1>4, <2>1 DEF Restart, STypeOK
<1>5. CASE UNCHANGED <<cache, inflight>>
  BY <1>1, <1>5 DEF STypeOK
<1>6. QED
  BY <1>2, <1>3, <1>4, <1>5 DEF SNext, allVars

\* Every instance caches a key, or nothing, under the algorithm it was asked for.
THEOREM CacheTyping == SSpec => []STypeOK
  BY STypeInit, STypeNext, PTL DEF SSpec

\* Without commands no step takes a key out of the store before it has expired.
LEMMA StoreKeeps ==
  ASSUME NoCommands, TypeOK, RowsInv, [Next]_vars, NEW k \in Key
  PROVE  (k \notin store => ExpiresAt(k) < now) => (k \notin store' => ExpiresAt(k) < now')
<1>1. now \in Nat /\ now' \in Nat /\ now <= now' /\ ExpiresAt(k) \in Nat
  <2>1. TypeOK'
    BY TypeNext
  <2>2. ExpiresAt(k) \in Nat
    BY RotationAssumption DEF ExpiresAt, Key
  <2>3. now' = now \/ now' = now + 1
    BY DEF Next, JobStep, CommandStep, JobBegin, JobSnapshot, JobRemove, JobPlan, JobGenerate, JobAdvance,
       JobNothing, JobFail, CreateBegin, CreateGenerate, PatchBegin, PatchCheck, PatchGenerate, CommandSave,
       CommandFail, CommandLost, Tick, vars
  <2>4. QED
    BY <2>1, <2>2, <2>3 DEF TypeOK
<1>2. CASE \E r \in Runner : \E d \in job[r].doomed : JobRemove(r, d)
  <2>1. PICK r \in Runner : \E d \in job[r].doomed : JobRemove(r, d)
    BY <1>2
  <2>2. PICK d \in job[r].doomed : JobRemove(r, d)
    BY <2>1
  <2>3. job[r].pc = "delete" /\ store' = store \ {d}
    BY <2>2 DEF JobRemove
  <2>4. ExpiresAt(d) < job[r].at /\ job[r].at <= now
    BY <2>3 DEF RowsInv, Working
  <2>5. job[r].at \in Nat
    BY RunType DEF TypeOK, Run
  <2>6. QED
    BY <1>1, <2>3, <2>4, <2>5
<1>3. CASE store \subseteq store'
  BY <1>1, <1>3
<1>4. QED
  BY <1>2, <1>3 DEF Next, JobStep, CommandStep, JobBegin, JobSnapshot, JobPlan, JobGenerate, JobAdvance,
     JobNothing, JobFail, CreateBegin, CreateGenerate, PatchBegin, PatchCheck, PatchGenerate, CommandSave,
     CommandFail, CommandLost, Tick, Generate, vars

LEMMA InUseInit == SInit => InUseInv
  BY DEF SInit, InUseInv, EmptyCache

LEMMA InUseNext ==
  ASSUME NoCommands
  PROVE  STypeOK /\ RowsInv /\ InUseInv /\ [SNext]_allVars => InUseInv'
<1> SUFFICES ASSUME NoCommands, STypeOK, RowsInv, InUseInv, [SNext]_allVars PROVE InUseInv'
  OBVIOUS
<1>1. CASE [Next]_vars /\ UNCHANGED <<cache, inflight>>
  <2>1. ASSUME NEW k \in Key, k \notin store => ExpiresAt(k) < now
        PROVE  k \notin store' => ExpiresAt(k) < now'
    BY <1>1, <2>1, StoreKeeps DEF STypeOK
  <2>2. ASSUME NEW i \in Instance, NEW k \in inflight[i] PROVE k \notin store' => ExpiresAt(k) < now'
    BY <2>1, CacheTypes DEF InUseInv
  <2>3. ASSUME NEW i \in Instance, NEW v \in VirtualServer, NEW a \in Alg, cache[i][v][a] # None
        PROVE  cache[i][v][a] \notin store' => ExpiresAt(cache[i][v][a]) < now'
    <3>1. cache[i][v][a] \in Key
      BY <2>3, CacheTypes
    <3>2. QED
      BY <2>1, <2>3, <3>1 DEF InUseInv
  <2>4. QED
    BY <1>1, <2>2, <2>3 DEF InUseInv, ExpiresAt
<1>2. ASSUME NEW i \in Instance, NEW v \in VirtualServer, NEW a \in Alg, ReadKey(i, v, a)
      PROVE  InUseInv'
  <2>1. UNCHANGED <<now, store, cache>>
    BY <1>2 DEF ReadKey, vars
  <2>2. PICK k \in store : inflight' = [inflight EXCEPT ![i] = @ \union {k}]
    BY <1>2 DEF ReadKey, KeysOf
  <2>3. \A h \in Instance : \A q \in inflight'[h] : q \in inflight[h] \/ q = k
    BY <2>2 DEF STypeOK
  <2>4. QED
    BY <2>1, <2>3 DEF InUseInv, ExpiresAt
<1>3. ASSUME NEW i \in Instance, NEW k \in inflight[i], PutKey(i, k) PROVE InUseInv'
  <2>1. UNCHANGED <<now, store>>
    BY <1>3 DEF PutKey, vars
  <2>2. k \in Key /\ k.vs \in VirtualServer /\ k.alg \in Alg
    BY CacheTypes DEF Key
  <2>3. \A h \in Instance : inflight'[h] \subseteq inflight[h]
    BY <1>3 DEF PutKey, STypeOK
  <2>4. ASSUME NEW h \in Instance, NEW v \in VirtualServer, NEW a \in Alg
        PROVE  cache'[h][v][a] = cache[h][v][a] \/ (h = i /\ cache'[h][v][a] = k)
    BY <1>3, <2>2 DEF PutKey, STypeOK
  <2>5. QED
    BY <2>1, <2>3, <2>4 DEF InUseInv, ExpiresAt
<1>4. ASSUME NEW i \in Instance, Restart(i) PROVE InUseInv'
  <2>1. UNCHANGED <<now, store>>
    BY <1>4 DEF Restart, vars
  <2>2. \A h \in Instance : inflight'[h] \subseteq inflight[h]
    BY <1>4 DEF Restart, STypeOK
  <2>3. ASSUME NEW h \in Instance, NEW v \in VirtualServer, NEW a \in Alg
        PROVE  cache'[h][v][a] = cache[h][v][a] \/ cache'[h][v][a] = None
    BY <1>4 DEF Restart, STypeOK, EmptyCache
  <2>4. QED
    BY <2>1, <2>2, <2>3 DEF InUseInv, ExpiresAt
<1>5. QED
  BY <1>1, <1>2, <1>3, <1>4 DEF SNext, allVars, vars

LEMMA RowsSNext == ASSUME NoCommands PROVE STypeOK /\ RowsInv /\ [SNext]_allVars => RowsInv'
<1> SUFFICES ASSUME NoCommands, STypeOK, RowsInv, [SNext]_allVars PROVE RowsInv'
  OBVIOUS
<1>1. [Next]_vars
  BY DEF SNext, allVars, ReadKey, PutKey, Restart
<1>2. QED
  BY <1>1, RowsNext DEF STypeOK

\* As long as no command changes the rows, a key that any instance has read or cached,
\* and may sign with or verify with, is published until it has expired, however many
\* instances run the job at the same time, whatever runs fail and whatever restarts.
THEOREM Published == ASSUME NoCommands PROVE SSpec => []PublishedUntilExpiry
<1>1. InUseInv => PublishedUntilExpiry
  BY DEF InUseInv, PublishedUntilExpiry, KeysInUse
<1>2. SInit => STypeOK /\ RowsInv /\ InUseInv
  BY STypeInit, RowsInit, InUseInit DEF SInit
<1>3. STypeOK /\ RowsInv /\ InUseInv /\ [SNext]_allVars => STypeOK' /\ RowsInv' /\ InUseInv'
  BY STypeNext, RowsSNext, InUseNext
<1>4. QED
  BY <1>1, <1>2, <1>3, PTL DEF SSpec

=============================================================================
