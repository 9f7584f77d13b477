--------------------------- MODULE LeadershipProofs ---------------------------
(***************************************************************************)
(* Theorems about Leadership, for any number of instances and jobs, any    *)
(* number of elections and crashes, with and without Raft.                 *)
(***************************************************************************)
EXTENDS Leadership, SequenceTheorems, TLAPS

-----------------------------------------------------------------------------
(* The inductive invariant, of one instance: cbs are its callbacks, p is   *)
(* the state its watcher saw last, ms are its managers and c is the index  *)
(* of the current one.                                                     *)

\* The managers between two changes of leadership.
Settled(p, ms, c) ==
    /\ p = "leader" => c # 0
    /\ \A m \in 1 .. Len(ms) :
          /\ ms[m].isRunning <=> m = c /\ p = "leader"
          /\ ms[m].isRunning <=> ~ms[m].cancelled

\* The managers while one callback is on its way: the running one, if any, is the
\* current one, and has to be stopped; a new one is about to be started.
Changing(cb, p, ms, c) ==
    /\ cb.isLeader <=> p = "leader"
    /\ \A m \in 1 .. Len(ms) :
          IF cb.made /\ m = c THEN ~ms[m].isRunning /\ ~ms[m].cancelled
          ELSE /\ ms[m].isRunning => m = c /\ p # "leader"
               /\ ms[m].isRunning <=> ~ms[m].cancelled

\* A callback that has made a manager tells of leadership.
Made(cbs, c) == \A n \in 1 .. Len(cbs) : cbs[n].made => cbs[n].isLeader /\ c # 0

\* An instance on which no callbacks overlapped has at most one.
InTurn(cbs, p, ms, c) ==
    /\ Len(cbs) <= 1
    /\ Len(cbs) < 1 => Settled(p, ms, c)
    /\ Len(cbs) >= 1 => Changing(cbs[1], p, ms, c)

LeadInv ==
    \A i \in Instance :
        /\ Made(callbacks[i], current[i])
        /\ i \notin overtaken => InTurn(callbacks[i], prev[i], managers[i], current[i])

\* The part of TypeOK about one instance.
Typed(cbs, ms, c) ==
    cbs \in Seq(CallbackState) /\ ms \in Seq(ManagerState) /\ c \in Nat /\ c <= Len(ms)

-----------------------------------------------------------------------------
(* What the steps do to one instance.                                      *)

\* What is known of t when one element of s was replaced, added or removed.
Replaces(s, t, n, e) == Len(t) = Len(s) /\ t[n] = e /\ \A k \in 1 .. Len(s) : k # n => t[k] = s[k]
Extends(s, t, e) == Len(t) = Len(s) + 1 /\ t[Len(t)] = e /\ \A k \in 1 .. Len(s) : t[k] = s[k]
Shortens(s, t) == Len(t) = Len(s) - 1 /\ \A k \in 1 .. Len(t) : \E l \in 1 .. Len(s) : t[k] = s[l]

LEMMA Replaced ==
  ASSUME NEW S, NEW s \in Seq(S), NEW n \in 1 .. Len(s), NEW e \in S, NEW t, t = [s EXCEPT ![n] = e]
  PROVE  t \in Seq(S) /\ Replaces(s, t, n, e)
  BY ExceptSeq DEF Replaces

LEMMA Extended ==
  ASSUME NEW S, NEW s \in Seq(S), NEW e \in S, NEW t, t = Append(s, e)
  PROVE  t \in Seq(S) /\ Extends(s, t, e)
  BY AppendProperties DEF Extends

LEMMA Single ==
  ASSUME NEW S, NEW e \in S, NEW t, t = <<e>>
  PROVE  t \in Seq(S) /\ Len(t) >= 1 /\ Len(t) <= 1 /\ t[1] = e
  OBVIOUS

LEMMA Removed ==
  ASSUME NEW S, NEW s \in Seq(S), NEW n \in 1 .. Len(s),
         NEW t, t = SubSeq(s, 1, n - 1) \o SubSeq(s, n + 1, Len(s))
  PROVE  t \in Seq(S) /\ Shortens(s, t)
<1>1. Len(s) \in Nat /\ n \in Nat /\ n >= 1 /\ n <= Len(s) /\ \A k \in 1 .. Len(s) : s[k] \in S
  BY LenProperties, ElementOfSeq
<1>2. PICK left : left = SubSeq(s, 1, n - 1)
  OBVIOUS
<1>3. PICK right : right = SubSeq(s, n + 1, Len(s))
  OBVIOUS
<1>4. /\ left \in Seq(S) /\ Len(left) = n - 1 /\ \A k \in 1 .. n - 1 : left[k] = s[k]
  <2>1. 1 \in Int /\ n - 1 \in Int /\ \A k \in 1 .. (n - 1) : s[k] \in S
    BY <1>1
  <2>2. /\ SubSeq(s, 1, n - 1) \in Seq(S)
        /\ Len(SubSeq(s, 1, n - 1)) = IF 1 <= n - 1 THEN n - 1 - 1 + 1 ELSE 0
        /\ \A k \in 1 .. n - 1 - 1 + 1 : SubSeq(s, 1, n - 1)[k] = s[1 + k - 1]
    BY <2>1, SubSeqProperties
  <2>3. QED
    BY <1>1, <1>2, <2>2
<1>5. /\ right \in Seq(S) /\ Len(right) = Len(s) - n
      /\ \A k \in 1 .. Len(s) - n : right[k] = s[n + k]
  <2>1. n + 1 \in Int /\ Len(s) \in Int /\ \A k \in (n + 1) .. Len(s) : s[k] \in S
    BY <1>1
  <2>2. /\ SubSeq(s, n + 1, Len(s)) \in Seq(S)
        /\ Len(SubSeq(s, n + 1, Len(s))) = IF n + 1 <= Len(s) THEN Len(s) - (n + 1) + 1 ELSE 0
        /\ \A k \in 1 .. Len(s) - (n + 1) + 1 : SubSeq(s, n + 1, Len(s))[k] = s[n + 1 + k - 1]
    BY <2>1, SubSeqProperties
  <2>3. QED
    BY <1>1, <1>3, <2>2
<1>6. /\ t \in Seq(S) /\ Len(t) = Len(left) + Len(right)
      /\ \A k \in 1 .. Len(left) + Len(right) : t[k] = IF k <= Len(left) THEN left[k] ELSE right[k - Len(left)]
  <2>1. t = left \o right
    BY <1>2, <1>3
  <2>2. left \in Seq(S) /\ right \in Seq(S)
    BY <1>4, <1>5
  <2>3. QED
    BY <2>1, <2>2, ConcatProperties, ZenonT(20)
<1>7. PICK len \in Nat : len = Len(s) /\ n \in 1 .. len
  BY <1>1
<1>8. /\ Len(t) = len - 1
      /\ \A k \in 1 .. len - 1 : t[k] = IF k <= n - 1 THEN left[k] ELSE right[k - (n - 1)]
  <2>1. Len(left) = n - 1 /\ Len(right) = len - n /\ Len(left) + Len(right) = len - 1
    BY <1>4, <1>5, <1>7
  <2>2. Len(t) = len - 1
    BY <1>6, <2>1
  <2>3. ASSUME NEW k \in 1 .. len - 1 PROVE t[k] = IF k <= n - 1 THEN left[k] ELSE right[k - (n - 1)]
    BY <1>6, <2>1
  <2>4. QED
    BY <2>2, <2>3
<1>9. ASSUME NEW k \in 1 .. len - 1 PROVE \E l \in 1 .. len : t[k] = s[l]
  <2>1. CASE k <= n - 1
    <3>1. t[k] = left[k]
      BY <1>8, <2>1
    <3>2. k \in 1 .. n - 1 /\ k \in 1 .. len
      BY <1>7, <2>1
    <3>3. QED
      BY <1>4, <3>1, <3>2
  <2>2. CASE ~(k <= n - 1)
    <3>1. PICK j \in 1 .. len - n : j = k - (n - 1) /\ n + j \in 1 .. len
      BY <1>7, <2>2
    <3>2. t[k] = right[j] /\ right[j] = s[n + j]
      BY <1>5, <1>7, <1>8, <2>2, <3>1
    <3>3. QED
      BY <3>1, <3>2
  <2>3. QED
    BY <2>1, <2>2
<1>10. QED
  BY <1>6, <1>7, <1>8, <1>9 DEF Shortens

\* The watcher sees a change: there is one more callback.
LEMMA Told ==
  ASSUME NEW cbs, NEW ms, NEW c, Typed(cbs, ms, c), NEW p, NEW p2, Made(cbs, c), p2 # p,
         NEW cb \in CallbackState, cb.made = FALSE, cb.isLeader <=> p2 = "leader",
         NEW cbs2 \in Seq(CallbackState), Extends(cbs, cbs2, cb)
  PROVE  /\ Typed(cbs2, ms, c) /\ Made(cbs2, c)
         /\ Len(cbs) < 1 /\ InTurn(cbs, p, ms, c) => InTurn(cbs2, p2, ms, c)
<1>1. Len(cbs) \in Nat
  BY LenProperties DEF Typed
<1>2. Made(cbs2, c)
  BY <1>1 DEF Made, Extends
<1>3. ASSUME Len(cbs) < 1, InTurn(cbs, p, ms, c) PROVE InTurn(cbs2, p2, ms, c)
  <2>1. Settled(p, ms, c)
    BY <1>3 DEF InTurn
  <2>2. Changing(cb, p2, ms, c)
    BY <2>1 DEF Settled, Changing
  <2>3. QED
    BY <1>3, <2>2 DEF InTurn, Extends
<1>4. QED
  BY <1>2, <1>3 DEF Typed

\* A callback of a leader makes a manager, which is not running yet.
Making(cbs, n, cb, cbs2, ms, man, ms2, c2) ==
    /\ n \in 1 .. Len(cbs) /\ cbs[n].isLeader /\ ~cbs[n].made
    /\ cbs2 \in Seq(CallbackState) /\ Replaces(cbs, cbs2, n, cb) /\ cb.made /\ cb.isLeader
    /\ ms2 \in Seq(ManagerState) /\ Extends(ms, ms2, man) /\ ~man.isRunning /\ ~man.cancelled
    /\ c2 = Len(ms) + 1

LEMMA Makes ==
  ASSUME NEW cbs, NEW ms, NEW c, Typed(cbs, ms, c), NEW p, Made(cbs, c),
         NEW n, NEW cb, NEW cbs2, NEW man, NEW ms2, NEW c2, Making(cbs, n, cb, cbs2, ms, man, ms2, c2)
  PROVE  /\ Typed(cbs2, ms2, c2) /\ Made(cbs2, c2)
         /\ InTurn(cbs, p, ms, c) => InTurn(cbs2, p, ms2, c2)
<1> USE DEF Making
<1>1. Len(cbs) \in Nat /\ Len(ms) \in Nat
  BY LenProperties DEF Typed
<1>2. c2 \in Nat /\ c2 # 0 /\ c2 = Len(ms2)
  BY <1>1 DEF Extends
<1>3. Typed(cbs2, ms2, c2)
  BY <1>2 DEF Typed
<1>4. Made(cbs2, c2)
  BY <1>2 DEF Made, Replaces
<1>5. ASSUME InTurn(cbs, p, ms, c) PROVE InTurn(cbs2, p, ms2, c2)
  <2>1. Len(cbs) >= 1 /\ Len(cbs) <= 1 /\ n = 1
    <3>1. Len(cbs) <= 1
      BY <1>5 DEF InTurn
    <3>2. QED
      BY <1>1, <3>1 DEF Typed
  <2>2. Changing(cbs[1], p, ms, c) /\ p = "leader"
    BY <1>5, <2>1 DEF InTurn, Changing
  <2>3. \A m \in 1 .. Len(ms) : ~ms[m].isRunning /\ ms[m].cancelled
    BY <2>1, <2>2 DEF Changing
  <2>4. \A m \in 1 .. Len(ms2) : IF m = c2 THEN ms2[m] = man ELSE ~ms2[m].isRunning /\ ms2[m].cancelled
    BY <1>1, <1>2, <2>3 DEF Extends
  <2>5. Changing(cb, p, ms2, c2)
    BY <2>2, <2>4 DEF Changing
  <2>6. QED
    BY <2>1, <2>5 DEF InTurn, Replaces, Typed
<1>6. QED
  BY <1>3, <1>4, <1>5

\* A callback that is done has started or stopped the current manager.
LEMMA Ends ==
  ASSUME NEW cbs, NEW ms, NEW c, Typed(cbs, ms, c), NEW p, Made(cbs, c), NEW n \in 1 .. Len(cbs),
         NEW cbs2 \in Seq(CallbackState), Shortens(cbs, cbs2),
         NEW ms2 \in Seq(ManagerState), Len(ms2) = Len(ms),
         Changing(cbs[n], p, ms, c) => Settled(p, ms2, c)
  PROVE  Typed(cbs2, ms2, c) /\ Made(cbs2, c) /\ (InTurn(cbs, p, ms, c) => InTurn(cbs2, p, ms2, c))
<1>1. Len(cbs) \in Nat
  BY LenProperties DEF Typed
<1>2. Made(cbs2, c)
  BY DEF Made, Shortens
<1>3. ASSUME InTurn(cbs, p, ms, c) PROVE InTurn(cbs2, p, ms2, c)
  <2>1. Len(cbs) >= 1 /\ Len(cbs) <= 1 /\ n = 1
    <3>1. Len(cbs) <= 1
      BY <1>3 DEF InTurn
    <3>2. QED
      BY <1>1, <3>1 DEF Typed
  <2>2. Settled(p, ms2, c)
    BY <1>3, <2>1 DEF InTurn
  <2>3. QED
    BY <2>1, <2>2 DEF InTurn, Shortens, Typed
<1>4. QED
  BY <1>2, <1>3 DEF Typed

\* A job's goroutine changes no more than the state of that job.
LEMMA Goes ==
  ASSUME NEW cbs, NEW ms, NEW c, Typed(cbs, ms, c), NEW p, NEW m \in 1 .. Len(ms),
         NEW man \in ManagerState, man.isRunning = ms[m].isRunning, man.cancelled = ms[m].cancelled,
         NEW ms2 \in Seq(ManagerState), Replaces(ms, ms2, m, man)
  PROVE  Typed(cbs, ms2, c) /\ (InTurn(cbs, p, ms, c) => InTurn(cbs, p, ms2, c))
<1>1. /\ Len(ms2) = Len(ms)
      /\ \A k \in 1 .. Len(ms) : ms2[k].isRunning = ms[k].isRunning /\ ms2[k].cancelled = ms[k].cancelled
  BY DEF Replaces
<1>2. Settled(p, ms, c) => Settled(p, ms2, c)
  BY <1>1 DEF Settled
<1>3. ASSUME NEW cb, Changing(cb, p, ms, c) PROVE Changing(cb, p, ms2, c)
  BY <1>1, <1>3 DEF Changing
<1>4. QED
  BY <1>1, <1>2, <1>3 DEF Typed, InTurn

\* A process that starts knows of no manager; one without election is told that it leads.
LEMMA Begins ==
  ASSUME NEW p, NEW cbs \in Seq(CallbackState), NEW ms \in Seq(ManagerState), Len(ms) = 0,
         p # "leader" => Len(cbs) < 1,
         p = "leader" => Len(cbs) >= 1 /\ Len(cbs) <= 1 /\ cbs[1].isLeader /\ ~cbs[1].made
  PROVE  Typed(cbs, ms, 0) /\ Made(cbs, 0) /\ InTurn(cbs, p, ms, 0)
<1>1. Typed(cbs, ms, 0)
  BY DEF Typed
<1>2. CASE p = "leader"
  <2>1. Changing(cbs[1], p, ms, 0)
    BY <1>2 DEF Changing
  <2>2. QED
    <3>1. Made(cbs, 0)
      BY <1>2 DEF Made
    <3>2. InTurn(cbs, p, ms, 0)
      BY <1>2, <2>1 DEF InTurn
    <3>3. QED
      BY <1>1, <3>1, <3>2
<1>3. CASE p # "leader"
  <2>1. Settled(p, ms, 0)
    BY <1>3 DEF Settled
  <2>2. QED
    BY <1>1, <1>3, <2>1 DEF Made, InTurn
<1>4. QED
  BY <1>2, <1>3

-----------------------------------------------------------------------------
(* Types and the steps.                                                    *)

LEMMA TypedParts ==
  ASSUME TypeOK, NEW i \in Instance
  PROVE  Typed(callbacks[i], managers[i], current[i])
  BY DEF TypeOK, Typed

LEMMA CallbackFields ==
  ASSUME NEW b \in BOOLEAN
  PROVE  Callback(b) \in CallbackState /\ Callback(b).made = FALSE /\ Callback(b).isLeader = b
  BY DEF Callback, CallbackState

LEMMA CallbackMade ==
  ASSUME NEW before \in CallbackState, before.isLeader, NEW cb, cb = [before EXCEPT !.made = TRUE]
  PROVE  cb \in CallbackState /\ cb.made /\ cb.isLeader
  BY DEF CallbackState

LEMMA ManagerNew ==
  ASSUME NEW man, man = Manager PROVE man \in ManagerState /\ ~man.isRunning /\ ~man.cancelled
  BY DEF Manager, ManagerState

LEMMA ManagerStarted ==
  ASSUME NEW man, man = [isRunning |-> TRUE, cancelled |-> FALSE, jobs |-> [j \in Job |-> "started"]]
  PROVE  man \in ManagerState /\ man.isRunning /\ ~man.cancelled
  BY DEF ManagerState

LEMMA ManagerStopped ==
  ASSUME NEW before \in ManagerState, NEW man, man = [before EXCEPT !.isRunning = FALSE, !.cancelled = TRUE]
  PROVE  man \in ManagerState /\ ~man.isRunning /\ man.cancelled
  BY DEF ManagerState

LEMMA ManagerWorking ==
  ASSUME NEW before \in ManagerState, NEW j \in Job, NEW to \in {"executing", "waiting", "gone"},
         NEW man, man = [before EXCEPT !.jobs[j] = to]
  PROVE  man \in ManagerState /\ man.isRunning = before.isRunning /\ man.cancelled = before.cancelled
  BY DEF ManagerState

\* A step changes one instance and keeps its part of the invariant.
LEMMA OneInstance ==
  ASSUME TypeOK, LeadInv, NEW i \in Instance, NEW cbs, NEW p \in State, NEW ms, NEW c,
         callbacks' = [callbacks EXCEPT ![i] = cbs], prev' = [prev EXCEPT ![i] = p],
         managers' = [managers EXCEPT ![i] = ms], current' = [current EXCEPT ![i] = c],
         Typed(cbs, ms, c), Made(cbs, c), i \notin overtaken' => InTurn(cbs, p, ms, c),
         overtaken' \subseteq Instance, \A k \in Instance \ {i} : k \in overtaken' <=> k \in overtaken,
         mode' = mode, elected' \subseteq Instance, raft' \in [Instance -> State],
         changes' \in 0 .. MaxChanges, crashes' \in 0 .. MaxCrashes
  PROVE  TypeOK' /\ LeadInv'
<1>1. /\ callbacks' \in [Instance -> Seq(CallbackState)] /\ prev' \in [Instance -> State]
      /\ managers' \in [Instance -> Seq(ManagerState)] /\ current' \in [Instance -> Nat]
  BY DEF TypeOK, Typed
<1>2. callbacks'[i] = cbs /\ prev'[i] = p /\ managers'[i] = ms /\ current'[i] = c
  BY DEF TypeOK
<1>3. \A k \in Instance \ {i} : /\ callbacks'[k] = callbacks[k] /\ prev'[k] = prev[k]
                               /\ managers'[k] = managers[k] /\ current'[k] = current[k]
  BY DEF TypeOK
<1>4. ASSUME NEW k \in Instance PROVE current'[k] <= Len(managers'[k])
  BY <1>2, <1>3 DEF TypeOK, Typed
<1>5. TypeOK'
  BY <1>1, <1>4 DEF TypeOK
<1>6. ASSUME NEW k \in Instance
      PROVE  /\ Made(callbacks'[k], current'[k])
             /\ k \notin overtaken' => InTurn(callbacks'[k], prev'[k], managers'[k], current'[k])
  <2>1. CASE k = i
    BY <1>2, <2>1
  <2>2. CASE k # i
    BY <1>3, <2>2 DEF LeadInv
  <2>3. QED
    BY <2>1, <2>2
<1>7. LeadInv'
  BY <1>6 DEF LeadInv
<1>8. QED
  BY <1>5, <1>7

\* A step of the Raft library changes nothing that the callbacks and managers depend on.
LEMMA Elects ==
  ASSUME TypeOK, LeadInv, raft' \in [Instance -> State], elected' \subseteq Instance,
         changes' \in 0 .. MaxChanges,
         UNCHANGED <<mode, prev, callbacks, managers, current, crashes, overtaken>>
  PROVE  TypeOK' /\ LeadInv'
<1>1. TypeOK'
  BY DEF TypeOK
<1>2. LeadInv'
  BY DEF LeadInv
<1>3. QED
  BY <1>1, <1>2

LEMMA RaftKeeps ==
  ASSUME TypeOK, LeadInv, NEW i \in Instance, Campaign(i) \/ Win(i) \/ Lose(i) \/ StepDown(i)
  PROVE  TypeOK' /\ LeadInv'
<1>1. raft' \in [Instance -> State]
  BY DEF Campaign, Win, Lose, StepDown, Becomes, TypeOK, State
<1>2. elected' \subseteq Instance
  BY DEF Campaign, Win, Lose, StepDown, TypeOK
<1>3. changes' \in 0 .. MaxChanges
  BY LeadershipAssumption DEF Campaign, Win, Lose, StepDown, TypeOK
<1>4. UNCHANGED <<mode, prev, callbacks, managers, current, crashes, overtaken>>
  BY DEF Campaign, Win, Lose, StepDown, Becomes
<1>5. QED
  BY <1>1, <1>2, <1>3, <1>4, Elects

LEMMA WatchKeeps ==
  ASSUME TypeOK, LeadInv, NEW i \in Instance, Watch(i) PROVE TypeOK' /\ LeadInv'
<1>1. PICK p \in State : p = raft[i] /\ p # prev[i]
  BY DEF Watch, TypeOK
<1>2. PICK cb \in CallbackState : cb = Callback(raft[i] = "leader") /\ cb.made = FALSE /\ (cb.isLeader <=> p = "leader")
  <2>1. PICK b \in BOOLEAN : b = (raft[i] = "leader") /\ (b <=> p = "leader")
    BY <1>1
  <2>2. Callback(b) \in CallbackState /\ Callback(b).made = FALSE /\ Callback(b).isLeader = b
    BY CallbackFields
  <2>3. PICK cb \in CallbackState : cb = Callback(b) /\ cb.made = FALSE /\ cb.isLeader = b
    BY <2>2
  <2>4. QED
    BY <2>1, <2>3
<1>3. Typed(callbacks[i], managers[i], current[i]) /\ callbacks[i] \in Seq(CallbackState)
  BY TypedParts DEF TypeOK
<1>4. PICK cbs \in Seq(CallbackState) : cbs = Append(callbacks[i], cb) /\ Extends(callbacks[i], cbs, cb)
  BY <1>3, Extended
<1>5. /\ Typed(cbs, managers[i], current[i]) /\ Made(cbs, current[i])
      /\ Len(callbacks[i]) < 1 /\ InTurn(callbacks[i], prev[i], managers[i], current[i])
            => InTurn(cbs, p, managers[i], current[i])
  BY <1>1, <1>2, <1>3, <1>4, Told DEF LeadInv
<1>6. i \notin overtaken' => i \notin overtaken /\ Len(callbacks[i]) < 1
  BY <1>3, EmptySeq DEF Watch
<1>7. i \notin overtaken' => InTurn(cbs, p, managers[i], current[i])
  BY <1>5, <1>6 DEF LeadInv
<1>8. /\ callbacks' = [callbacks EXCEPT ![i] = cbs] /\ prev' = [prev EXCEPT ![i] = p]
      /\ managers' = [managers EXCEPT ![i] = managers[i]] /\ current' = [current EXCEPT ![i] = current[i]]
  BY <1>1, <1>2, <1>4 DEF Watch, TypeOK
<1>9. /\ overtaken' \subseteq Instance /\ \A k \in Instance \ {i} : k \in overtaken' <=> k \in overtaken
      /\ mode' = mode /\ elected' \subseteq Instance /\ raft' \in [Instance -> State]
      /\ changes' \in 0 .. MaxChanges /\ crashes' \in 0 .. MaxCrashes
  BY DEF Watch, TypeOK
<1>10. QED
  BY <1>5, <1>7, <1>8, <1>9, OneInstance

\* A step of a callback or a job: the instance goes on as before otherwise.
Kept(cbs, p, ms, c, cbs2, ms2, c2) ==
    Typed(cbs2, ms2, c2) /\ Made(cbs2, c2) /\ (InTurn(cbs, p, ms, c) => InTurn(cbs2, p, ms2, c2))

LEMMA WorkKeeps ==
  ASSUME TypeOK, LeadInv, NEW i \in Instance, NEW cbs, NEW ms, NEW c,
         callbacks' = [callbacks EXCEPT ![i] = cbs], managers' = [managers EXCEPT ![i] = ms],
         current' = [current EXCEPT ![i] = c], UNCHANGED <<mode, raft, elected, prev, changes, crashes, overtaken>>,
         Kept(callbacks[i], prev[i], managers[i], current[i], cbs, ms, c)
  PROVE  TypeOK' /\ LeadInv'
<1>1. prev[i] \in State /\ prev' = [prev EXCEPT ![i] = prev[i]]
  BY DEF TypeOK
<1>2. i \notin overtaken' => InTurn(cbs, prev[i], ms, c)
  BY DEF LeadInv, Kept
<1>3. /\ overtaken' \subseteq Instance /\ \A k \in Instance \ {i} : k \in overtaken' <=> k \in overtaken
      /\ mode' = mode /\ elected' \subseteq Instance /\ raft' \in [Instance -> State]
      /\ changes' \in 0 .. MaxChanges /\ crashes' \in 0 .. MaxCrashes
  BY DEF TypeOK
<1>4. QED
  BY <1>1, <1>2, <1>3, OneInstance DEF Kept

LEMMA MakeManagerKeeps ==
  ASSUME TypeOK, LeadInv, NEW i \in Instance, NEW n, MakeManager(i, n) PROVE TypeOK' /\ LeadInv'
<1>1. /\ callbacks[i] \in Seq(CallbackState) /\ managers[i] \in Seq(ManagerState)
      /\ Typed(callbacks[i], managers[i], current[i]) /\ Made(callbacks[i], current[i])
  BY TypedParts DEF TypeOK, LeadInv
<1>2. n \in 1 .. Len(callbacks[i]) /\ callbacks[i][n].isLeader /\ ~callbacks[i][n].made
  BY <1>1, LenProperties DEF MakeManager, Pending
<1>3. callbacks[i][n] \in CallbackState
  BY <1>1, <1>2, ElementOfSeq
<1>4. PICK cb : cb = [callbacks[i][n] EXCEPT !.made = TRUE]
  OBVIOUS
<1>5. cb \in CallbackState /\ cb.made /\ cb.isLeader
  BY <1>2, <1>3, <1>4, CallbackMade
<1>6. PICK cbs \in Seq(CallbackState) : cbs = [callbacks[i] EXCEPT ![n] = cb] /\ Replaces(callbacks[i], cbs, n, cb)
  BY <1>1, <1>2, <1>5, Replaced
<1>7. PICK man : man = Manager
  OBVIOUS
<1>8. man \in ManagerState /\ ~man.isRunning /\ ~man.cancelled
  BY <1>7, ManagerNew
<1>9. PICK ms \in Seq(ManagerState) : ms = Append(managers[i], man) /\ Extends(managers[i], ms, man)
  BY <1>1, <1>8, Extended
<1>10. PICK c : c = Len(managers[i]) + 1
  OBVIOUS
<1>11. Kept(callbacks[i], prev[i], managers[i], current[i], cbs, ms, c)
  <2>1. Making(callbacks[i], n, cb, cbs, managers[i], man, ms, c)
    BY <1>2, <1>5, <1>6, <1>8, <1>9, <1>10 DEF Making
  <2>2. QED
    BY <1>1, <2>1, Makes DEF Kept
<1>12. /\ callbacks' = [callbacks EXCEPT ![i] = cbs] /\ managers' = [managers EXCEPT ![i] = ms]
       /\ current' = [current EXCEPT ![i] = c] /\ UNCHANGED <<mode, raft, elected, prev, changes, crashes, overtaken>>
  <2>1. callbacks' = [callbacks EXCEPT ![i] = cbs]
    BY <1>4, <1>6 DEF MakeManager
  <2>2. managers' = [managers EXCEPT ![i] = ms]
    BY <1>7, <1>9 DEF MakeManager
  <2>3. current' = [current EXCEPT ![i] = c] /\ UNCHANGED <<mode, raft, elected, prev, changes, crashes, overtaken>>
    BY <1>10 DEF MakeManager
  <2>4. QED
    BY <2>1, <2>2, <2>3
<1>13. QED
  BY <1>11, <1>12, WorkKeeps

\* A callback ends, and has set the managers right.
LEMMA DoneKeeps ==
  ASSUME TypeOK, LeadInv, NEW i \in Instance, NEW n \in DOMAIN callbacks[i], Done(i, n),
         NEW ms \in Seq(ManagerState), managers' = [managers EXCEPT ![i] = ms], Len(ms) = Len(managers[i]),
         UNCHANGED <<mode, raft, elected, prev, current, changes, crashes, overtaken>>,
         Changing(callbacks[i][n], prev[i], managers[i], current[i]) => Settled(prev[i], ms, current[i])
  PROVE  TypeOK' /\ LeadInv'
<1>1. /\ callbacks[i] \in Seq(CallbackState) /\ managers[i] \in Seq(ManagerState)
      /\ Typed(callbacks[i], managers[i], current[i]) /\ Made(callbacks[i], current[i])
  BY TypedParts DEF TypeOK, LeadInv
<1>2. n \in 1 .. Len(callbacks[i])
  BY <1>1, LenProperties
<1>3. PICK cbs : cbs = SubSeq(callbacks[i], 1, n - 1) \o SubSeq(callbacks[i], n + 1, Len(callbacks[i]))
  OBVIOUS
<1>4. cbs \in Seq(CallbackState) /\ Shortens(callbacks[i], cbs)
  BY <1>1, <1>2, <1>3, Removed
<1>5. callbacks' = [callbacks EXCEPT ![i] = cbs] /\ current' = [current EXCEPT ![i] = current[i]]
  BY <1>3 DEF Done, TypeOK
<1>6. Kept(callbacks[i], prev[i], managers[i], current[i], cbs, ms, current[i])
  BY <1>1, <1>2, <1>4, Ends DEF Kept
<1>7. QED
  BY <1>5, <1>6, WorkKeeps

LEMMA StartKeeps ==
  ASSUME TypeOK, LeadInv, NEW i \in Instance, NEW n, Start(i, n) PROVE TypeOK' /\ LeadInv'
<1>1. /\ callbacks[i] \in Seq(CallbackState) /\ managers[i] \in Seq(ManagerState)
      /\ Made(callbacks[i], current[i]) /\ current[i] \in Nat /\ current[i] <= Len(managers[i])
  BY DEF TypeOK, LeadInv
<1>2. /\ n \in DOMAIN callbacks[i] /\ callbacks[i][n].made /\ Done(i, n)
      /\ UNCHANGED <<mode, raft, elected, prev, current, changes, crashes, overtaken>>
  BY DEF Start, Pending
<1>3. PICK cb : cb = callbacks[i][n] /\ cb.made /\ cb.isLeader
  BY <1>1, <1>2, LenProperties DEF Made
<1>4. PICK m \in 1 .. Len(managers[i]) : m = current[i]
  BY <1>1, <1>2, LenProperties DEF Made
<1>5. CASE managers[i][m].isRunning
  <2>1. managers' = [managers EXCEPT ![i] = managers[i]]
    BY <1>4, <1>5 DEF Start, TypeOK
  <2>2. ~Changing(cb, prev[i], managers[i], current[i])
    BY <1>3, <1>4, <1>5 DEF Changing
  <2>3. QED
    BY <1>1, <1>2, <1>3, <2>1, <2>2, DoneKeeps
<1>6. CASE ~managers[i][m].isRunning
  <2>1. PICK man : man = [isRunning |-> TRUE, cancelled |-> FALSE, jobs |-> [j \in Job |-> "started"]]
    OBVIOUS
  <2>2. man \in ManagerState /\ man.isRunning /\ ~man.cancelled
    BY <2>1, ManagerStarted
  <2>3. PICK ms \in Seq(ManagerState) : ms = [managers[i] EXCEPT ![m] = man] /\ Replaces(managers[i], ms, m, man)
    BY <1>1, <2>2, Replaced
  <2>4. managers' = [managers EXCEPT ![i] = ms]
    BY <1>4, <1>6, <2>1, <2>3 DEF Start
  <2>5. Len(ms) = Len(managers[i])
    BY <2>3 DEF Replaces
  <2>6. ASSUME Changing(cb, prev[i], managers[i], current[i]) PROVE Settled(prev[i], ms, current[i])
    <3>1. prev[i] = "leader" /\ current[i] # 0
      BY <1>3, <1>4, <2>6 DEF Changing
    <3>2. \A k \in 1 .. Len(managers[i]) : k # m => ~managers[i][k].isRunning /\ managers[i][k].cancelled
      BY <1>3, <1>4, <2>6, <3>1 DEF Changing
    <3>3. \A k \in 1 .. Len(ms) : IF k = m THEN ms[k] = man ELSE ~ms[k].isRunning /\ ms[k].cancelled
      BY <1>1, <2>3, <3>2 DEF Replaces
    <3>4. QED
      BY <1>4, <2>2, <3>1, <3>3 DEF Settled
  <2>7. QED
    BY <1>1, <1>2, <1>3, <2>4, <2>5, <2>6, DoneKeeps
<1>7. QED
  BY <1>5, <1>6

LEMMA StopKeeps ==
  ASSUME TypeOK, LeadInv, NEW i \in Instance, NEW n, Stop(i, n) PROVE TypeOK' /\ LeadInv'
<1>1. /\ callbacks[i] \in Seq(CallbackState) /\ managers[i] \in Seq(ManagerState)
      /\ Made(callbacks[i], current[i]) /\ current[i] \in Nat /\ current[i] <= Len(managers[i])
  BY DEF TypeOK, LeadInv
<1>2. /\ n \in DOMAIN callbacks[i] /\ ~callbacks[i][n].isLeader /\ Done(i, n)
      /\ UNCHANGED <<mode, raft, elected, prev, current, changes, crashes, overtaken>>
  BY DEF Stop, Pending
<1>3. PICK cb : cb = callbacks[i][n] /\ ~cb.made /\ ~cb.isLeader
  BY <1>1, <1>2, LenProperties DEF Made
<1>4. PICK m \in Nat : m = current[i] /\ m <= Len(managers[i])
  BY <1>1
<1>5. CASE m = 0 \/ (m # 0 /\ ~managers[i][m].isRunning)
  <2>1. managers' = [managers EXCEPT ![i] = managers[i]]
    BY <1>4, <1>5 DEF Stop, TypeOK
  <2>2. Changing(cb, prev[i], managers[i], current[i]) => Settled(prev[i], managers[i], current[i])
    BY <1>3, <1>4, <1>5 DEF Changing, Settled
  <2>3. QED
    BY <1>1, <1>2, <1>3, <2>1, <2>2, DoneKeeps
<1>6. CASE m # 0 /\ managers[i][m].isRunning
  <2>1. m \in 1 .. Len(managers[i]) /\ managers[i][m] \in ManagerState
    BY <1>1, <1>4, <1>6, LenProperties, ElementOfSeq
  <2>2. PICK man : man = [managers[i][m] EXCEPT !.isRunning = FALSE, !.cancelled = TRUE]
    OBVIOUS
  <2>3. man \in ManagerState /\ ~man.isRunning /\ man.cancelled
    BY <2>2, <2>1, ManagerStopped
  <2>4. PICK ms \in Seq(ManagerState) : ms = [managers[i] EXCEPT ![m] = man] /\ Replaces(managers[i], ms, m, man)
    BY <1>1, <2>1, <2>3, Replaced
  <2>5. managers' = [managers EXCEPT ![i] = ms]
    BY <1>4, <1>6, <2>2, <2>4 DEF Stop
  <2>6. Len(ms) = Len(managers[i])
    BY <2>4 DEF Replaces
  <2>7. ASSUME Changing(cb, prev[i], managers[i], current[i]) PROVE Settled(prev[i], ms, current[i])
    <3>1. prev[i] # "leader"
      BY <1>3, <2>7 DEF Changing
    <3>2. \A k \in 1 .. Len(managers[i]) : k # m => ~managers[i][k].isRunning /\ managers[i][k].cancelled
      BY <1>3, <1>4, <2>7 DEF Changing
    <3>3. \A k \in 1 .. Len(ms) : ~ms[k].isRunning /\ ms[k].cancelled
      BY <1>1, <2>3, <2>4, <3>2 DEF Replaces
    <3>4. QED
      BY <3>1, <3>3 DEF Settled
  <2>8. QED
    BY <1>1, <1>2, <1>3, <2>5, <2>6, <2>7, DoneKeeps
<1>7. QED
  BY <1>5, <1>6

LEMMA JobKeeps ==
  ASSUME TypeOK, LeadInv, NEW i \in Instance, NEW m \in DOMAIN managers[i], NEW j \in Job, NEW from,
         NEW to \in {"executing", "waiting", "gone"}, JobGoes(i, m, j, from, to)
  PROVE  TypeOK' /\ LeadInv'
<1>1. /\ callbacks[i] \in Seq(CallbackState) /\ managers[i] \in Seq(ManagerState)
      /\ Typed(callbacks[i], managers[i], current[i]) /\ Made(callbacks[i], current[i])
  BY TypedParts DEF TypeOK, LeadInv
<1>2. m \in 1 .. Len(managers[i])
  BY <1>1, LenProperties
<1>3. managers[i][m] \in ManagerState
  BY <1>1, <1>2, ElementOfSeq
<1>4. PICK man : man = [managers[i][m] EXCEPT !.jobs[j] = to]
  OBVIOUS
<1>5. /\ man \in ManagerState
      /\ man.isRunning = managers[i][m].isRunning /\ man.cancelled = managers[i][m].cancelled
  BY <1>3, <1>4, ManagerWorking
<1>6. PICK ms \in Seq(ManagerState) : ms = [managers[i] EXCEPT ![m] = man] /\ Replaces(managers[i], ms, m, man)
  BY <1>1, <1>2, <1>5, Replaced
<1>7. /\ callbacks' = [callbacks EXCEPT ![i] = callbacks[i]] /\ managers' = [managers EXCEPT ![i] = ms]
      /\ current' = [current EXCEPT ![i] = current[i]]
      /\ UNCHANGED <<mode, raft, elected, prev, changes, crashes, overtaken>>
  BY <1>4, <1>6 DEF JobGoes, TypeOK
<1>8. Kept(callbacks[i], prev[i], managers[i], current[i], callbacks[i], ms, current[i])
  BY <1>1, <1>2, <1>5, <1>6, Goes DEF Kept
<1>9. QED
  BY <1>1, <1>7, <1>8, WorkKeeps

\* What a process starts with is in order.
LEMMA Fresh ==
  ASSUME NEW p \in State, NEW cbs, cbs = IF p = "leader" THEN <<Callback(TRUE)>> ELSE << >>
  PROVE  /\ cbs \in Seq(CallbackState) /\ << >> \in Seq(ManagerState) /\ Len(<< >>) = 0
         /\ Typed(cbs, << >>, 0) /\ Made(cbs, 0) /\ InTurn(cbs, p, << >>, 0)
<1>1. PICK cb \in CallbackState : cb = Callback(TRUE) /\ cb.isLeader /\ ~cb.made
  <2>1. Callback(TRUE) \in CallbackState /\ Callback(TRUE).made = FALSE /\ Callback(TRUE).isLeader = TRUE
    BY CallbackFields
  <2>2. QED
    BY <2>1
<1>2. cbs = IF p = "leader" THEN <<cb>> ELSE << >>
  BY <1>1
<1>3. /\ cbs \in Seq(CallbackState) /\ (p # "leader" => Len(cbs) < 1)
      /\ p = "leader" => Len(cbs) >= 1 /\ Len(cbs) <= 1 /\ cbs[1] = cb
  <2>1. CASE p = "leader"
    <3>1. cbs = <<cb>>
      BY <1>2, <2>1
    <3>2. cbs \in Seq(CallbackState) /\ Len(cbs) >= 1 /\ Len(cbs) <= 1 /\ cbs[1] = cb
      BY <3>1, Single
    <3>3. QED
      BY <2>1, <3>2
  <2>2. CASE p # "leader"
    <3>1. cbs = << >>
      BY <1>2, <2>2
    <3>2. << >> \in Seq(CallbackState) /\ Len(<< >>) = 0
      BY EmptySeq
    <3>3. QED
      BY <2>2, <3>1, <3>2
  <2>3. QED
    BY <2>1, <2>2
<1>4. PICK ms \in Seq(ManagerState) : ms = << >>
  BY EmptySeq
<1>5. Len(ms) = 0
  BY <1>4, EmptySeq
<1>6. Typed(cbs, ms, 0) /\ Made(cbs, 0) /\ InTurn(cbs, p, ms, 0)
  BY <1>1, <1>3, <1>5, Begins
<1>7. QED
  BY <1>3, <1>4, <1>5, <1>6

LEMMA CrashKeeps ==
  ASSUME TypeOK, LeadInv, NEW i \in Instance, Crash(i) PROVE TypeOK' /\ LeadInv'
<1>1. PICK p \in State : p = IF mode = "none" THEN "leader" ELSE "follower"
  BY DEF State
<1>2. PICK cbs : cbs = IF p = "leader" THEN <<Callback(TRUE)>> ELSE << >>
  OBVIOUS
<1>3. raft' = [raft EXCEPT ![i] = p] /\ raft'[i] = p /\ raft' \in [Instance -> State]
  BY <1>1 DEF Crash, TypeOK
<1>4. Typed(cbs, << >>, 0) /\ Made(cbs, 0) /\ InTurn(cbs, p, << >>, 0)
  BY <1>2, Fresh
<1>5. /\ callbacks' = [callbacks EXCEPT ![i] = cbs] /\ prev' = [prev EXCEPT ![i] = p]
      /\ managers' = [managers EXCEPT ![i] = << >>] /\ current' = [current EXCEPT ![i] = 0]
  BY <1>1, <1>2, <1>3 DEF Crash
<1>6. /\ overtaken' \subseteq Instance /\ \A k \in Instance \ {i} : k \in overtaken' <=> k \in overtaken
      /\ mode' = mode /\ elected' \subseteq Instance /\ changes' \in 0 .. MaxChanges
      /\ crashes' \in 0 .. MaxCrashes
  BY LeadershipAssumption DEF Crash, TypeOK
<1>7. QED
  BY <1>3, <1>4, <1>5, <1>6, OneInstance

-----------------------------------------------------------------------------
(* The theorems.                                                           *)

LEMMA InitInv == Init => TypeOK /\ LeadInv
<1> SUFFICES ASSUME Init PROVE TypeOK /\ LeadInv
  OBVIOUS
<1>1. PICK p \in State : p = IF mode = "none" THEN "leader" ELSE "follower"
  BY DEF State
<1>2. PICK cbs : cbs = IF p = "leader" THEN <<Callback(TRUE)>> ELSE << >>
  OBVIOUS
<1>3. /\ cbs \in Seq(CallbackState) /\ << >> \in Seq(ManagerState)
      /\ Typed(cbs, << >>, 0) /\ Made(cbs, 0) /\ InTurn(cbs, p, << >>, 0)
  BY <1>2, Fresh
<1>4. /\ raft = [i \in Instance |-> p] /\ prev = raft /\ callbacks = [i \in Instance |-> cbs]
      /\ managers = [i \in Instance |-> << >>] /\ current = [i \in Instance |-> 0]
  BY <1>1, <1>2 DEF Init
<1>5. ASSUME NEW i \in Instance PROVE current[i] <= Len(managers[i])
  <2>1. current[i] = 0 /\ managers[i] = << >>
    BY <1>4
  <2>2. QED
    BY <2>1
<1>6. TypeOK
  <2>1. /\ callbacks \in [Instance -> Seq(CallbackState)] /\ managers \in [Instance -> Seq(ManagerState)]
        /\ current \in [Instance -> Nat] /\ raft \in [Instance -> State] /\ prev \in [Instance -> State]
    BY <1>3, <1>4
  <2>2. /\ mode \in Mode /\ elected \subseteq Instance /\ overtaken \subseteq Instance
        /\ changes \in 0 .. MaxChanges /\ crashes \in 0 .. MaxCrashes
    BY LeadershipAssumption DEF Init
  <2>3. QED
    BY <1>5, <2>1, <2>2 DEF TypeOK
<1>7. LeadInv
  BY <1>3, <1>4 DEF LeadInv
<1>8. QED
  BY <1>6, <1>7

LEMMA NextInv == TypeOK /\ LeadInv /\ [Next]_vars => TypeOK' /\ LeadInv'
<1> SUFFICES ASSUME TypeOK, LeadInv, [Next]_vars PROVE TypeOK' /\ LeadInv'
  OBVIOUS
<1>1. ASSUME NEW i \in Instance, Campaign(i) \/ Win(i) \/ Lose(i) \/ StepDown(i) PROVE TypeOK' /\ LeadInv'
  BY <1>1, RaftKeeps
<1>2. ASSUME NEW i \in Instance, Crash(i) PROVE TypeOK' /\ LeadInv'
  BY <1>2, CrashKeeps
<1>3. ASSUME NEW i \in Instance, Watch(i) PROVE TypeOK' /\ LeadInv'
  BY <1>3, WatchKeeps
<1>4. ASSUME NEW i \in Instance, NEW n \in DOMAIN callbacks[i], MakeManager(i, n) PROVE TypeOK' /\ LeadInv'
  BY <1>4, MakeManagerKeeps
<1>5. ASSUME NEW i \in Instance, NEW n \in DOMAIN callbacks[i], Start(i, n) PROVE TypeOK' /\ LeadInv'
  BY <1>5, StartKeeps
<1>6. ASSUME NEW i \in Instance, NEW n \in DOMAIN callbacks[i], Stop(i, n) PROVE TypeOK' /\ LeadInv'
  BY <1>6, StopKeeps
<1>7. ASSUME NEW i \in Instance, NEW m \in DOMAIN managers[i], NEW j \in Job,
             Execute(i, m, j) \/ Finish(i, m, j) \/ Leave(i, m, j)
      PROVE  TypeOK' /\ LeadInv'
  BY <1>7, JobKeeps DEF Execute, Finish, Leave
<1>8. CASE UNCHANGED vars
  BY <1>8 DEF vars, TypeOK, LeadInv
<1>9. QED
  BY <1>1, <1>2, <1>3, <1>4, <1>5, <1>6, <1>7, <1>8 DEF Next

LEMMA Invariance == Spec => [](TypeOK /\ LeadInv)
  BY InitInv, NextInv, PTL DEF Spec

\* The variable that the callbacks share is always the index of a manager that
\* exists, or 0, also on an instance on which callbacks overlapped.
THEOREM Typing == Spec => []TypeOK
  BY Invariance, PTL

\* However the leadership changes and whatever the instances, elections and crashes:
\* as long as the callbacks of an instance do not overlap, its managers follow the
\* leadership it was last told of, and no manager is left running behind.
THEOREM Following == Spec => []ManagerFollowsLeadership
<1>1. TypeOK /\ LeadInv => ManagerFollowsLeadership
  <2> SUFFICES ASSUME TypeOK, LeadInv, NEW i \in Instance, i \notin overtaken, callbacks[i] = << >>
               PROVE  /\ prev[i] = "leader" => current[i] # 0
                      /\ \A m \in DOMAIN managers[i] :
                            /\ managers[i][m].isRunning <=> m = current[i] /\ prev[i] = "leader"
                            /\ managers[i][m].isRunning <=> ~managers[i][m].cancelled
    BY DEF ManagerFollowsLeadership
  <2>1. Len(callbacks[i]) < 1
    OBVIOUS
  <2>2. Settled(prev[i], managers[i], current[i])
    BY <2>1 DEF LeadInv, InTurn
  <2>3. managers[i] \in Seq(ManagerState)
    BY DEF TypeOK
  <2>4. DOMAIN managers[i] = 1 .. Len(managers[i])
    BY <2>3, LenProperties
  <2>5. QED
    BY <2>2, <2>4 DEF Settled
<1>2. QED
  BY <1>1, Invariance, PTL

=============================================================================
