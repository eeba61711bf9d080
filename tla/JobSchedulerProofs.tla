------------------------- MODULE JobSchedulerProofs -------------------------
(***************************************************************************)
(* JobScheduler's safety invariants hold for every set of tasks, of        *)
(* trigger requests, and whatever jobs are locked or have a dynamic delay. *)
(***************************************************************************)
EXTENDS JobScheduler, TLAPS

Places(a) == IF a = "loop" THEN LoopPlaces ELSE RequestPlaces

(* Whoever is inside a run of a locked task holds the mutex of the task.     *)
HolderOnly ==
  \A t \in Locked, a \in Actors : pc[t][a] \in Busy => lock[t] = a

(* "running" is on display from the start of the run to its report.          *)
RunningShown ==
  \A t \in Locked, a \in Actors : pc[t][a] \in {"exec", "report"} => status[t] = "running"

(* The scheduled runs begun after Stop, and those that may still begin.      *)
Bit(b) == IF b THEN 1 ELSE 0

LateBudget ==
  \A t \in Tasks :
    /\ done => late[t] + Bit(pc[t]["loop"] \in {"delay", "try"}) + Bit(ready[t]) <= 2
    /\ ~done => late[t] = 0

IInv == JobsTypeOK /\ HolderOnly /\ RunningShown /\ LateBudget

(* A variable that is a function of functions has its parts' types. *)
LEMMA PcType ==
  ASSUME JobsTypeOK, NEW t \in Tasks, NEW a \in Actors
  PROVE  pc[t][a] \in Places(a) /\ pc[t] \in [Actors -> LoopPlaces \cup RequestPlaces]
BY DEF JobsTypeOK, Places, Actors

(* Moving one actor of one task leaves every other one where it is. *)
LEMMA GotoPlace ==
  ASSUME JobsTypeOK, NEW t \in Tasks, NEW a \in Actors, NEW p \in Places(a), Goto(t, a, p)
  PROVE  /\ pc' \in [Tasks -> [Actors -> LoopPlaces \cup RequestPlaces]]
         /\ \A u \in Tasks : pc'[u]["loop"] \in LoopPlaces
         /\ \A u \in Tasks, r \in Requests : pc'[u][r] \in RequestPlaces
         /\ \A u \in Tasks, b \in Actors :
              pc'[u][b] = IF u = t /\ b = a THEN p ELSE pc[u][b]
<1>1. p \in LoopPlaces \cup RequestPlaces
  BY DEF Places
<1>2. pc' = [pc EXCEPT ![t] = [pc[t] EXCEPT ![a] = p]]
  BY DEF Goto
<1>3. pc \in [Tasks -> [Actors -> LoopPlaces \cup RequestPlaces]]
  BY DEF JobsTypeOK
<1>4. /\ pc' \in [Tasks -> [Actors -> LoopPlaces \cup RequestPlaces]]
      /\ \A u \in Tasks, b \in Actors : pc'[u][b] = IF u = t /\ b = a THEN p ELSE pc[u][b]
  BY <1>1, <1>2, <1>3
<1>5. \A u \in Tasks, b \in Actors : pc'[u][b] \in Places(b)
  BY <1>4, PcType
<1>6. "loop" \in Actors /\ Places("loop") = LoopPlaces
  BY DEF Actors, Places
<1>7. \A r \in Requests : r \in Actors /\ Places(r) = RequestPlaces
  BY JobSchedulerAssumption DEF Actors, Places
<1>8. QED
  BY <1>4, <1>5, <1>6, <1>7

LEMMA InitIInv == JobsInit => IInv
<1> SUFFICES ASSUME JobsInit PROVE IInv
  OBVIOUS
<1>1. PICK f \in [Tasks -> {"delay", "try"}] :
        pc = [t \in Tasks |-> [a \in Actors |-> IF a = "loop" THEN f[t] ELSE "off"]]
  BY DEF JobsInit
<1>2. \A t \in Tasks : pc[t]["loop"] = f[t] /\ f[t] \in {"delay", "try"}
  BY <1>1 DEF Actors
<1>3. \A t \in Tasks, r \in Requests : pc[t][r] = "off"
  BY <1>1, JobSchedulerAssumption DEF Actors
<1>4. \A t \in Tasks, a \in Actors : pc[t][a] \in {"delay", "try", "off"}
  BY <1>2, <1>3 DEF Actors
<1>5. pc \in [Tasks -> [Actors -> LoopPlaces \cup RequestPlaces]]
  BY <1>1 DEF LoopPlaces, RequestPlaces
<1>6. JobsTypeOK
  <2>1. /\ \A t \in Tasks : pc[t]["loop"] \in LoopPlaces
        /\ \A t \in Tasks, r \in Requests : pc[t][r] \in RequestPlaces
    BY <1>2, <1>3 DEF LoopPlaces, RequestPlaces
  <2>2. timers \in [Tasks -> [Final -> 0 .. MaxTimers]] /\ late \in [Tasks -> Nat]
    BY JobSchedulerAssumption DEF JobsInit
  <2>3. /\ lock \in [Tasks -> Actors \cup {"free"}]
        /\ status \in [Tasks -> {"idle", "running"} \cup Final]
        /\ ready \in [Tasks -> BOOLEAN]
        /\ done \in BOOLEAN
        /\ stopped \subseteq Tasks \ Dynamic
    BY DEF JobsInit
  <2>4. QED
    BY <1>5, <2>1, <2>2, <2>3 DEF JobsTypeOK
<1>7. HolderOnly /\ RunningShown
  BY <1>4, JobSchedulerAssumption DEF HolderOnly, RunningShown, Busy
<1>8. LateBudget
  BY DEF JobsInit, LateBudget
<1>9. QED
  BY <1>6, <1>7, <1>8 DEF IInv

-----------------------------------------------------------------------------
(* Steps that only move one actor between places outside a run, or out of    *)
(* its last one: the mutex and the status stay, and the budget of late runs  *)
(* is not exceeded.                                                           *)
LEMMA MoveIInv ==
  ASSUME IInv, NEW t \in Tasks, NEW a \in Actors, NEW p \in Places(a), Goto(t, a, p),
         UNCHANGED <<lock, status, timers, done, stopped, late>>,
         ready' \in [Tasks -> BOOLEAN],
         t \in Locked => p \notin Busy \/ (pc[t][a] = "exec" /\ p = "report"),
         \A u \in Tasks : ready'[u] => ready[u],
         a = "loop" /\ p \in {"delay", "try"} =>
           pc[t][a] \in {"delay", "try"} \/ (ready[t] /\ ~ready'[t])
  PROVE  IInv'
<1> USE DEF IInv
<1>1. \A u \in Tasks, b \in Actors : pc'[u][b] = IF u = t /\ b = a THEN p ELSE pc[u][b]
  BY GotoPlace
<1>2. JobsTypeOK'
  BY GotoPlace DEF JobsTypeOK
<1>3. HolderOnly'
  BY <1>1, JobSchedulerAssumption DEF HolderOnly, Busy
<1>4. RunningShown'
  BY <1>1, JobSchedulerAssumption DEF RunningShown, Busy
<1>5. LateBudget'
  <2>1. "loop" \in Actors
    BY DEF Actors
  <2>2. \A u \in Tasks : late[u] \in Nat /\ ready[u] \in BOOLEAN /\ ready'[u] \in BOOLEAN
    BY DEF JobsTypeOK
  <2> SUFFICES ASSUME NEW u \in Tasks
      PROVE  /\ done' => late'[u] + Bit(pc'[u]["loop"] \in {"delay", "try"}) + Bit(ready'[u]) <= 2
             /\ ~done' => late'[u] = 0
    BY DEF LateBudget
  <2>3. CASE u = t /\ a = "loop"
    BY <1>1, <2>1, <2>2, <2>3 DEF LateBudget, Bit
  <2>4. CASE ~(u = t /\ a = "loop")
    <3>1. pc'[u]["loop"] = pc[u]["loop"]
      BY <1>1, <2>1, <2>4
    <3>2. QED
      BY <2>2, <3>1 DEF LateBudget, Bit
  <2>5. QED
    BY <2>3, <2>4
<1>6. QED
  BY <1>2, <1>3, <1>4, <1>5

LEMMA LocksIInv ==
  ASSUME IInv, NEW t \in Tasks, NEW a \in Actors, Locks(t, a)
  PROVE  IInv'
<1> USE DEF IInv, Locks
<1>1. "begin" \in Places(a)
  BY DEF Places, LoopPlaces, RequestPlaces, Busy
<1>2. \A u \in Tasks, b \in Actors : pc'[u][b] = IF u = t /\ b = a THEN "begin" ELSE pc[u][b]
  BY <1>1, GotoPlace
<1>3. lock' \in [Tasks -> Actors \cup {"free"}] /\ late' \in [Tasks -> Nat]
  BY DEF JobsTypeOK
<1>4. JobsTypeOK'
  BY <1>1, <1>3, GotoPlace DEF JobsTypeOK
<1>5. HolderOnly'
  <2> SUFFICES ASSUME NEW u \in Locked, NEW b \in Actors, pc'[u][b] \in Busy
      PROVE  lock'[u] = b
    BY DEF HolderOnly
  <2>1. u \in Tasks /\ lock \in [Tasks -> Actors \cup {"free"}]
    BY JobSchedulerAssumption DEF JobsTypeOK
  <2>2. CASE u = t /\ b = a
    BY <2>1, <2>2
  <2>3. CASE u = t /\ b # a
    \* nobody is inside a run while the mutex is free
    <3>1. lock[t] = b
      BY <1>2, <2>1, <2>3 DEF HolderOnly
    <3>2. b = "free"
      BY <3>1 DEF LockFree
    <3>3. QED
      BY <3>2, JobSchedulerAssumption DEF Actors
  <2>4. CASE u # t
    BY <1>2, <2>1, <2>4 DEF HolderOnly
  <2>5. QED
    BY <2>2, <2>3, <2>4
<1>6. RunningShown'
  BY <1>2, JobSchedulerAssumption DEF RunningShown
<1>7. LateBudget'
  <2>1. "loop" \in Actors
    BY DEF Actors
  <2>2. \A u \in Tasks : late[u] \in Nat /\ ready[u] \in BOOLEAN
    BY DEF JobsTypeOK
  <2> SUFFICES ASSUME NEW u \in Tasks
      PROVE  /\ done' => late'[u] + Bit(pc'[u]["loop"] \in {"delay", "try"}) + Bit(ready'[u]) <= 2
             /\ ~done' => late'[u] = 0
    BY DEF LateBudget
  <2>3. CASE u = t /\ a = "loop"
    <3>1. pc'[u]["loop"] = "begin" /\ pc[u]["loop"] = "try"
      BY <1>2, <2>1, <2>3
    <3>2. late'[u] = IF done THEN late[u] + 1 ELSE late[u]
      BY <2>3 DEF JobsTypeOK
    <3>3. QED
      BY <2>2, <3>1, <3>2 DEF LateBudget, Bit
  <2>4. CASE ~(u = t /\ a = "loop")
    <3>1. pc'[u]["loop"] = pc[u]["loop"] /\ late'[u] = late[u]
      BY <1>2, <2>1, <2>4 DEF JobsTypeOK
    <3>2. QED
      BY <2>2, <3>1 DEF LateBudget, Bit
  <2>5. QED
    BY <2>3, <2>4
<1>8. QED
  BY <1>4, <1>5, <1>6, <1>7

(* The other steps of a run. *)
LEMMA RunIInv ==
  ASSUME IInv, NEW t \in Tasks, NEW a \in Actors, NEW p \in Places(a), Goto(t, a, p),
         pc[t][a] \in Busy, p \notin {"delay", "try"},
         UNCHANGED <<ready, done, stopped, late>>,
         lock' \in [Tasks -> Actors \cup {"free"}],
         status' \in [Tasks -> {"idle", "running"} \cup Final],
         timers' \in [Tasks -> [Final -> 0 .. MaxTimers]],
         \A u \in Tasks : u # t => lock'[u] = lock[u] /\ status'[u] = status[u],
         p \in Busy => lock' = lock,
         p \in {"exec", "report"} => status'[t] = "running"
  PROVE  IInv'
<1> USE DEF IInv
<1>1. \A u \in Tasks, b \in Actors : pc'[u][b] = IF u = t /\ b = a THEN p ELSE pc[u][b]
  BY GotoPlace
<1>2. JobsTypeOK'
  BY GotoPlace DEF JobsTypeOK
<1>3. t \in Locked => \A b \in Actors : b # a => pc[t][b] \notin Busy
  BY DEF HolderOnly
<1>4. HolderOnly'
  BY <1>1, <1>3, JobSchedulerAssumption DEF HolderOnly
<1>5. RunningShown'
  BY <1>1, <1>3, JobSchedulerAssumption DEF RunningShown, Busy
<1>6. LateBudget'
  <2>1. "loop" \in Actors
    BY DEF Actors
  <2>2. \A u \in Tasks : late[u] \in Nat /\ ready[u] \in BOOLEAN
    BY DEF JobsTypeOK
  <2> SUFFICES ASSUME NEW u \in Tasks
      PROVE  /\ done' => late'[u] + Bit(pc'[u]["loop"] \in {"delay", "try"}) + Bit(ready'[u]) <= 2
             /\ ~done' => late'[u] = 0
    BY DEF LateBudget
  <2>3. pc'[u]["loop"] \in {"delay", "try"} => pc[u]["loop"] \in {"delay", "try"}
    BY <1>1, <2>1
  <2>4. QED
    BY <2>2, <2>3 DEF LateBudget, Bit
<1>7. QED
  BY <1>2, <1>4, <1>5, <1>6

LEMMA RunStepIInv ==
  ASSUME IInv, NEW t \in Tasks, NEW a \in Actors, RunStep(t, a)
  PROVE  IInv'
<1> USE DEF Places, LoopPlaces, RequestPlaces, Busy
<1>0. JobsTypeOK
  BY DEF IInv
<1>1. CASE Skipped(t, a)
  <2>1. Goto(t, a, SkipTo(a)) /\ SkipTo(a) \in Places(a) /\ SkipTo(a) \notin Busy \cup {"delay", "try"}
    BY <1>1 DEF Skipped, SkipTo
  <2>2. UNCHANGED <<lock, status, timers, ready, done, stopped, late>> /\ ready' \in [Tasks -> BOOLEAN]
    BY <1>0, <1>1 DEF Skipped, JobsTypeOK
  <2>3. QED
    BY <2>1, <2>2, MoveIInv
<1>2. CASE Locks(t, a)
  BY <1>2, LocksIInv
<1>3. CASE Begin(t, a)
  <2>1. /\ status' \in [Tasks -> {"idle", "running"} \cup Final]
        /\ status'[t] = "running"
        /\ \A u \in Tasks : u # t => status'[u] = status[u]
        /\ lock' = lock /\ timers' = timers
    BY <1>0, <1>3 DEF Begin, JobsTypeOK
  <2>2. /\ Goto(t, a, "exec") /\ "exec" \in Places(a) /\ pc[t][a] \in Busy
        /\ UNCHANGED <<ready, done, stopped, late>>
    BY <1>3 DEF Begin
  <2>3. /\ lock' \in [Tasks -> Actors \cup {"free"}]
        /\ timers' \in [Tasks -> [Final -> 0 .. MaxTimers]]
        /\ \A u \in Tasks : u # t => lock'[u] = lock[u]
    BY <1>0, <2>1 DEF JobsTypeOK
  <2>4. QED
    BY <2>1, <2>2, <2>3, RunIInv
<1>4. CASE JobReturns(t, a)
  <2>1. /\ Goto(t, a, "report") /\ "report" \in Places(a) /\ pc[t][a] = "exec"
        /\ UNCHANGED <<lock, status, timers, ready, done, stopped, late>>
    BY <1>4 DEF JobReturns
  <2>2. ready' \in [Tasks -> BOOLEAN]
    BY <1>0, <2>1 DEF JobsTypeOK
  <2>3. QED
    BY <2>1, <2>2, MoveIInv
<1>5. CASE Report(t, a)
  <2>1. PICK s \in Final :
          /\ timers[t][s] < MaxTimers
          /\ status' = [status EXCEPT ![t] = s]
          /\ timers' = [timers EXCEPT ![t][s] = @ + 1]
    BY <1>5 DEF Report
  <2>2. timers' \in [Tasks -> [Final -> 0 .. MaxTimers]]
    <3>1. timers[t] \in [Final -> 0 .. MaxTimers]
      BY <1>0 DEF JobsTypeOK
    <3>2. [timers[t] EXCEPT ![s] = @ + 1] \in [Final -> 0 .. MaxTimers]
      BY <2>1, <3>1, JobSchedulerAssumption
    <3>3. timers' = [timers EXCEPT ![t] = [timers[t] EXCEPT ![s] = @ + 1]]
      BY <2>1
    <3>4. QED
      BY <1>0, <3>2, <3>3 DEF JobsTypeOK
  <2>3. /\ status' \in [Tasks -> {"idle", "running"} \cup Final]
        /\ \A u \in Tasks : u # t => status'[u] = status[u]
    BY <1>0, <2>1 DEF JobsTypeOK
  <2>4. /\ Goto(t, a, "unlock") /\ "unlock" \in Places(a) /\ pc[t][a] \in Busy
        /\ UNCHANGED <<lock, ready, done, stopped, late>>
    BY <1>5 DEF Report
  <2>5. QED
    BY <1>0, <2>2, <2>3, <2>4, RunIInv DEF JobsTypeOK
<1>6. CASE Unlock(t, a)
  <2>1. Goto(t, a, SkipTo(a)) /\ SkipTo(a) \in Places(a) /\ SkipTo(a) \notin Busy \cup {"delay", "try"}
    BY <1>6 DEF Unlock, SkipTo
  <2>2. /\ lock' \in [Tasks -> Actors \cup {"free"}]
        /\ \A u \in Tasks : u # t => lock'[u] = lock[u]
    BY <1>0, <1>6 DEF Unlock, Released, JobsTypeOK
  <2>3. pc[t][a] \in Busy /\ UNCHANGED <<status, timers, ready, done, stopped, late>>
    BY <1>6 DEF Unlock
  <2>4. /\ status' \in [Tasks -> {"idle", "running"} \cup Final]
        /\ timers' \in [Tasks -> [Final -> 0 .. MaxTimers]]
        /\ \A u \in Tasks : u # t => status'[u] = status[u]
        /\ SkipTo(a) \notin {"exec", "report"}
    BY <1>0, <2>1, <2>3 DEF JobsTypeOK
  <2>5. QED
    BY <2>1, <2>2, <2>3, <2>4, RunIInv
<1>7. QED
  BY <1>1, <1>2, <1>3, <1>4, <1>5, <1>6 DEF RunStep

LEMMA LoopStepIInv ==
  ASSUME IInv, NEW t \in Tasks, LoopStep(t)
  PROVE  IInv'
<1> USE DEF Places, LoopPlaces, Busy
<1>0. JobsTypeOK /\ "loop" \in Actors
  BY DEF IInv, Actors
<1>1. CASE DelayElapsed(t)
  <2>1. /\ pc[t]["loop"] = "delay" /\ Goto(t, "loop", "try") /\ "try" \in Places("loop")
        /\ UNCHANGED <<lock, status, timers, ready, done, stopped, late>>
    BY <1>1 DEF DelayElapsed
  <2>2. ready' \in [Tasks -> BOOLEAN]
    BY <1>0, <2>1 DEF JobsTypeOK
  <2>3. QED
    BY <1>0, <2>1, <2>2, MoveIInv
<1>2. CASE TickTaken(t)
  <2>1. /\ ready[t] /\ Goto(t, "loop", "try") /\ "try" \in Places("loop")
        /\ UNCHANGED <<lock, status, timers, done, stopped, late>>
    BY <1>2 DEF TickTaken
  <2>2. /\ ready' \in [Tasks -> BOOLEAN] /\ ~ready'[t]
        /\ \A u \in Tasks : ready'[u] => ready[u]
    BY <1>0, <1>2 DEF TickTaken, JobsTypeOK
  <2>3. QED
    BY <1>0, <2>1, <2>2, MoveIInv
<1>3. CASE LoopExits(t)
  <2>1. /\ Goto(t, "loop", "exited") /\ "exited" \in Places("loop")
        /\ UNCHANGED <<lock, status, timers, ready, done, stopped, late>>
    BY <1>3 DEF LoopExits
  <2>2. ready' \in [Tasks -> BOOLEAN]
    BY <1>0, <2>1 DEF JobsTypeOK
  <2>3. QED
    BY <1>0, <2>1, <2>2, MoveIInv
<1>4. QED
  BY <1>1, <1>2, <1>3 DEF LoopStep

LEMMA TriggerIInv ==
  ASSUME IInv, NEW t \in Tasks, NEW r \in Requests, Trigger(t, r)
  PROVE  IInv'
<1>1. r \in Actors /\ r # "loop"
  BY JobSchedulerAssumption DEF Actors
<1> DEFINE p == IF t \in Locked THEN "try" ELSE "begin"
<1>2. p \in Places(r) /\ (t \in Locked => p \notin Busy) /\ Goto(t, r, p)
  BY <1>1 DEF Places, RequestPlaces, Busy, Trigger
<1>3. UNCHANGED <<lock, status, timers, ready, done, stopped, late>> /\ ready' \in [Tasks -> BOOLEAN]
  BY DEF Trigger, IInv, JobsTypeOK
<1> HIDE DEF p
<1>4. QED
  BY <1>1, <1>2, <1>3, MoveIInv

(* Timers and Stop move nobody.  An idle timer that finds "running" leaves it. *)
LEMMA TimerIInv ==
  ASSUME IInv, NEW t \in Tasks, TimerFires(t)
  PROVE  IInv'
<1> USE DEF IInv, TimerFires
<1>1. JobsTypeOK'
  BY DEF JobsTypeOK
<1>2. HolderOnly' /\ RunningShown'
  BY DEF HolderOnly, RunningShown
<1>3. LateBudget'
  BY DEF LateBudget, Ticking
<1>4. QED
  BY <1>1, <1>2, <1>3

LEMMA IdleTimerIInv ==
  ASSUME IInv, NEW t \in Tasks, NEW s \in Final, IdleTimer(t, s)
  PROVE  IInv'
<1> USE DEF IInv, IdleTimer
<1>1. timers' \in [Tasks -> [Final -> 0 .. MaxTimers]]
  <2>1. timers[t] \in [Final -> 0 .. MaxTimers]
    BY DEF JobsTypeOK
  <2>2. [timers[t] EXCEPT ![s] = @ - 1] \in [Final -> 0 .. MaxTimers]
    BY <2>1, JobSchedulerAssumption
  <2>3. timers' = [timers EXCEPT ![t] = [timers[t] EXCEPT ![s] = @ - 1]]
    OBVIOUS
  <2>4. QED
    BY <2>2, <2>3 DEF JobsTypeOK
<1>2. /\ status' \in [Tasks -> {"idle", "running"} \cup Final]
      /\ \A u \in Tasks : status[u] = "running" => status'[u] = "running"
  BY DEF Settled, JobsTypeOK, Final
<1>3. JobsTypeOK'
  BY <1>1, <1>2 DEF JobsTypeOK
<1>4. HolderOnly' /\ RunningShown'
  BY <1>2, JobSchedulerAssumption DEF HolderOnly, RunningShown
<1>5. LateBudget'
  BY DEF LateBudget
<1>6. QED
  BY <1>3, <1>4, <1>5

LEMMA StopIInv ==
  ASSUME IInv, Stop \/ \E t \in Tasks : StopTicker(t)
  PROVE  IInv'
<1> USE DEF IInv
<1>1. CASE Stop
  <2>1. JobsTypeOK' /\ HolderOnly' /\ RunningShown'
    BY <1>1 DEF Stop, JobsTypeOK, HolderOnly, RunningShown
  <2>2. LateBudget'
    BY <1>1 DEF Stop, LateBudget, JobsTypeOK, Bit
  <2>3. QED
    BY <2>1, <2>2
<1>2. ASSUME NEW t \in Tasks, StopTicker(t) PROVE IInv'
  <2>1. JobsTypeOK' /\ HolderOnly' /\ RunningShown'
    BY <1>2 DEF StopTicker, JobsTypeOK, HolderOnly, RunningShown
  <2>2. \A u \in Tasks : late[u] \in Nat /\ ready[u] \in BOOLEAN /\ (ready'[u] => ready[u]) /\ ready'[u] \in BOOLEAN
    BY <1>2 DEF StopTicker, JobsTypeOK
  <2>3. LateBudget'
    <3>1. done /\ UNCHANGED <<pc, done, late>>
      BY <1>2 DEF StopTicker
    <3> SUFFICES ASSUME NEW u \in Tasks
        PROVE  late[u] + Bit(pc[u]["loop"] \in {"delay", "try"}) + Bit(ready'[u]) <= 2
      BY <3>1 DEF LateBudget
    <3>2. QED
      BY <2>2, <3>1 DEF LateBudget, Bit
  <2>4. QED
    BY <2>1, <2>3
<1>3. QED
  BY <1>1, <1>2

LEMMA NextIInv == IInv /\ [JobsNext]_jobVars => IInv'
<1> SUFFICES ASSUME IInv, [JobsNext]_jobVars PROVE IInv'
  OBVIOUS
<1>1. CASE UNCHANGED jobVars
  BY <1>1 DEF jobVars, IInv, JobsTypeOK, HolderOnly, RunningShown, LateBudget
<1>2. ASSUME NEW t \in Tasks, TimerFires(t) \/ LoopStep(t) \/ StopTicker(t) PROVE IInv'
  BY <1>2, TimerIInv, LoopStepIInv, StopIInv
<1>3. ASSUME NEW t \in Tasks, NEW r \in Requests, Trigger(t, r) PROVE IInv'
  BY <1>3, TriggerIInv
<1>4. ASSUME NEW t \in Tasks, NEW a \in Actors, RunStep(t, a) PROVE IInv'
  BY <1>4, RunStepIInv
<1>5. ASSUME NEW t \in Tasks, NEW s \in Final, IdleTimer(t, s) PROVE IInv'
  BY <1>5, IdleTimerIInv
<1>6. CASE Stop
  BY <1>6, StopIInv
<1>7. QED
  BY <1>1, <1>2, <1>3, <1>4, <1>5, <1>6 DEF JobsNext

(* Every reachable state satisfies the inductive invariant. *)
THEOREM Invariance == JobsSpec => []IInv
<1>1. QED
  BY InitIInv, NextIInv, PTL DEF JobsSpec

(* The job of a task whose triggers take the mutex never runs twice at once. *)
THEOREM RunsExclude == JobsSpec => []ExclusiveRuns
<1>1. IInv => ExclusiveRuns
  BY DEF IInv, HolderOnly, ExclusiveRuns, Executing, Busy
<1>2. QED
  BY <1>1, Invariance, PTL

(* The dashboard shows "running" as long as such a job runs. *)
THEOREM StatusIsTruthful == JobsSpec => []StatusTruthful
<1>1. IInv => StatusTruthful
  BY DEF IInv, RunningShown, StatusTruthful, Executing
<1>2. QED
  BY <1>1, Invariance, PTL

(* At most two more scheduled runs of a task begin after Stop. *)
THEOREM StopIsPrompt == JobsSpec => []StopPrompt
<1>1. IInv => StopPrompt
  <2> SUFFICES ASSUME IInv, NEW t \in Tasks PROVE late[t] <= 2
    BY DEF StopPrompt
  <2>1. late[t] \in Nat /\ done \in BOOLEAN
    BY DEF IInv, JobsTypeOK
  <2>2. QED
    BY <2>1 DEF IInv, LateBudget, Bit
<1>2. QED
  BY <1>1, Invariance, PTL
=============================================================================
